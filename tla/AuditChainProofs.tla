--------------------------- MODULE AuditChainProofs ---------------------------
(***************************************************************************)
(* Theorems about the audit log, for any organisations, writers and        *)
(* entries.                                                                *)
(*                                                                         *)
(* Why an alarm that is not tampering is a fork: as long as the log of an  *)
(* organisation is a line, a writer holds either the newest hash or one    *)
(* that some row already follows (WriterInv).  Inserting extends the line  *)
(* in the first case and forks it in the second.  A deletion empties the   *)
(* log: then a writer holds the root, or its append crosses the deletion.  *)
(***************************************************************************)
EXTENDS AuditChain, SequenceTheorems, TLAPS

Linear(o) == \A k \in 1..Len(log[o]) : Linked(o, k)

(* The hash a writer holds is that of a row, or the root. *)
LastInv ==
  \A w \in Writers : writing[w] # NoOrg =>
    \/ last[w] = Root
    \/ writing[w] \in crossed
    \/ \E j \in 1..Len(log[writing[w]]) : log[writing[w]][j].hash = last[w]

WriterInv ==
  \A o \in Orgs : \/ Forked(o) \/ o \in crossed
                  \/ /\ Linear(o)
                     /\ \A w \in Writers : writing[w] = o =>
                          \/ last[w] = Newest(o)
                          \/ \E j \in 1..Len(log[o]) : log[o][j].prev = last[w]

(* Every row of an unedited log is sealed with its hashed payload. *)
SealInv ==
  \A o \in Orgs : edited[o] = 0 =>
    \A k \in 1..Len(log[o]) :
      log[o][k].hash = Append(log[o][k].prev, Hashed[log[o][k].entry])

(* What is stored is what was hashed. *)
FaithfulEntries == \A e \in Entries : Hashed[e] = Reread[e]

LEMMA TypeInit == Init => TypeOK
BY DEF Init, TypeOK, Hash, Root

LEMMA EmptyAtFirst == Init => \A o \in Orgs : 1..Len(log[o]) = {} /\ edited[o] = 0
<1> SUFFICES ASSUME Init, NEW o \in Orgs PROVE 1..Len(log[o]) = {} /\ edited[o] = 0
  OBVIOUS
<1>1. log[o] = << >> /\ edited[o] = 0
  BY DEF Init
<1>2. Len(log[o]) = 0
  BY <1>1
<1>3. 1..0 = {}
  OBVIOUS
<1> QED BY <1>1, <1>2, <1>3

(* The row a writer inserts, and the log after it. *)
LEMMA InsertedRow ==
  ASSUME TypeOK, NEW w \in Writers, NEW e \in Entries, InsertRow(w, e)
  PROVE  LET o == writing[w]
             r == [prev |-> last[w], hash |-> Append(last[w], Hashed[e]), entry |-> e]
         IN  /\ o \in Orgs /\ r \in Row
             /\ log' = [log EXCEPT ![o] = Append(log[o], r)]
             /\ Append(log[o], r) \in Seq(Row)
             /\ Len(Append(log[o], r)) = Len(log[o]) + 1
             /\ \A k \in 1..Len(log[o]) : Append(log[o], r)[k] = log[o][k]
             /\ Append(log[o], r)[Len(log[o]) + 1] = r
             /\ Len(log[o]) \in Nat
<1> DEFINE o == writing[w]
           r == [prev |-> last[w], hash |-> Append(last[w], Hashed[e]), entry |-> e]
<1>1. o \in Orgs /\ last[w] \in Hash /\ Hashed[e] \in Payloads
  BY PayloadAssumption DEF InsertRow, TypeOK
<1>2. Append(last[w], Hashed[e]) \in Hash
  BY <1>1, AppendProperties DEF Hash
<1>3. r \in Row
  BY <1>1, <1>2 DEF Row
<1>4. log[o] \in Seq(Row)
  BY <1>1 DEF TypeOK
<1>5. log' = [log EXCEPT ![o] = Append(log[o], r)]
  BY DEF InsertRow
<1> QED BY <1>1, <1>3, <1>4, <1>5, AppendProperties, LenProperties

(* The same, read off the log after the step. *)
LEMMA GrownLog ==
  ASSUME TypeOK, NEW w \in Writers, NEW e \in Entries, InsertRow(w, e),
         NEW o \in Orgs, o = writing[w]
  PROVE  /\ Len(log[o]) \in Nat /\ Len(log'[o]) = Len(log[o]) + 1
         /\ \A k \in 1..Len(log[o]) : log'[o][k] = log[o][k]
         /\ log'[o][Len(log[o]) + 1].prev = last[w]
         /\ log'[o][Len(log[o]) + 1].hash = Append(last[w], Hashed[e])
         /\ log'[o][Len(log[o]) + 1].entry = e
         /\ \A p \in Orgs : p # o => log'[p] = log[p]
<1> DEFINE r == [prev |-> last[w], hash |-> Append(last[w], Hashed[e]), entry |-> e]
<1>1. log' = [log EXCEPT ![o] = Append(log[o], r)]
  BY InsertedRow
<1>2. log'[o] = Append(log[o], r) /\ \A p \in Orgs : p # o => log'[p] = log[p]
  BY <1>1 DEF TypeOK
<1>3. /\ Len(Append(log[o], r)) = Len(log[o]) + 1
      /\ \A k \in 1..Len(log[o]) : Append(log[o], r)[k] = log[o][k]
      /\ Append(log[o], r)[Len(log[o]) + 1] = r
      /\ Len(log[o]) \in Nat
  BY InsertedRow
<1> QED BY <1>2, <1>3

LEMMA TypeStep == TypeOK /\ [Next]_vars => TypeOK'
<1> SUFFICES ASSUME TypeOK, [Next]_vars PROVE TypeOK'
  OBVIOUS
<1>1. ASSUME NEW w \in Writers, NEW o \in Orgs, ReadLast(w, o) PROVE TypeOK'
  <2>1. Newest(o) \in Hash
    <3>1. log[o] \in Seq(Row) BY DEF TypeOK
    <3>2. CASE log[o] = << >> BY <3>2 DEF Newest, Root, Hash
    <3>3. CASE log[o] # << >>
      <4>1. Len(log[o]) \in 1..Len(log[o])
        BY <3>1, <3>3, EmptySeq, LenProperties
      <4>2. log[o][Len(log[o])] \in Row
        BY <3>1, <4>1, ElementOfSeq
      <4> QED BY <3>3, <4>2 DEF Newest, Row
    <3> QED BY <3>2, <3>3
  <2> QED BY <1>1, <2>1 DEF ReadLast, TypeOK, workerVars, orgVars
<1>2. ASSUME NEW w \in Writers, NEW e \in Entries, InsertRow(w, e) PROVE TypeOK'
  <2>1. log' \in [Orgs -> Seq(Row)]
    BY <1>2, InsertedRow DEF TypeOK
  <2> QED BY <1>2, <2>1 DEF InsertRow, Done, TypeOK, Root, Hash, workerVars, orgVars
<1>3. ASSUME NEW w \in Writers, GiveUp(w) PROVE TypeOK'
  BY <1>3 DEF GiveUp, Done, TypeOK, Root, Hash, workerVars, orgVars
<1>4. ASSUME NEW o \in Orgs, NEW k \in 1..MaxLog, NEW e \in Entries, Edit(o, k, e)
      PROVE  TypeOK'
  <2>1. log[o] \in Seq(Row) /\ k \in 1..Len(log[o])
    BY <1>4 DEF Edit, TypeOK
  <2>2. log[o][k] \in Row
    BY <2>1, ElementOfSeq
  <2>3. [log[o][k] EXCEPT !.entry = e] \in Row
    BY <2>2 DEF Row
  <2>4. [log[o] EXCEPT ![k] = [log[o][k] EXCEPT !.entry = e]] \in Seq(Row)
    BY <2>1, <2>3, ExceptSeq
  <2>5. log' = [log EXCEPT ![o] = [log[o] EXCEPT ![k] = [log[o][k] EXCEPT !.entry = e]]]
    BY <1>4 DEF Edit
  <2>6. log' \in [Orgs -> Seq(Row)]
    BY <2>4, <2>5 DEF TypeOK
  <2> QED BY <1>4, <2>6 DEF Edit, TypeOK, workerVars, orgVars
<1>5. ASSUME Worker PROVE TypeOK'
  BY <1>5 DEF Worker, StartRound, RoundFails, CheckChain, TypeOK, orgVars
<1>6. ASSUME NEW o \in Orgs, DeleteRows(o) \/ DeleteOrg(o) PROVE TypeOK'
  <2>1. << >> \in Seq(Row)
    OBVIOUS
  <2>2. ASSUME DeleteRows(o) PROVE TypeOK'
    BY <2>1, <2>2 DEF DeleteRows, TypeOK
  <2>3. ASSUME DeleteOrg(o) PROVE TypeOK'
    BY <2>3 DEF DeleteOrg, TypeOK, workerVars
  <2> QED BY <1>6, <2>2, <2>3
<1>7. ASSUME UNCHANGED vars PROVE TypeOK'
  BY <1>7 DEF vars, TypeOK
<1> QED BY <1>1, <1>2, <1>3, <1>4, <1>5, <1>6, <1>7 DEF Next

(* Type correctness of the audit log. *)
THEOREM TypeCorrect == Spec => []TypeOK
BY TypeInit, TypeStep, PTL DEF Spec

-----------------------------------------------------------------------------
(* An edit changes one entry and nothing that links the rows. *)
LEMMA EditedRow ==
  ASSUME TypeOK, NEW o \in Orgs, NEW k \in 1..MaxLog, NEW e \in Entries, Edit(o, k, e)
  PROVE  /\ k \in 1..Len(log[o])
         /\ \A p \in Orgs : Len(log'[p]) = Len(log[p])
         /\ \A p \in Orgs : \A j \in 1..Len(log[p]) :
              log'[p][j].prev = log[p][j].prev /\ log'[p][j].hash = log[p][j].hash
         /\ \A p \in Orgs : p # o => log'[p] = log[p]
         /\ log'[o][k].entry = e
         /\ edited' = [edited EXCEPT ![o] = edited[o] + 1]
         /\ UNCHANGED <<writing, last, vtodo, alarm, crossed>>
<1>1. log[o] \in Seq(Row) /\ k \in 1..Len(log[o])
  BY DEF Edit, TypeOK
<1>2. log[o][k] \in Row
  BY <1>1, ElementOfSeq
<1> DEFINE r == [log[o][k] EXCEPT !.entry = e]
<1>3. r.prev = log[o][k].prev /\ r.hash = log[o][k].hash /\ r.entry = e
  BY <1>2 DEF Row
<1>4. log' = [log EXCEPT ![o] = [log[o] EXCEPT ![k] = r]]
  BY DEF Edit
<1>5. log'[o] = [log[o] EXCEPT ![k] = r] /\ \A p \in Orgs : p # o => log'[p] = log[p]
  BY <1>4 DEF TypeOK
<1>6. /\ Len([log[o] EXCEPT ![k] = r]) = Len(log[o])
      /\ \A j \in 1..Len(log[o]) :
           [log[o] EXCEPT ![k] = r][j] = IF j = k THEN r ELSE log[o][j]
  <2> HIDE DEF r
  <2>1. r \in Row BY <1>2 DEF r, Row
  <2> QED BY <1>1, <2>1, ExceptSeq
<1>7. \A j \in 1..Len(log[o]) :
        log'[o][j].prev = log[o][j].prev /\ log'[o][j].hash = log[o][j].hash
  BY <1>3, <1>5, <1>6
<1>8. log'[o][k].entry = e
  BY <1>1, <1>3, <1>5, <1>6
<1> HIDE DEF r
<1>9. Len(log'[o]) = Len(log[o])
  BY <1>5, <1>6
<1> QED BY <1>1, <1>5, <1>7, <1>8, <1>9 DEF Edit, workerVars, orgVars

(* What the deletion of an organisation leaves of its log. *)
LEMMA EmptiedLog ==
  ASSUME TypeOK, NEW o \in Orgs, DeleteRows(o)
  PROVE  /\ log'[o] = << >> /\ 1..Len(log'[o]) = {}
         /\ edited'[o] = 0 /\ o \notin alarm'
         /\ \A p \in Orgs : p # o => /\ log'[p] = log[p] /\ edited'[p] = edited[p]
                                    /\ (p \in crossed' <=> p \in crossed)
         /\ UNCHANGED <<writing, last>>
         /\ o \notin crossed' => \A w \in Writers : writing[w] = o => last[w] = Root
<1>1. log'[o] = << >>
  BY DEF DeleteRows, TypeOK
<1>2. Len(log'[o]) = 0
  BY <1>1
<1>3. 1..0 = {}
  OBVIOUS
<1>4. ASSUME NEW p \in Orgs, p # o
      PROVE  log'[p] = log[p] /\ edited'[p] = edited[p] /\ (p \in crossed' <=> p \in crossed)
  BY <1>4 DEF DeleteRows, TypeOK
<1>5. edited'[o] = 0 /\ o \notin alarm' /\ UNCHANGED <<writing, last>>
  BY DEF DeleteRows, TypeOK
<1>6. o \notin crossed' => \A w \in Writers : writing[w] = o => last[w] = Root
  BY DEF DeleteRows
<1> QED BY <1>1, <1>2, <1>3, <1>4, <1>5, <1>6

(* Only a deletion changes what crossed one. *)
LEMMA CrossedSteps ==
  ASSUME TypeOK, [Next]_vars, NEW o \in Orgs, ~ DeleteRows(o)
  PROVE  o \in crossed' <=> o \in crossed
<1>1. crossed' = crossed \/ \E p \in Orgs : DeleteRows(p)
  BY DEF Next, Worker, ReadLast, InsertRow, GiveUp, Edit, DeleteOrg, StartRound, RoundFails,
         CheckChain, vars, orgVars
<1> QED BY <1>1, EmptiedLog

(* No other step removes a row or changes the hashes of one. *)
LEMMA RowsStay ==
  ASSUME TypeOK, [Next]_vars, NEW o \in Orgs, ~ DeleteRows(o)
  PROVE  /\ Len(log[o]) \in Nat /\ Len(log'[o]) \in Nat
         /\ Len(log[o]) <= Len(log'[o])
         /\ \A j \in 1..Len(log[o]) :
              log'[o][j].prev = log[o][j].prev /\ log'[o][j].hash = log[o][j].hash
<1>0. Len(log[o]) \in Nat
  BY LenProperties DEF TypeOK
<1>1. CASE UNCHANGED log
  BY <1>0, <1>1
<1>2. ASSUME NEW w \in Writers, NEW e \in Entries, InsertRow(w, e)
      PROVE  /\ Len(log'[o]) \in Nat /\ Len(log[o]) <= Len(log'[o])
             /\ \A j \in 1..Len(log[o]) :
                  log'[o][j].prev = log[o][j].prev /\ log'[o][j].hash = log[o][j].hash
  <2>1. CASE o = writing[w]
    BY <1>0, <1>2, <2>1, GrownLog
  <2>2. CASE o # writing[w]
    BY <1>0, <1>2, <2>2 DEF InsertRow, TypeOK
  <2> QED BY <2>1, <2>2
<1>3. ASSUME NEW p \in Orgs, NEW k \in 1..MaxLog, NEW e \in Entries, Edit(p, k, e)
      PROVE  /\ Len(log'[o]) \in Nat /\ Len(log[o]) <= Len(log'[o])
             /\ \A j \in 1..Len(log[o]) :
                  log'[o][j].prev = log[o][j].prev /\ log'[o][j].hash = log[o][j].hash
  BY <1>0, <1>3, EditedRow
<1>4. \/ UNCHANGED log
      \/ \E w \in Writers, e \in Entries : InsertRow(w, e)
      \/ \E p \in Orgs, k \in 1..MaxLog, e \in Entries : Edit(p, k, e)
      \/ \E p \in Orgs : DeleteRows(p)
  BY DEF Next, Worker, ReadLast, GiveUp, DeleteRows, DeleteOrg, StartRound, RoundFails, CheckChain, vars
<1>5. ASSUME NEW p \in Orgs, DeleteRows(p) PROVE log'[o] = log[o]
  BY <1>5, EmptiedLog
<1> QED BY <1>0, <1>1, <1>2, <1>3, <1>4, <1>5

(* Which steps change the rows of o. *)
LEMMA RowSteps ==
  ASSUME TypeOK, [Next]_vars, NEW o \in Orgs, ~ DeleteRows(o)
  PROVE  \/ log'[o] = log[o] /\ edited'[o] = edited[o]
         \/ \E w \in Writers, e \in Entries : InsertRow(w, e) /\ writing[w] = o
         \/ \E k \in 1..MaxLog, e \in Entries : Edit(o, k, e)
<1>1. ASSUME NEW w \in Writers, NEW e \in Entries, InsertRow(w, e), writing[w] # o
      PROVE  log'[o] = log[o] /\ edited'[o] = edited[o]
  BY <1>1 DEF InsertRow, TypeOK
<1>2. ASSUME NEW p \in Orgs, NEW k \in 1..MaxLog, NEW e \in Entries, Edit(p, k, e), p # o
      PROVE  log'[o] = log[o] /\ edited'[o] = edited[o]
  BY <1>2 DEF Edit, TypeOK
<1>3. ASSUME NEW p \in Orgs, DeleteRows(p) PROVE log'[o] = log[o] /\ edited'[o] = edited[o]
  BY <1>3, EmptiedLog
<1>4. \/ UNCHANGED <<log, edited>>
      \/ \E w \in Writers, e \in Entries : InsertRow(w, e)
      \/ \E p \in Orgs, k \in 1..MaxLog, e \in Entries : Edit(p, k, e)
      \/ \E p \in Orgs : DeleteRows(p)
  BY DEF Next, Worker, ReadLast, GiveUp, DeleteOrg, StartRound, RoundFails, CheckChain, vars
<1> QED BY <1>1, <1>2, <1>3, <1>4

-----------------------------------------------------------------------------
(* What a writer has read is the hash of a row or the root. *)
LEMMA LastStep == TypeOK /\ LastInv /\ LogIsATree /\ [Next]_vars => (LastInv /\ LogIsATree)'
<1> SUFFICES ASSUME TypeOK, LastInv, LogIsATree, [Next]_vars
             PROVE  LastInv' /\ LogIsATree'
  OBVIOUS
<1>1. LastInv'
  <2> SUFFICES ASSUME NEW w \in Writers, writing'[w] # NoOrg
               PROVE  \/ last'[w] = Root
                      \/ writing'[w] \in crossed'
                      \/ \E j \in 1..Len(log'[writing'[w]]) :
                           log'[writing'[w]][j].hash = last'[w]
    BY DEF LastInv
  <2>1. CASE writing'[w] = writing[w] /\ last'[w] = last[w]
    <3>1. writing[w] \in Orgs
      BY <2>1 DEF TypeOK
    <3>2. CASE DeleteRows(writing[w])
      BY <2>1, <3>1, <3>2, EmptiedLog
    <3>3. CASE ~ DeleteRows(writing[w])
      BY <2>1, <3>1, <3>3, RowsStay, CrossedSteps DEF LastInv
    <3> QED BY <3>2, <3>3
  <2>2. ASSUME NEW o \in Orgs, ReadLast(w, o)
        PROVE  \/ last'[w] = Root
               \/ \E j \in 1..Len(log'[o]) : log'[o][j].hash = last'[w]
    <3>1. last'[w] = Newest(o) /\ log' = log
      BY <2>2 DEF ReadLast, TypeOK
    <3>2. log[o] # << >> => Len(log[o]) \in 1..Len(log[o])
      BY EmptySeq, LenProperties DEF TypeOK
    <3> QED BY <3>1, <3>2 DEF Newest
  <2>3. \/ writing'[w] = writing[w] /\ last'[w] = last[w]
        \/ \E o \in Orgs : ReadLast(w, o) /\ writing'[w] = o
    BY DEF Next, Worker, ReadLast, InsertRow, GiveUp, Edit, DeleteRows, DeleteOrg, StartRound,
           RoundFails, CheckChain, vars, workerVars, orgVars, Done, TypeOK
  <2> QED BY <2>1, <2>2, <2>3
<1>2. LogIsATree'
  <2> SUFFICES ASSUME NEW o \in Orgs, o \notin crossed', NEW k \in 1..Len(log'[o])
               PROVE  \/ log'[o][k].prev = Root
                      \/ \E j \in 1..(k - 1) : log'[o][j].hash = log'[o][k].prev
    BY DEF LogIsATree
  <2>a. ~ DeleteRows(o)
    BY EmptiedLog
  <2>b. o \notin crossed
    BY <2>a, CrossedSteps
  <2>0. k \in Nat /\ Len(log[o]) \in Nat
    BY <2>a, RowsStay
  <2>1. CASE k \in 1..Len(log[o])
    <3>1. \A j \in 1..(k - 1) : j \in 1..Len(log[o])
      BY <2>1, <2>0
    <3> QED BY <2>1, <2>a, <2>b, <3>1, RowsStay DEF LogIsATree
  <2>2. CASE k \notin 1..Len(log[o])
    <3>1. PICK w \in Writers, e \in Entries : InsertRow(w, e) /\ writing[w] = o
      BY <2>2, <2>a, RowSteps, EditedRow
    <3>2. /\ log'[o][k].prev = last[w] /\ k = Len(log[o]) + 1
      BY <2>0, <2>2, <3>1, GrownLog
    <3>3. \/ last[w] = Root
          \/ \E j \in 1..Len(log[o]) : log[o][j].hash = last[w]
      BY <2>b, <3>1, NoOrgAssumption DEF LastInv
    <3> QED BY <2>0, <2>a, <3>2, <3>3, RowsStay
  <2> QED BY <2>1, <2>2
<1> QED BY <1>1, <1>2

(* However writers interleave, no row commits to a hash that is not there, *)
(* but for an append that crosses the deletion of the log.                 *)
THEOREM LogStaysATree == Spec => []LogIsATree
<1>1. Init => LastInv /\ LogIsATree
  BY DEF Init, LastInv, LogIsATree
<1> QED BY <1>1, TypeInit, TypeStep, LastStep, PTL DEF Spec

-----------------------------------------------------------------------------
(* As long as no row has been edited, every row is sealed with what was hashed. *)
LEMMA SealStep == TypeOK /\ SealInv /\ [Next]_vars => SealInv'
<1> SUFFICES ASSUME TypeOK, SealInv, [Next]_vars, NEW o \in Orgs, edited'[o] = 0,
                    NEW k \in 1..Len(log'[o])
             PROVE  log'[o][k].hash = Append(log'[o][k].prev, Hashed[log'[o][k].entry])
  BY DEF SealInv
<1>0. ~ DeleteRows(o)
  BY EmptiedLog
<1>1. CASE log'[o] = log[o] /\ edited'[o] = edited[o]
  BY <1>1 DEF SealInv
<1>2. ASSUME NEW w \in Writers, NEW e \in Entries, InsertRow(w, e), writing[w] = o
      PROVE  log'[o][k].hash = Append(log'[o][k].prev, Hashed[log'[o][k].entry])
  <2>1. edited[o] = 0
    BY <1>2 DEF InsertRow
  <2>2. k \in 1..Len(log[o]) \/ k = Len(log[o]) + 1
    BY <1>2, GrownLog
  <2>3. CASE k \in 1..Len(log[o])
    <3>1. log'[o][k] = log[o][k]
      BY <1>2, <2>3, GrownLog
    <3> QED BY <2>1, <2>3, <3>1 DEF SealInv
  <2>4. CASE k = Len(log[o]) + 1
    <3>1. /\ log'[o][k].prev = last[w] /\ log'[o][k].entry = e
          /\ log'[o][k].hash = Append(last[w], Hashed[e])
      BY <1>2, <2>4, GrownLog
    <3> QED BY <3>1
  <2> QED BY <2>2, <2>3, <2>4
<1>3. ASSUME NEW j \in 1..MaxLog, NEW e \in Entries, Edit(o, j, e)
      PROVE  FALSE
  BY <1>3 DEF Edit, TypeOK
<1> QED BY <1>0, <1>1, <1>2, <1>3, RowSteps

(* A fork stays. *)
LEMMA ForkStays ==
  ASSUME TypeOK, [Next]_vars, NEW o \in Orgs, Forked(o), ~ DeleteRows(o)
  PROVE  Forked(o)'
<1>1. PICK j, k \in 1..Len(log[o]) : j < k /\ log[o][j].prev = log[o][k].prev
  BY DEF Forked
<1>2. j \in 1..Len(log'[o]) /\ k \in 1..Len(log'[o])
  BY RowsStay
<1>3. log'[o][j].prev = log'[o][k].prev
  BY <1>1, RowsStay
<1> QED BY <1>1, <1>2, <1>3 DEF Forked

(* Without a fork the log is a line, and what a writer holds is the end of *)
(* the line or already has a successor.                                    *)
LEMMA WriterStep == TypeOK /\ WriterInv /\ [Next]_vars => WriterInv'
<1> SUFFICES ASSUME TypeOK, WriterInv, [Next]_vars, NEW o \in Orgs, ~ Forked(o)',
                    o \notin crossed'
             PROVE  /\ Linear(o)'
                    /\ \A w \in Writers : writing'[w] = o =>
                         \/ last'[w] = Newest(o)'
                         \/ \E j \in 1..Len(log'[o]) : log'[o][j].prev = last'[w]
  BY DEF WriterInv
<1>e. CASE DeleteRows(o)
  BY <1>e, EmptiedLog DEF Linear, Newest
<1> SUFFICES ASSUME ~ DeleteRows(o)
             PROVE  /\ Linear(o)'
                    /\ \A w \in Writers : writing'[w] = o =>
                         \/ last'[w] = Newest(o)'
                         \/ \E j \in 1..Len(log'[o]) : log'[o][j].prev = last'[w]
  BY <1>e
<1>0. /\ Linear(o)
      /\ \A w \in Writers : writing[w] = o =>
           \/ last[w] = Newest(o)
           \/ \E j \in 1..Len(log[o]) : log[o][j].prev = last[w]
  BY ForkStays, CrossedSteps DEF WriterInv
<1>1. ASSUME log'[o] = log[o]
      PROVE  Linear(o)' /\ Newest(o)' = Newest(o)
  BY <1>0, <1>1 DEF Linear, Linked, Newest
<1>2. ASSUME NEW v \in Writers, NEW e \in Entries, InsertRow(v, e), writing[v] = o
      PROVE  Linear(o)' /\ log'[o][Len(log[o]) + 1].prev = Newest(o)
  <2>0. /\ Len(log[o]) \in Nat /\ Len(log'[o]) = Len(log[o]) + 1
        /\ \A k \in 1..Len(log[o]) : log'[o][k] = log[o][k]
        /\ log'[o][Len(log[o]) + 1].prev = last[v]
    BY <1>2, GrownLog
  <2>1. last[v] = Newest(o)
    <3> SUFFICES ASSUME NEW j \in 1..Len(log[o]), log[o][j].prev = last[v]
                 PROVE  FALSE
      BY <1>0, <1>2
    <3>1. j < Len(log[o]) + 1 /\ j \in 1..Len(log'[o]) /\ Len(log[o]) + 1 \in 1..Len(log'[o])
      BY <2>0
    <3>2. log'[o][j].prev = log'[o][Len(log[o]) + 1].prev
      BY <2>0
    <3> QED BY <3>1, <3>2 DEF Forked
  <2>2. ASSUME NEW k \in 1..Len(log'[o]) PROVE Linked(o, k)'
    <3>1. CASE k \in 1..Len(log[o])
      <4>1. k # 1 => k - 1 \in 1..Len(log[o])
        BY <3>1, <2>0
      <4>2. Linked(o, k)
        BY <1>0, <3>1 DEF Linear
      <4> QED BY <2>0, <3>1, <4>1, <4>2 DEF Linked
    <3>2. CASE k = Len(log[o]) + 1
      <4>1. log[o] = << >> <=> Len(log[o]) = 0
        BY EmptySeq DEF TypeOK
      <4>2. CASE Len(log[o]) = 0
        BY <2>0, <2>1, <3>2, <4>1, <4>2 DEF Linked, Newest
      <4>3. CASE Len(log[o]) # 0
        <5>1. k # 1 /\ k - 1 = Len(log[o]) /\ k - 1 \in 1..Len(log[o])
          BY <2>0, <3>2, <4>3
        <5> QED BY <2>0, <2>1, <3>2, <4>1, <4>3, <5>1 DEF Linked, Newest
      <4> QED BY <4>2, <4>3
    <3> QED BY <2>0, <3>1, <3>2
  <2> QED BY <2>0, <2>1, <2>2 DEF Linear
<1>3. ASSUME NEW k \in 1..MaxLog, NEW e \in Entries, Edit(o, k, e)
      PROVE  Linear(o)' /\ Newest(o)' = Newest(o)
  <2>1. /\ Len(log[o]) \in Nat /\ Len(log'[o]) = Len(log[o])
        /\ \A j \in 1..Len(log[o]) :
             log'[o][j].prev = log[o][j].prev /\ log'[o][j].hash = log[o][j].hash
    BY <1>3, EditedRow, RowsStay
  <2>2. Linear(o)'
    <3> SUFFICES ASSUME NEW j \in 1..Len(log[o]) PROVE Linked(o, j)'
      BY <2>1 DEF Linear
    <3>1. j # 1 => j - 1 \in 1..Len(log[o])
      BY <2>1
    <3>2. Linked(o, j)
      BY <1>0 DEF Linear
    <3> QED BY <2>1, <3>1, <3>2 DEF Linked
  <2>3. log[o] # << >> /\ log'[o] # << >> /\ Len(log[o]) \in 1..Len(log[o])
    BY <1>3, <2>1, EditedRow, EmptySeq DEF TypeOK
  <2> QED BY <2>1, <2>2, <2>3 DEF Newest
<1>4. Linear(o)'
  BY <1>1, <1>2, <1>3, RowSteps
<1>5. ASSUME NEW w \in Writers, writing'[w] = o
      PROVE  \/ last'[w] = Newest(o)'
             \/ \E j \in 1..Len(log'[o]) : log'[o][j].prev = last'[w]
  <2>1. CASE writing[w] = o /\ last'[w] = last[w]
    <3>1. ASSUME NEW v \in Writers, NEW e \in Entries, InsertRow(v, e), writing[v] = o
          PROVE  \E j \in 1..Len(log'[o]) : log'[o][j].prev = last[w]
      <4>1. Len(log[o]) + 1 \in 1..Len(log'[o]) /\ Len(log[o]) \in Nat
        BY <3>1, GrownLog
      <4>2. CASE last[w] = Newest(o)
        BY <3>1, <1>2, <4>1, <4>2
      <4>3. CASE \E j \in 1..Len(log[o]) : log[o][j].prev = last[w]
        BY <4>3, RowsStay
      <4> QED BY <1>0, <2>1, <4>2, <4>3
    <3>2. CASE Newest(o)' = Newest(o)
      BY <1>0, <2>1, <3>2, RowsStay
    <3> QED BY <2>1, <3>1, <3>2, <1>1, <1>3, RowSteps
  <2>2. ASSUME ReadLast(w, o) PROVE last'[w] = Newest(o)'
    BY <2>2 DEF ReadLast, TypeOK, Newest
  <2>3. (writing[w] = o /\ last'[w] = last[w]) \/ ReadLast(w, o)
    BY <1>5, NoOrgAssumption
       DEF Next, Worker, ReadLast, InsertRow, GiveUp, Edit, DeleteRows, DeleteOrg, StartRound, RoundFails, CheckChain,
           vars, workerVars, orgVars, Done, TypeOK
  <2> QED BY <2>1, <2>2, <2>3
<1> QED BY <1>4, <1>5

-----------------------------------------------------------------------------
(* What explains an alarm stays, until the log is emptied. *)
Explained(o) == edited[o] > 0 \/ Forked(o) \/ Misrecorded(o) \/ o \in crossed

LEMMA ExplanationStays ==
  ASSUME TypeOK, [Next]_vars, NEW o \in Orgs, Explained(o), ~ DeleteRows(o)
  PROVE  Explained(o)'
<1>0. CASE o \in crossed
  BY <1>0, CrossedSteps DEF Explained
<1>1. CASE Forked(o)
  BY <1>1, ForkStays DEF Explained
<1>2. CASE log'[o] = log[o] /\ edited'[o] = edited[o] /\ o \notin crossed
  BY <1>2 DEF Explained, Forked, Misrecorded
<1>3. ASSUME NEW w \in Writers, NEW e \in Entries, InsertRow(w, e), writing[w] = o,
             ~ Forked(o), o \notin crossed
      PROVE  Explained(o)'
  <2>1. CASE edited[o] > 0
    BY <1>3, <2>1 DEF Explained, InsertRow
  <2>2. CASE Misrecorded(o)
    <3>1. \A k \in 1..Len(log[o]) : k \in 1..Len(log'[o]) /\ log'[o][k] = log[o][k]
      BY <1>3, GrownLog
    <3> QED BY <2>2, <3>1 DEF Explained, Misrecorded
  <2> QED BY <1>3, <2>1, <2>2 DEF Explained
<1>4. ASSUME NEW k \in 1..MaxLog, NEW e \in Entries, Edit(o, k, e)
      PROVE  Explained(o)'
  BY <1>4 DEF Edit, TypeOK, Explained
<1> QED BY <1>0, <1>1, <1>2, <1>3, <1>4, RowSteps

(* A chain that does not verify has an explanation. *)
LEMMA BreakIsExplained ==
  ASSUME TypeOK, SealInv, WriterInv, NEW o \in Orgs, ~ Verified(o)
  PROVE  Explained(o)
<1> SUFFICES ASSUME edited[o] = 0, ~ Forked(o), o \notin crossed PROVE Misrecorded(o)
  BY DEF Explained, TypeOK
<1>1. PICK k \in 1..Len(log[o]) : ~ Sealed(o, k)
  BY DEF Verified, WriterInv, Linear
<1>2. log[o][k].hash = Append(log[o][k].prev, Hashed[log[o][k].entry])
  BY DEF SealInv
<1>3. Hashed[log[o][k].entry] # Reread[log[o][k].entry]
  BY <1>1, <1>2 DEF Sealed
<1> QED BY <1>3 DEF Misrecorded

LEMMA AlarmStep ==
  TypeOK /\ SealInv /\ WriterInv /\ AlarmsAreExplained /\ [Next]_vars => AlarmsAreExplained'
<1> SUFFICES ASSUME TypeOK, SealInv, WriterInv, AlarmsAreExplained, [Next]_vars,
                    NEW o \in Orgs, o \in alarm'
             PROVE  Explained(o)'
  BY TypeStep DEF AlarmsAreExplained, Explained, TypeOK
<1>0. ~ DeleteRows(o)
  BY EmptiedLog
<1>1. o \in alarm \/ ~ Verified(o)
  BY DEF Next, Worker, ReadLast, InsertRow, GiveUp, Edit, DeleteRows, DeleteOrg, StartRound, RoundFails, CheckChain,
         vars, workerVars, orgVars, Done
<1>2. Explained(o)
  BY <1>1, BreakIsExplained DEF AlarmsAreExplained, Explained
<1> QED BY <1>0, <1>2, ExplanationStays

(* Tampering is never alleged without a changed row, a fork, a row that    *)
(* was recorded otherwise than it was hashed, or an append that crossed    *)
(* the deletion of the log.                                                *)
THEOREM AlarmsStayExplained == Spec => []AlarmsAreExplained
<1>1. Init => SealInv /\ WriterInv /\ AlarmsAreExplained
  <2> SUFFICES ASSUME Init PROVE SealInv /\ WriterInv /\ AlarmsAreExplained
    OBVIOUS
  <2>1. \A o \in Orgs : 1..Len(log[o]) = {}
    BY EmptyAtFirst
  <2>2. \A w \in Writers : writing[w] \notin Orgs
    BY NoOrgAssumption DEF Init
  <2>3. SealInv BY <2>1 DEF SealInv
  <2>4. WriterInv BY <2>1, <2>2 DEF WriterInv, Linear
  <2>5. AlarmsAreExplained BY DEF Init, AlarmsAreExplained
  <2> QED BY <2>3, <2>4, <2>5
<1> QED BY <1>1, TypeInit, TypeStep, SealStep, WriterStep, AlarmStep, PTL DEF Spec

-----------------------------------------------------------------------------
(* After one edit some row's hash is not that of its columns. *)
EditInv ==
  \A o \in Orgs : edited[o] = 1 => \E k \in 1..Len(log[o]) : ~ Sealed(o, k)

LEMMA EditStep ==
  FaithfulEntries /\ TypeOK /\ SealInv /\ EditInv /\ [Next]_vars => EditInv'
<1> SUFFICES ASSUME FaithfulEntries, TypeOK, SealInv, EditInv, [Next]_vars,
                    NEW o \in Orgs, edited'[o] = 1
             PROVE  \E k \in 1..Len(log'[o]) : ~ Sealed(o, k)'
  BY DEF EditInv
<1>0. ~ DeleteRows(o)
  BY EmptiedLog
<1>1. CASE log'[o] = log[o] /\ edited'[o] = edited[o]
  BY <1>1 DEF EditInv, Sealed
<1>2. ASSUME NEW w \in Writers, NEW e \in Entries, InsertRow(w, e), writing[w] = o
      PROVE  \E k \in 1..Len(log'[o]) : ~ Sealed(o, k)'
  <2>1. edited[o] = 1
    BY <1>2 DEF InsertRow
  <2>2. PICK k \in 1..Len(log[o]) : ~ Sealed(o, k)
    BY <2>1 DEF EditInv
  <2>3. log'[o][k] = log[o][k] /\ k \in 1..Len(log'[o])
    BY <1>2, GrownLog
  <2> QED BY <2>2, <2>3 DEF Sealed
<1>3. ASSUME NEW k \in 1..MaxLog, NEW e \in Entries, Edit(o, k, e)
      PROVE  \E j \in 1..Len(log'[o]) : ~ Sealed(o, j)'
  <2>1. edited[o] = 0
    BY <1>3, EditedRow DEF TypeOK
  <2>2. k \in 1..Len(log[o]) /\ k \in 1..Len(log'[o])
    BY <1>3, EditedRow
  <2>3. log[o][k] \in Row
    BY <2>2, ElementOfSeq DEF TypeOK
  <2> DEFINE p == log[o][k].prev
             old == Reread[log[o][k].entry]
             new == Reread[e]
  <2>4. p \in Seq(Payloads) /\ old \in Payloads /\ new \in Payloads
    BY <2>3, PayloadAssumption DEF Row, Hash
  <2>5. old # new
    BY <1>3 DEF Edit
  <2>6. log[o][k].hash = Append(p, old)
    <3>1. Hashed[log[o][k].entry] = old
      BY <2>3 DEF FaithfulEntries, Row
    <3> QED BY <2>1, <2>2, <3>1 DEF SealInv
  <2>7. Append(p, old) # Append(p, new)
    <3> HIDE DEF p, old, new
    <3> QED BY <2>4, <2>5, AppendInjective
  <2>8. /\ log'[o][k].prev = p /\ log'[o][k].hash = log[o][k].hash
        /\ log'[o][k].entry = e
    BY <1>3, <2>2, EditedRow
  <2>9. ~ Sealed(o, k)'
    BY <2>6, <2>7, <2>8 DEF Sealed
  <2> QED BY <2>2, <2>9
<1> QED BY <1>0, <1>1, <1>2, <1>3, RowSteps

(* One changed row is always seen, wherever it is and however long the log *)
(* has grown since, if what is stored is what was hashed.                  *)
THEOREM EditsAreDetected ==
  ASSUME FaithfulEntries
  PROVE  Spec => []EditIsDetected
<1>1. Init => SealInv /\ EditInv
  <2> SUFFICES ASSUME Init PROVE SealInv /\ EditInv
    OBVIOUS
  <2>1. \A o \in Orgs : 1..Len(log[o]) = {} /\ edited[o] = 0
    BY EmptyAtFirst
  <2>2. SealInv BY <2>1 DEF SealInv
  <2>3. EditInv BY <2>1 DEF EditInv
  <2> QED BY <2>2, <2>3
<1>2. EditInv => EditIsDetected
  BY DEF EditInv, EditIsDetected, Verified
<1>3. TypeOK /\ SealInv /\ EditInv /\ [Next]_vars => EditInv'
  BY EditStep
<1> QED BY <1>1, <1>2, <1>3, TypeInit, TypeStep, SealStep, PTL DEF Spec

-----------------------------------------------------------------------------
(* Appending neither mends nor hides a break. *)
LEMMA BreakStep ==
  ASSUME TypeOK, [Next]_vars, NEW o \in Orgs, ~ Verified(o), edited'[o] = edited[o],
         log'[o] # << >>
  PROVE  ~ Verified(o)'
<1>0. ~ DeleteRows(o)
  BY EmptiedLog
<1>1. PICK k \in 1..Len(log[o]) : ~ (Linked(o, k) /\ Sealed(o, k))
  BY DEF Verified
<1>2. ASSUME \A j \in 1..Len(log[o]) : log'[o][j] = log[o][j]
      PROVE  ~ (Linked(o, k) /\ Sealed(o, k))'
  <2>1. Len(log[o]) \in Nat
    BY <1>0, RowsStay
  <2>2. k # 1 => k - 1 \in 1..Len(log[o])
    BY <2>1
  <2> QED BY <1>1, <1>2, <2>2 DEF Linked, Sealed
<1>3. k \in 1..Len(log'[o])
  BY <1>0, RowsStay
<1>4. ASSUME NEW j \in 1..MaxLog, NEW e \in Entries, Edit(o, j, e) PROVE FALSE
  BY <1>4, EditedRow DEF TypeOK
<1>5. \A j \in 1..Len(log[o]) : log'[o][j] = log[o][j]
  BY <1>0, <1>4, RowSteps, GrownLog
<1> QED BY <1>2, <1>3, <1>5 DEF Verified

(* A broken chain is mended by nothing but another edit, or the deletion  *)
(* of all its rows.                                                       *)
THEOREM BrokenChainsStayBroken == Spec => BrokenStaysBroken
<1>1. TypeOK /\ [Next]_vars
        => \A o \in Orgs : ~ Verified(o) /\ edited'[o] = edited[o] /\ log'[o] # << >>
             => ~ Verified(o)'
  BY BreakStep
<1> QED BY <1>1, TypeInit, TypeStep, PTL DEF Spec, BrokenStaysBroken

-----------------------------------------------------------------------------
(* With one writer: the log is a line and the writer holds its end. *)
OneWriter == \A v, w \in Writers : v = w

OneInv ==
  \A o \in Orgs \ crossed : /\ Linear(o)
                            /\ \A w \in Writers : writing[w] = o => last[w] = Newest(o)

(* What is left of UntouchedVerifies: an append may cross a deletion. *)
UncrossedVerifies == \A o \in Orgs \ crossed : edited[o] = 0 => Verified(o)

LEMMA LinkedAfter ==
  ASSUME TypeOK, NEW w \in Writers, NEW e \in Entries, InsertRow(w, e),
         NEW o \in Orgs, o = writing[w], Linear(o), last[w] = Newest(o)
  PROVE  Linear(o)'
<1>0. /\ Len(log[o]) \in Nat /\ Len(log'[o]) = Len(log[o]) + 1
      /\ \A k \in 1..Len(log[o]) : log'[o][k] = log[o][k]
      /\ log'[o][Len(log[o]) + 1].prev = Newest(o)
  BY GrownLog
<1>1. log[o] = << >> <=> Len(log[o]) = 0
  BY EmptySeq DEF TypeOK
<1> SUFFICES ASSUME NEW k \in 1..Len(log'[o]) PROVE Linked(o, k)'
  BY DEF Linear
<1>2. CASE k \in 1..Len(log[o])
  <2>1. k # 1 => k - 1 \in 1..Len(log[o])
    BY <1>0, <1>2
  <2>2. Linked(o, k)
    BY <1>2 DEF Linear
  <2> QED BY <1>0, <1>2, <2>1, <2>2 DEF Linked
<1>3. CASE k = Len(log[o]) + 1
  <2>1. CASE Len(log[o]) = 0
    BY <1>0, <1>1, <1>3, <2>1 DEF Linked, Newest
  <2>2. CASE Len(log[o]) # 0
    <3>1. k # 1 /\ k - 1 = Len(log[o]) /\ k - 1 \in 1..Len(log[o])
      BY <1>0, <1>3, <2>2
    <3> QED BY <1>0, <1>1, <1>3, <2>2, <3>1 DEF Linked, Newest
  <2> QED BY <2>1, <2>2
<1> QED BY <1>0, <1>2, <1>3

(* An edit moves no link. *)
LEMMA LinksAfterEdit ==
  ASSUME TypeOK, NEW o \in Orgs, NEW k \in 1..MaxLog, NEW e \in Entries, Edit(o, k, e),
         NEW p \in Orgs
  PROVE  (Linear(p) => Linear(p)') /\ Newest(p)' = Newest(p)
<1>1. /\ Len(log[p]) \in Nat /\ Len(log'[p]) = Len(log[p])
      /\ \A j \in 1..Len(log[p]) :
           log'[p][j].prev = log[p][j].prev /\ log'[p][j].hash = log[p][j].hash
  BY EditedRow, LenProperties DEF TypeOK
<1>2. ASSUME Linear(p), NEW j \in 1..Len(log[p]) PROVE Linked(p, j)'
  <2>1. j # 1 => j - 1 \in 1..Len(log[p])
    BY <1>1
  <2>2. Linked(p, j)
    BY <1>2 DEF Linear
  <2> QED BY <1>1, <2>1, <2>2 DEF Linked
<1>3. Linear(p) => Linear(p)'
  BY <1>1, <1>2 DEF Linear
<1>4. Newest(p)' = Newest(p)
  <2>1. CASE p # o
    BY <2>1, EditedRow DEF Newest
  <2>2. CASE p = o
    <3>1. log[p] # << >> /\ log'[p] # << >> /\ Len(log[p]) \in 1..Len(log[p])
      BY <1>1, <2>2, EditedRow, EmptySeq DEF TypeOK
    <3> QED BY <1>1, <3>1 DEF Newest
  <2> QED BY <2>1, <2>2
<1> QED BY <1>3, <1>4

LEMMA OneStep == OneWriter /\ TypeOK /\ OneInv /\ [Next]_vars => OneInv'
<1> SUFFICES ASSUME OneWriter, TypeOK, OneInv, [Next]_vars, NEW o \in Orgs,
                    o \notin crossed'
             PROVE  /\ Linear(o)'
                    /\ \A w \in Writers : writing'[w] = o => last'[w] = Newest(o)'
  BY DEF OneInv
<1>e. CASE DeleteRows(o)
  BY <1>e, EmptiedLog DEF Linear, Newest
<1> SUFFICES ASSUME ~ DeleteRows(o)
             PROVE  /\ Linear(o)'
                    /\ \A w \in Writers : writing'[w] = o => last'[w] = Newest(o)'
  BY <1>e
<1>1. Linear(o) /\ \A w \in Writers : writing[w] = o => last[w] = Newest(o)
  BY CrossedSteps DEF OneInv
<1>2. ASSUME NEW v \in Writers, NEW e \in Entries, InsertRow(v, e), writing[v] = o
      PROVE  /\ Linear(o)'
             /\ \A w \in Writers : writing'[w] = o => last'[w] = Newest(o)'
  <2>1. Linear(o)'
    BY <1>1, <1>2, LinkedAfter
  <2>2. \A w \in Writers : writing'[w] # o
    BY <1>2, NoOrgAssumption DEF OneWriter, InsertRow, Done, TypeOK
  <2> QED BY <2>1, <2>2
<1>3. ASSUME NEW k \in 1..MaxLog, NEW e \in Entries, Edit(o, k, e)
      PROVE  /\ Linear(o)'
             /\ \A w \in Writers : writing'[w] = o => last'[w] = Newest(o)'
  BY <1>1, <1>3, LinksAfterEdit, EditedRow
<1>4. ASSUME log'[o] = log[o]
      PROVE  /\ Linear(o)'
             /\ \A w \in Writers : writing'[w] = o => last'[w] = Newest(o)'
  <2>1. Linear(o)' /\ Newest(o)' = Newest(o)
    BY <1>1, <1>4 DEF Linear, Linked, Newest
  <2>2. ASSUME NEW w \in Writers, writing'[w] = o PROVE last'[w] = Newest(o)
    <3>1. (writing[w] = o /\ last'[w] = last[w]) \/ ReadLast(w, o)
      BY <2>2, NoOrgAssumption
         DEF Next, Worker, ReadLast, InsertRow, GiveUp, Edit, DeleteRows, DeleteOrg, StartRound, RoundFails, CheckChain,
             vars, workerVars, orgVars, Done, TypeOK
    <3>2. ReadLast(w, o) => last'[w] = Newest(o)
      BY DEF ReadLast, TypeOK
    <3> QED BY <1>1, <3>1, <3>2
  <2> QED BY <2>1, <2>2
<1> QED BY <1>2, <1>3, <1>4, RowSteps

(* A single writer that stores what it hashes never breaks its own chain,  *)
(* unless its append crosses a deletion: a false alarm has no other        *)
(* reasons than the interleaving of writers, the notation, and that.       *)
THEOREM OneFaithfulWriterVerifies ==
  ASSUME OneWriter, FaithfulEntries
  PROVE  Spec => []UncrossedVerifies
<1>1. Init => SealInv /\ OneInv
  <2> SUFFICES ASSUME Init PROVE SealInv /\ OneInv
    OBVIOUS
  <2>1. \A o \in Orgs : 1..Len(log[o]) = {}
    BY EmptyAtFirst
  <2>2. \A w \in Writers : writing[w] \notin Orgs
    BY NoOrgAssumption DEF Init
  <2>3. SealInv BY <2>1 DEF SealInv
  <2>4. OneInv BY <2>1, <2>2 DEF OneInv, Linear
  <2> QED BY <2>3, <2>4
<1>2. TypeOK /\ OneInv /\ [Next]_vars => OneInv'
  BY OneStep
<1>3. TypeOK /\ SealInv /\ OneInv => UncrossedVerifies
  <2> SUFFICES ASSUME TypeOK, SealInv, OneInv, NEW o \in Orgs \ crossed, edited[o] = 0,
                      NEW k \in 1..Len(log[o])
               PROVE  Linked(o, k) /\ Sealed(o, k)
    BY DEF UncrossedVerifies, Verified
  <2>1. Linked(o, k)
    BY DEF OneInv, Linear
  <2>2. log[o][k] \in Row
    BY ElementOfSeq DEF TypeOK
  <2>3. Hashed[log[o][k].entry] = Reread[log[o][k].entry]
    BY <2>2 DEF FaithfulEntries, Row
  <2>4. Sealed(o, k)
    BY <2>3 DEF SealInv, Sealed
  <2> QED BY <2>1, <2>4
<1> QED BY <1>1, <1>2, <1>3, TypeInit, TypeStep, SealStep, PTL DEF Spec
=============================================================================
