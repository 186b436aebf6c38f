------------------------------ MODULE AuditChain ------------------------------
(***************************************************************************)
(* The hash-chained audit log: create_audit_log and verify_audit_chain in  *)
(* core/admin.py, the append inside core/smtp_server.py, and the worker    *)
(* core/integrity_worker.py that checks every chain every ten minutes.     *)
(*                                                                         *)
(* A writer reads the newest current_hash of its organisation and inserts  *)
(* its row in two autocommitted statements with an await between them;     *)
(* the central SMTP server writes from a thread or process of its own.     *)
(*                                                                         *)
(* SHA-256 is idealised as injective: a hash is the sequence of payloads   *)
(* it commits to, so hashing onto a previous hash is Append.  An entry is  *)
(* what a caller asks to log.  Two payloads belong to it: the one that is  *)
(* hashed when it is written, and the one a verifier recomputes from the   *)
(* stored columns.  They differ for the SMTP server, which hashes          *)
(* "systemSMTP..." (smtp_server.py:151) and stores the action SMTP_INGEST, *)
(* and for details that JSONB gives back in another notation.              *)
(*                                                                         *)
(* delete_organization empties the log in a statement of its own and       *)
(* deletes the organisation four statements later; the last one fails when *)
(* a row was inserted in between, and the organisation lives on with a log *)
(* that begins anew.  An append under way meanwhile holds the hash of a    *)
(* row that is gone.                                                       *)
(***************************************************************************)
EXTENDS Naturals, Sequences

CONSTANTS
  Orgs,      \* organisations
  Writers,   \* request handlers and the SMTP handler
  Entries,   \* what may be logged
  Payloads,
  Hashed,    \* Hashed[e]: the payload hashed when e is written
  Reread,    \* Reread[e]: the payload recomputed from the stored columns
  NoOrg,
  MaxLog,    \* bound: rows of one organisation
  MaxEdits   \* bound: rows changed behind the program's back

ASSUME PayloadAssumption == /\ Hashed \in [Entries -> Payloads]
                            /\ Reread \in [Entries -> Payloads]
ASSUME NoOrgAssumption == NoOrg \notin Orgs
ASSUME BoundsAssumption == MaxLog \in Nat /\ MaxEdits \in Nat

VARIABLES
  log,       \* log[o]: the rows of o in audit_logs, ordered by id
  writing,   \* writing[w]: the organisation writer w appends for, or NoOrg
  last,      \* last[w]: last_hash as writer w read it
  vtodo,     \* the organisations verify_chains has still to check
  alarm,     \* the organisations "TAMPERING DETECTED" was logged for since
             \* their log was last emptied
  edited,    \* edited[o]: how many rows of o were changed by hand
  orgs,      \* the rows of organizations
  crossed    \* history: the organisations whose log was last emptied while
             \* an append held the hash of a row

vars == <<log, writing, last, vtodo, alarm, edited, orgs, crossed>>
workerVars == <<vtodo, alarm>>
orgVars == <<orgs, crossed>>

Hash == Seq(Payloads)
Root == << >>                       \* "ROOT_HASH"
Row == [prev : Hash, hash : Hash, entry : Entries]

Newest(o) == IF log[o] = << >> THEN Root ELSE log[o][Len(log[o])].hash

TypeOK ==
  /\ log \in [Orgs -> Seq(Row)]
  /\ writing \in [Writers -> Orgs \cup {NoOrg}]
  /\ last \in [Writers -> Hash]
  /\ vtodo \subseteq Orgs /\ alarm \subseteq Orgs
  /\ edited \in [Orgs -> Nat]
  /\ orgs \subseteq Orgs /\ crossed \subseteq Orgs

Init ==
  /\ log = [o \in Orgs |-> << >>]
  /\ writing = [w \in Writers |-> NoOrg]
  /\ last = [w \in Writers |-> Root]
  /\ vtodo = {} /\ alarm = {}
  /\ edited = [o \in Orgs |-> 0]
  /\ orgs = Orgs /\ crossed = {}

-----------------------------------------------------------------------------
(* SELECT current_hash ... ORDER BY id DESC LIMIT 1, "or ROOT_HASH". *)
ReadLast(w, o) ==
  /\ writing[w] = NoOrg /\ Len(log[o]) < MaxLog
  /\ writing' = [writing EXCEPT ![w] = o]
  /\ last' = [last EXCEPT ![w] = Newest(o)]
  /\ UNCHANGED <<log, edited>> /\ UNCHANGED workerVars /\ UNCHANGED orgVars

(* The handler ends, and what it had read with it. *)
Done(w) == /\ writing' = [writing EXCEPT ![w] = NoOrg]
           /\ last' = [last EXCEPT ![w] = Root]

(* Mutant: last_hash is left out of the hashed payload. *)
InsertRowUnlinked(w, e) ==
  /\ writing[w] \in orgs /\ Len(log[writing[w]]) < MaxLog
  /\ log' = [log EXCEPT ![writing[w]] = Append(@,
               [prev |-> last[w], hash |-> << Hashed[e] >>, entry |-> e])]
  /\ Done(w)
  /\ UNCHANGED edited /\ UNCHANGED workerVars /\ UNCHANGED orgVars

(* Mutant: the two hash columns are swapped. *)
InsertRowSwapped(w, e) ==
  /\ writing[w] \in orgs /\ Len(log[writing[w]]) < MaxLog
  /\ log' = [log EXCEPT ![writing[w]] = Append(@,
               [prev |-> Append(last[w], Hashed[e]), hash |-> last[w], entry |-> e])]
  /\ Done(w)
  /\ UNCHANGED edited /\ UNCHANGED workerVars /\ UNCHANGED orgVars

(* INSERT INTO audit_logs with the last hash as it was read.  The foreign  *)
(* key refuses the row when the organisation is gone.                      *)
InsertRow(w, e) ==
  /\ writing[w] \in orgs /\ Len(log[writing[w]]) < MaxLog
  /\ log' = [log EXCEPT ![writing[w]] = Append(@,
               [prev |-> last[w], hash |-> Append(last[w], Hashed[e]), entry |-> e])]
  /\ Done(w)
  /\ UNCHANGED edited /\ UNCHANGED workerVars /\ UNCHANGED orgVars

(* A statement fails, by the foreign key too, or the client goes: nothing  *)
(* is inserted.                                                            *)
GiveUp(w) ==
  /\ writing[w] # NoOrg
  /\ Done(w)
  /\ UNCHANGED <<log, edited>> /\ UNCHANGED workerVars /\ UNCHANGED orgVars

(* A row's columns are changed in the database, as                        *)
(* scripts/test_audit_tamper.py does: the hashes are not recomputed.      *)
Edit(o, k, e) ==
  /\ edited[o] < MaxEdits /\ k \in 1..Len(log[o])
  /\ Reread[e] # Reread[log[o][k].entry]
  /\ log' = [log EXCEPT ![o][k].entry = e]
  /\ edited' = [edited EXCEPT ![o] = @ + 1]
  /\ UNCHANGED <<writing, last>> /\ UNCHANGED workerVars /\ UNCHANGED orgVars

(* DELETE FROM audit_logs WHERE org_id, committed by itself.  On an empty  *)
(* log it changes nothing.                                                 *)
DeleteRows(o) ==
  /\ log[o] # << >>
  /\ log' = [log EXCEPT ![o] = << >>]
  /\ edited' = [edited EXCEPT ![o] = 0]
  /\ alarm' = alarm \ {o}
  /\ crossed' = IF \E w \in Writers : writing[w] = o /\ last[w] # Root
                THEN crossed \cup {o} ELSE crossed \ {o}
  /\ UNCHANGED <<writing, last, vtodo, orgs>>

(* DELETE FROM organizations: the foreign key of audit_logs refuses it as  *)
(* long as the organisation has rows, and the handler ends with an error.  *)
DeleteOrg(o) ==
  /\ o \in orgs /\ log[o] = << >>
  /\ orgs' = orgs \ {o}
  /\ UNCHANGED <<log, writing, last, edited, crossed>> /\ UNCHANGED workerVars

-----------------------------------------------------------------------------
(* The loop of verify_audit_chain over the rows: the link, then the hash.  *)
Linked(o, k) == log[o][k].prev = IF k = 1 THEN Root ELSE log[o][k - 1].hash

(* Mutant: the hash is only looked for, not recomputed. *)
SealedIfAny(o, k) == log[o][k].hash # Root

Sealed(o, k) == log[o][k].hash = Append(log[o][k].prev, Reread[log[o][k].entry])

(* Mutant: only the newest row is checked. *)
VerifiedNewest(o) ==
  log[o] # << >> => Linked(o, Len(log[o])) /\ Sealed(o, Len(log[o]))

Verified(o) == \A k \in 1..Len(log[o]) : Linked(o, k) /\ Sealed(o, k)

(* A round of the worker begins with the list of organisations. *)
StartRound ==
  /\ vtodo = {}
  /\ vtodo' = orgs
  /\ UNCHANGED <<log, writing, last, alarm, edited>> /\ UNCHANGED orgVars

(* An exception ends the round; the next one starts from the beginning. *)
RoundFails ==
  /\ vtodo # {}
  /\ vtodo' = {}
  /\ UNCHANGED <<log, writing, last, alarm, edited>> /\ UNCHANGED orgVars

(* Mutant: the break leaves the loop over the organisations as well. *)
CheckChainOnce(o) ==
  /\ o \in vtodo
  /\ vtodo' = IF alarm = {} THEN vtodo \ {o} ELSE {}
  /\ alarm' = IF Verified(o) \/ alarm # {} THEN alarm ELSE alarm \cup {o}
  /\ UNCHANGED <<log, writing, last, edited>> /\ UNCHANGED orgVars

(* One SELECT per organisation; a broken chain does not end the round. *)
CheckChain(o) ==
  /\ o \in vtodo
  /\ vtodo' = vtodo \ {o}
  /\ alarm' = IF Verified(o) THEN alarm ELSE alarm \cup {o}
  /\ UNCHANGED <<log, writing, last, edited>> /\ UNCHANGED orgVars

-----------------------------------------------------------------------------
Worker == StartRound \/ RoundFails \/ \E o \in Orgs : CheckChain(o)

Next == \/ \E w \in Writers : \/ \E o \in Orgs : ReadLast(w, o)
                              \/ \E e \in Entries : InsertRow(w, e)
                              \/ GiveUp(w)
        \/ \E o \in Orgs, k \in 1..MaxLog, e \in Entries : Edit(o, k, e)
        \/ \E o \in Orgs : DeleteRows(o) \/ DeleteOrg(o)
        \/ Worker

Spec == Init /\ [][Next]_vars

(* start_worker loops for ever.  Rounds may fail, but not always before    *)
(* the same organisation has been checked.                                 *)
FairSpec == Spec /\ WF_vars(StartRound) /\ \A o \in Orgs : SF_vars(CheckChain(o))

-----------------------------------------------------------------------------
(* Two rows of o were appended to the same predecessor. *)
Forked(o) == \E j, k \in 1..Len(log[o]) : j < k /\ log[o][j].prev = log[o][k].prev

(* A row of o was hashed as something else than what is stored. *)
Misrecorded(o) ==
  \E k \in 1..Len(log[o]) : Hashed[log[o][k].entry] # Reread[log[o][k].entry]

(* Every row commits to an earlier row, or to the root: however the        *)
(* writers interleave, the log is a tree and no row hangs in the air.      *)
(* Except in a log that was begun anew, by a deletion that then failed,    *)
(* while an append was under way.                                          *)
LogIsATree ==
  \A o \in Orgs \ crossed : \A k \in 1..Len(log[o]) :
    \/ log[o][k].prev = Root
    \/ \E j \in 1..(k - 1) : log[o][j].hash = log[o][k].prev

(* "TAMPERING DETECTED" has one of four causes: a row was changed, two     *)
(* writers read the same last hash, a row was recorded otherwise than it   *)
(* was hashed, or an append crossed the deletion of the log.  Only the     *)
(* first is tampering.                                                     *)
AlarmsAreExplained ==
  \A o \in alarm : edited[o] > 0 \/ Forked(o) \/ Misrecorded(o) \/ o \in crossed

(* A single changed row is seen by the next check, whatever row it is and  *)
(* whatever is appended after it (scripts/test_audit_tamper.py step 4).    *)
(* For writers that store what they hash: an edit could also repair a row  *)
(* that was misrecorded.                                                   *)
EditIsDetected == \A o \in Orgs : edited[o] = 1 => ~ Verified(o)

(* A broken chain never heals by appending, only by another edit: once it  *)
(* has been broken, the log of an organisation is not trusted again.  The  *)
(* exception is a deletion of the organisation, which empties the log and  *)
(* which the organisation may survive.                                     *)
BrokenStaysBroken ==
  [][\A o \in Orgs : ~ Verified(o) /\ edited'[o] = edited[o] /\ log'[o] # << >>
                       => ~ Verified(o)']_vars

(* Every broken chain is reported, also when that of another organisation  *)
(* is broken; or it is edited again, or deleted.                           *)
BreakIsReported ==
  \A o \in Orgs : ~ Verified(o) ~> o \in alarm \/ Verified(o)

(* An audit log nobody has touched is valid: scripts/test_audit_tamper.py  *)
(* step 2, "Verify Chain (Should be Valid)".                               *)
UntouchedVerifies == \A o \in Orgs : edited[o] = 0 => Verified(o)
=============================================================================
