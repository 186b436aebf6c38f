------------------------- MODULE SidecarBufferProofs -------------------------
(***************************************************************************)
(* Theorems about the agent, for any mails, attachments, ids and faults.   *)
(*                                                                         *)
(* The safety properties of SidecarBuffer are not inductive: whether an    *)
(* insert leaves a row without its file depends on what the handler wrote  *)
(* before.  BufferInv says, for each place of handle_DATA, what the        *)
(* attempt has already put on the disk and into buffer.db.  CopyInv counts *)
(* the attempts that have been given up with a row.                        *)
(***************************************************************************)
EXTENDS SidecarBuffer, FiniteSetTheorems, TLAPS

(* The mail server waits on an attempt that carries its mail. *)
AttemptInv ==
  \A m \in Mails : attempt[m] # NoId =>
    mailOf[attempt[m]] = m /\ pc[attempt[m]] # "idle"

(* What an attempt has done when it stands at pc[i]. *)
HandlerInv ==
  \A i \in Ids :
    /\ pc[i] \in {"idle", "walk", "select", "insert", "row"} => msgRow[i] = "none"
    /\ pc[i] \in Running =>
         \A b \in Attachments[mailOf[i]] : b \in todo[i] \/ casRow[b] # "none"
    /\ pc[i] \in {"select", "insert"} =>
         cur[i] \in Blobs /\ casFile[cur[i]] # "absent"
    /\ pc[i] \in {"row", "ok"} => todo[i] = {} /\ i \in encFile
    /\ pc[i] = "ok" => Buffered(i)

BufferInv ==
  /\ BufferTypeOK
  /\ AttemptInv /\ HandlerInv
  /\ AcceptedIsBuffered /\ RowsHaveFiles /\ ReferencesHaveRows

(* Every step of the agent, and the sync process's two updates. *)
BufferStep == \/ AgentNext
              \/ \E i \in Ids : MarkSynced(i)
              \/ \E b \in Blobs : MarkCasSynced(b)

-----------------------------------------------------------------------------
LEMMA BufferInitInv == BufferInit => BufferInv
BY AttachmentsAssumption, NullsAssumption, MaxFaultsAssumption
   DEF BufferInit, AgentInit, BufferInv, BufferTypeOK, AgentTypeOK, AttemptInv,
       HandlerInv, AcceptedIsBuffered, RowsHaveFiles, ReferencesHaveRows,
       Buffered, Running, RowStatus, FileState, FaultInit, FaultTypeOK

(* Type correctness is inductive by itself. *)
LEMMA BufferTypeStep ==
  ASSUME BufferTypeOK, BufferStep
  PROVE  BufferTypeOK'
<1> USE AttachmentsAssumption, NullsAssumption, MaxFaultsAssumption
    DEF BufferTypeOK, AgentTypeOK, Running, RowStatus, FileState, Goto, Fault,
        Spend, NoFault, faultVars, FaultTypeOK, mtaVars, handlerVars, diskVars
<1>1. ASSUME NEW m \in Mails, NEW i \in Ids, Deliver(m, i) PROVE BufferTypeOK'
  BY <1>1 DEF Deliver
<1>2. ASSUME NEW m \in Mails, MtaTimeout(m) PROVE BufferTypeOK'
  BY <1>2 DEF MtaTimeout
<1>3. ASSUME NEW m \in Mails, MtaSeesClose(m) PROVE BufferTypeOK'
  BY <1>3 DEF MtaSeesClose
<1>4. ASSUME NEW i \in Ids, NEW b \in Blobs, SaveCasFile(i, b) PROVE BufferTypeOK'
  BY <1>4 DEF SaveCasFile
<1>5. ASSUME NEW i \in Ids, NEW b \in Blobs, TornCasWrite(i, b) PROVE BufferTypeOK'
  BY <1>5 DEF TornCasWrite
<1>6. ASSUME NEW i \in Ids, SelectFindsRow(i) PROVE BufferTypeOK'
  BY <1>6 DEF SelectFindsRow
<1>7. ASSUME NEW i \in Ids, SelectFindsNothing(i) PROVE BufferTypeOK'
  BY <1>7 DEF SelectFindsNothing
<1>8. ASSUME NEW i \in Ids, InsertCas(i) PROVE BufferTypeOK'
  BY <1>8 DEF InsertCas
<1>9. ASSUME NEW i \in Ids, InsertCasConflicts(i) PROVE BufferTypeOK'
  BY <1>9 DEF InsertCasConflicts
<1>10. ASSUME NEW i \in Ids, SaveEncFile(i) PROVE BufferTypeOK'
  BY <1>10 DEF SaveEncFile
<1>11. ASSUME NEW i \in Ids, InsertMessage(i) PROVE BufferTypeOK'
  BY <1>11 DEF InsertMessage
<1>12. ASSUME NEW i \in Ids, SqlFails(i) PROVE BufferTypeOK'
  BY <1>12 DEF SqlFails
<1>13. ASSUME NEW i \in Ids, Reply250(i) PROVE BufferTypeOK'
  <2>1. mailOf[i] \in Mails
    BY <1>13 DEF Reply250
  <2>2. delivered' \subseteq Mails /\ attempt' \in [Mails -> Ids \cup {NoId}]
    BY <1>13, <2>1 DEF Reply250
  <2> QED BY <1>13, <2>2 DEF Reply250
<1>14. ASSUME NEW i \in Ids, Reply451(i) PROVE BufferTypeOK'
  BY <1>14 DEF Reply451
<1>15. ASSUME NEW i \in Ids, HandlerCancelled(i) PROVE BufferTypeOK'
  BY <1>15 DEF HandlerCancelled
<1>16. ASSUME AgentCrash PROVE BufferTypeOK'
  BY <1>16 DEF AgentCrash
<1>17. ASSUME NEW i \in Ids, MarkSynced(i) PROVE BufferTypeOK'
  BY <1>17 DEF MarkSynced
<1>18. ASSUME NEW b \in Blobs, MarkCasSynced(b) PROVE BufferTypeOK'
  BY <1>18 DEF MarkCasSynced
<1> QED
  BY <1>1, <1>2, <1>3, <1>4, <1>5, <1>6, <1>7, <1>8, <1>9, <1>10, <1>11, <1>12,
     <1>13, <1>14, <1>15, <1>16, <1>17, <1>18
     DEF BufferStep, AgentNext, Mta, Handler, HandlerFault

-----------------------------------------------------------------------------
LEMMA BufferInvStep ==
  ASSUME BufferInv, BufferStep
  PROVE  BufferInv'
<1>0. BufferTypeOK' BY BufferTypeStep DEF BufferInv
<1> DEFINE Rest == /\ AttemptInv /\ HandlerInv
                   /\ AcceptedIsBuffered /\ RowsHaveFiles /\ ReferencesHaveRows
<1> USE AttachmentsAssumption, NullsAssumption
    DEF BufferInv, BufferTypeOK, AgentTypeOK, AttemptInv, HandlerInv,
        AcceptedIsBuffered, RowsHaveFiles, ReferencesHaveRows, Buffered,
        Running, RowStatus, FileState, Goto, mtaVars, handlerVars, diskVars
<1>1. ASSUME NEW m \in Mails, NEW i \in Ids, Deliver(m, i)
     PROVE  Rest'
  BY <1>1 DEF Deliver
<1>2. ASSUME NEW m \in Mails, MtaTimeout(m)
     PROVE  Rest'
  BY <1>2 DEF MtaTimeout
<1>3. ASSUME NEW m \in Mails, MtaSeesClose(m)
     PROVE  Rest'
  BY <1>3 DEF MtaSeesClose
<1>4. ASSUME NEW i \in Ids, NEW b \in Blobs, SaveCasFile(i, b)
     PROVE  Rest'
  BY <1>4 DEF SaveCasFile
<1>5. ASSUME NEW i \in Ids, NEW b \in Blobs, TornCasWrite(i, b)
     PROVE  Rest'
  BY <1>5 DEF TornCasWrite
<1>6. ASSUME NEW i \in Ids, SelectFindsRow(i)
     PROVE  Rest'
  BY <1>6 DEF SelectFindsRow
<1>7. ASSUME NEW i \in Ids, SelectFindsNothing(i)
     PROVE  Rest'
  BY <1>7 DEF SelectFindsNothing
<1>8. ASSUME NEW i \in Ids, InsertCas(i)
     PROVE  Rest'
  BY <1>8 DEF InsertCas
<1>9. ASSUME NEW i \in Ids, InsertCasConflicts(i)
     PROVE  Rest'
  BY <1>9 DEF InsertCasConflicts
<1>10. ASSUME NEW i \in Ids, SaveEncFile(i)
     PROVE  Rest'
  BY <1>10 DEF SaveEncFile
<1>11. ASSUME NEW i \in Ids, InsertMessage(i)
     PROVE  Rest'
  BY <1>11 DEF InsertMessage
<1>12. ASSUME NEW i \in Ids, SqlFails(i)
     PROVE  Rest'
  BY <1>12 DEF SqlFails
<1>13. ASSUME NEW i \in Ids, Reply250(i)
     PROVE  Rest'
  BY <1>13 DEF Reply250
<1>14. ASSUME NEW i \in Ids, Reply451(i)
     PROVE  Rest'
  BY <1>14 DEF Reply451
<1>15. ASSUME NEW i \in Ids, HandlerCancelled(i)
     PROVE  Rest'
  BY <1>15 DEF HandlerCancelled
<1>16. ASSUME AgentCrash
     PROVE  Rest'
  BY <1>16 DEF AgentCrash
<1>17. ASSUME NEW i \in Ids, MarkSynced(i)
     PROVE  Rest'
  BY <1>17 DEF MarkSynced
<1>18. ASSUME NEW b \in Blobs, MarkCasSynced(b)
     PROVE  Rest'
  BY <1>18 DEF MarkCasSynced
<1> QED
  BY <1>0, <1>1, <1>2, <1>3, <1>4, <1>5, <1>6, <1>7, <1>8, <1>9, <1>10, <1>11,
     <1>12, <1>13, <1>14, <1>15, <1>16, <1>17, <1>18
     DEF BufferStep, AgentNext, Mta, Handler, HandlerFault

(* A step that leaves the agent and the fault budget alone. *)
LEMMA BufferInvStutter ==
  ASSUME BufferInv, UNCHANGED bufferVars
  PROVE  BufferInv'
BY DEF BufferInv, BufferTypeOK, AgentTypeOK, AttemptInv, HandlerInv,
       AcceptedIsBuffered, RowsHaveFiles, ReferencesHaveRows, Buffered,
       bufferVars, agentVars, faultVars, FaultTypeOK

(* The agent keeps BufferInv whatever the sync process does to its rows. *)
THEOREM BufferInvariant == BufferSpec => []BufferInv
<1>1. BufferInit => BufferInv BY BufferInitInv
<1>2. BufferInv /\ [BufferNext]_bufferVars => BufferInv'
  BY BufferInvStep, BufferInvStutter DEF BufferNext, BufferStep, SomeoneMarks
<1> QED BY <1>1, <1>2, PTL DEF BufferSpec

(* Type correctness of the agent. *)
THEOREM BufferTypeCorrect == BufferSpec => []BufferTypeOK
BY BufferInvariant, PTL DEF BufferInv

(* What was answered with a 250 has a committed row, for any number of     *)
(* attempts, crashes and lost replies.                                     *)
THEOREM AcceptedStaysBuffered == BufferSpec => []AcceptedIsBuffered
BY BufferInvariant, PTL DEF BufferInv

(* No row ever names a file that is not there. *)
THEOREM RowsAlwaysHaveFiles == BufferSpec => []RowsHaveFiles
BY BufferInvariant, PTL DEF BufferInv

(* No buffered skeleton refers to an attachment without a row. *)
THEOREM ReferencesAlwaysHaveRows == BufferSpec => []ReferencesHaveRows
BY BufferInvariant, PTL DEF BufferInv

(* What the agent has accepted is whole. *)
THEOREM BufferStaysWhole == BufferSpec => []BufferIsWhole
BY AcceptedStaysBuffered, RowsAlwaysHaveFiles, ReferencesAlwaysHaveRows, PTL
   DEF BufferIsWhole

-----------------------------------------------------------------------------
(* What only grows at the agent; the pipeline's proofs rest on it. *)
AgentGrows ==
  /\ \A i \in Ids : Buffered(i) => Buffered(i)' /\ mailOf'[i] = mailOf[i]
  /\ \A b \in Blobs : casRow[b] # "none" => casRow'[b] # "none"
  /\ \A b \in Blobs : casFile[b] # "absent" => casFile'[b] # "absent"
  /\ encFile \subseteq encFile'

LEMMA AgentMonotone ==
  ASSUME BufferInv, BufferStep
  PROVE  AgentGrows
BY DEF BufferInv, BufferTypeOK, AgentTypeOK, AttemptInv, HandlerInv, AgentGrows,
       Buffered, Running, RowStatus, FileState, Goto, mtaVars, handlerVars, diskVars,
       BufferStep, AgentNext, Mta, Handler, HandlerFault, Deliver, MtaTimeout,
       MtaSeesClose, SaveCasFile, TornCasWrite, SelectFindsRow, SelectFindsNothing,
       InsertCas, InsertCasConflicts, SaveEncFile, InsertMessage, SqlFails,
       Reply250, Reply451, HandlerCancelled, AgentCrash, MarkSynced, MarkCasSynced

(* The agent's own steps touch no SYNCED row: InsertMessage writes the row *)
(* of an attempt that has none, InsertCas a hash that has none.            *)
LEMMA AgentKeepsSynced ==
  ASSUME BufferInv, BufferStep
  PROVE  /\ \A b \in Blobs : casRow[b] = "SYNCED" => casRow'[b] = "SYNCED"
         /\ \A i \in Ids : msgRow[i] = "SYNCED" => msgRow'[i] = "SYNCED"
BY DEF BufferInv, BufferTypeOK, AgentTypeOK, HandlerInv, Running, RowStatus, Goto,
       diskVars, BufferStep, AgentNext, Mta, Handler, HandlerFault, Deliver,
       MtaTimeout, MtaSeesClose, SaveCasFile, TornCasWrite, SelectFindsRow,
       SelectFindsNothing, InsertCas, InsertCasConflicts, SaveEncFile,
       InsertMessage, SqlFails, Reply250, Reply451, HandlerCancelled, AgentCrash,
       MarkSynced, MarkCasSynced

(* A SYNCED row never becomes PENDING again. *)
THEOREM StatusAdvances == BufferSpec => StatusOnlyAdvances
<1>1. BufferInv /\ [BufferNext]_bufferVars =>
        [/\ \A b \in Blobs : casRow[b] = "SYNCED" => casRow'[b] = "SYNCED"
         /\ \A i \in Ids : msgRow[i] = "SYNCED" => msgRow'[i] = "SYNCED"]_bufferVars
  BY AgentKeepsSynced DEF BufferNext, BufferStep, SomeoneMarks
<1> QED BY <1>1, BufferInvariant, PTL DEF BufferSpec, StatusOnlyAdvances

-----------------------------------------------------------------------------
(* Counting copies.                                                        *)

(* A finite set that loses elements, or gains at most one. *)
LEMMA CountShrinks ==
  ASSUME NEW S, IsFiniteSet(S), NEW T, T \subseteq S
  PROVE  /\ IsFiniteSet(T) /\ Cardinality(S) \in Nat /\ Cardinality(T) \in Nat
         /\ Cardinality(T) <= Cardinality(S)
BY FS_Subset, FS_CardinalityType

LEMMA CountGrows ==
  ASSUME NEW S, IsFiniteSet(S), NEW x, NEW T, T \subseteq S \cup {x}
  PROVE  /\ IsFiniteSet(T) /\ Cardinality(S) \in Nat /\ Cardinality(T) \in Nat
         /\ Cardinality(T) <= Cardinality(S) + 1
<1>1. /\ IsFiniteSet(S \cup {x}) /\ Cardinality(S) \in Nat
      /\ Cardinality(S \cup {x}) = Cardinality(S) \/ Cardinality(S \cup {x}) = Cardinality(S) + 1
  BY FS_AddElement, FS_CardinalityType
<1>2. /\ IsFiniteSet(T) /\ Cardinality(T) \in Nat
      /\ Cardinality(T) <= Cardinality(S \cup {x})
  BY <1>1, CountShrinks
<1> QED BY <1>1, <1>2

(* The attempts that have, or may yet write, a row for m; and those of     *)
(* them that the mail server has given up or been answered for.  A mail    *)
(* gets a second copy when an attempt is given up that has a row or will   *)
(* have one: each time a connection was lost or the agent died.            *)
Live == {"walk", "select", "insert", "row", "ok"}
Copies(m) == {i \in Ids : mailOf[i] = m /\ (Buffered(i) \/ pc[i] \in Live)}
Spent(m)  == {i \in Copies(m) : attempt[m] = i => pc[i] = "done"}

CopyInv ==
  /\ \A i \in Ids : pc[i] = "fail" => ~Buffered(i)
  /\ \A m \in Mails :
       /\ m \in delivered => attempt[m] = NoId
       /\ Cardinality(Spent(m)) <= faults + (IF m \in delivered THEN 1 ELSE 0)

LEMMA CopyInitInv == BufferInit => CopyInv
<1> SUFFICES ASSUME BufferInit PROVE CopyInv
  OBVIOUS
<1>1. \A m : Spent(m) = {}
  BY DEF BufferInit, AgentInit, Spent, Copies, Buffered, Live
<1> QED BY <1>1, FS_EmptySet DEF BufferInit, AgentInit, FaultInit, CopyInv

(* How the spent attempts of a mail change in a step. *)
SpentMoves(m) ==
  \/ Spent(m)' \subseteq Spent(m) /\ faults' >= faults /\ (m \in delivered => m \in delivered')
  \/ /\ Spent(m)' \subseteq Spent(m) \cup {attempt[m]}
     /\ \/ faults' = faults + 1 /\ (m \in delivered => m \in delivered')
        \/ faults' = faults /\ m \notin delivered /\ m \in delivered'

LEMMA SpentStep ==
  ASSUME BufferInv, CopyInv, BufferStep, NEW m \in Mails
  PROVE  SpentMoves(m)
<1> USE NullsAssumption
    DEF BufferInv, BufferTypeOK, AgentTypeOK, FaultTypeOK, AttemptInv, HandlerInv, CopyInv,
        SpentMoves, Spent, Copies, Live, Buffered, Running, RowStatus, Goto, Fault, Spend,
        NoFault, faultVars, mtaVars, handlerVars, diskVars
<1>0. faults \in Nat
  BY MaxFaultsAssumption
<1>1. ASSUME NEW n \in Mails, NEW i \in Ids, Deliver(n, i) PROVE SpentMoves(m)
  BY <1>0, <1>1 DEF Deliver
<1>2. ASSUME NEW n \in Mails, MtaTimeout(n) PROVE SpentMoves(m)
  BY <1>0, <1>2 DEF MtaTimeout
<1>3. ASSUME NEW n \in Mails, MtaSeesClose(n) PROVE SpentMoves(m)
  BY <1>0, <1>3 DEF MtaSeesClose
<1>4. ASSUME NEW i \in Ids, NEW b \in Blobs, SaveCasFile(i, b) \/ TornCasWrite(i, b)
      PROVE  SpentMoves(m)
  BY <1>0, <1>4 DEF SaveCasFile, TornCasWrite
<1>5. ASSUME NEW i \in Ids, SelectFindsRow(i) \/ SelectFindsNothing(i) \/ InsertCas(i)
                            \/ InsertCasConflicts(i)
      PROVE  SpentMoves(m)
  BY <1>0, <1>5 DEF SelectFindsRow, SelectFindsNothing, InsertCas, InsertCasConflicts
<1>6. ASSUME NEW i \in Ids, SaveEncFile(i) \/ InsertMessage(i) \/ SqlFails(i)
      PROVE  SpentMoves(m)
  BY <1>0, <1>6 DEF SaveEncFile, InsertMessage, SqlFails
<1>7. ASSUME NEW i \in Ids, Reply250(i) PROVE SpentMoves(m)
  <2>1. /\ pc[i] = "ok" /\ pc' = [pc EXCEPT ![i] = "done"] /\ mailOf[i] \in Mails
        /\ UNCHANGED <<mailOf, msgRow, faults>>
    BY <1>7 DEF Reply250
  <2>2. CASE attempt[mailOf[i]] = i /\ mailOf[i] = m
    <3>0. attempt[m] = i /\ i # NoId
      BY <2>2
    <3>1. attempt[m] = i /\ m \notin delivered /\ m \in delivered'
      <4>1. m \notin delivered
        BY <3>0
      <4>2. delivered' = delivered \cup {m}
        BY <1>7, <2>2, <3>0 DEF Reply250
      <4> QED BY <3>0, <4>1, <4>2
    <3>2. Spent(m)' \subseteq Spent(m) \cup {attempt[m]}
      BY <2>1, <3>1
    <3> QED BY <2>1, <3>1, <3>2
  <2>3. CASE ~(attempt[mailOf[i]] = i /\ mailOf[i] = m)
    <3>1. attempt'[m] = attempt[m] /\ (m \in delivered => m \in delivered')
      BY <1>7, <2>1, <2>3 DEF Reply250
    <3>2. Spent(m)' \subseteq Spent(m)
      BY <2>1, <2>3, <3>1
    <3> QED BY <1>0, <2>1, <3>1, <3>2
  <2> QED BY <2>2, <2>3
<1>8. ASSUME NEW i \in Ids, Reply451(i) PROVE SpentMoves(m)
  BY <1>0, <1>8 DEF Reply451
<1>9. ASSUME NEW i \in Ids, HandlerCancelled(i) PROVE SpentMoves(m)
  BY <1>0, <1>9 DEF HandlerCancelled
<1>10. ASSUME AgentCrash PROVE SpentMoves(m)
  BY <1>0, <1>10 DEF AgentCrash
<1>11. ASSUME NEW i \in Ids, MarkSynced(i) PROVE SpentMoves(m)
  BY <1>0, <1>11 DEF MarkSynced
<1>12. ASSUME NEW b \in Blobs, MarkCasSynced(b) PROVE SpentMoves(m)
  BY <1>0, <1>12 DEF MarkCasSynced
<1> QED
  BY <1>1, <1>2, <1>3, <1>4, <1>5, <1>6, <1>7, <1>8, <1>9, <1>10, <1>11, <1>12
     DEF BufferStep, AgentNext, Mta, Handler, HandlerFault

LEMMA CopyInvStep ==
  ASSUME BufferInv, CopyInv, BufferStep
  PROVE  CopyInv'
<1>1. \A i \in Ids : pc'[i] = "fail" => ~Buffered(i)'
  BY DEF BufferInv, BufferTypeOK, AgentTypeOK, HandlerInv, CopyInv, Buffered, Running,
         RowStatus, Goto, handlerVars, diskVars, BufferStep, AgentNext, Mta, Handler,
         HandlerFault, Deliver, MtaTimeout, MtaSeesClose, SaveCasFile, TornCasWrite,
         SelectFindsRow, SelectFindsNothing, InsertCas, InsertCasConflicts, SaveEncFile,
         InsertMessage, SqlFails, Reply250, Reply451, HandlerCancelled, AgentCrash,
         MarkSynced, MarkCasSynced
<1>2. \A m \in Mails : m \in delivered' => attempt'[m] = NoId
  BY DEF BufferInv, BufferTypeOK, AgentTypeOK, CopyInv, mtaVars, BufferStep, AgentNext, Mta,
         Handler, HandlerFault, Deliver, MtaTimeout, MtaSeesClose, SaveCasFile,
         TornCasWrite, SelectFindsRow, SelectFindsNothing, InsertCas, InsertCasConflicts,
         SaveEncFile, InsertMessage, SqlFails, Reply250, Reply451, HandlerCancelled,
         AgentCrash, MarkSynced, MarkCasSynced
<1>3. ASSUME NEW m \in Mails
      PROVE  Cardinality(Spent(m)') <= faults' + (IF m \in delivered' THEN 1 ELSE 0)
  <2>1. IsFiniteSet(Spent(m)) /\ faults \in Nat /\ faults' \in Nat
    BY IdsAssumption, CountShrinks, MaxFaultsAssumption, BufferTypeStep
       DEF Spent, Copies, BufferInv, BufferTypeOK, FaultTypeOK
  <2>2. /\ Spent(m)' \subseteq Spent(m) => Cardinality(Spent(m)') <= Cardinality(Spent(m))
        /\ Spent(m)' \subseteq Spent(m) \cup {attempt[m]} =>
              Cardinality(Spent(m)') <= Cardinality(Spent(m)) + 1
        /\ Cardinality(Spent(m)) \in Nat
    BY <2>1, CountShrinks, CountGrows
  <2>3. Cardinality(Spent(m)') \in Nat
    BY <2>1, IdsAssumption, CountShrinks DEF Spent, Copies
  <2>4. /\ SpentMoves(m)
        /\ Cardinality(Spent(m)) <= faults + (IF m \in delivered THEN 1 ELSE 0)
    BY SpentStep DEF CopyInv
  <2> QED BY <2>1, <2>2, <2>3, <2>4 DEF SpentMoves
<1> QED BY <1>1, <1>2, <1>3 DEF CopyInv

LEMMA CopyInvStutter ==
  ASSUME CopyInv, UNCHANGED bufferVars
  PROVE  CopyInv'
BY DEF CopyInv, Spent, Copies, Buffered, bufferVars, agentVars, faultVars

(* Every copy beyond the first is paid for by a fault, however the         *)
(* attempts of one mail interleave and however often the server retries.   *)
THEOREM CopiesStayExplained == BufferSpec => []CopiesAreExplained
<1>1. BufferInit => CopyInv BY CopyInitInv
<1>2. BufferInv /\ CopyInv /\ [BufferNext]_bufferVars => CopyInv'
  BY CopyInvStep, CopyInvStutter DEF BufferNext, BufferStep, SomeoneMarks
<1>3. BufferInv /\ CopyInv => CopiesAreExplained
  <2> SUFFICES ASSUME BufferInv, CopyInv, NEW m \in Mails
               PROVE  Cardinality({i \in Ids : mailOf[i] = m /\ Buffered(i)}) <= 1 + faults
    BY DEF CopiesAreExplained
  <2> DEFINE Rows == {i \in Ids : mailOf[i] = m /\ Buffered(i)}
  <2>1. /\ IsFiniteSet(Spent(m)) /\ faults \in Nat
        /\ Cardinality(Spent(m)) <= faults + (IF m \in delivered THEN 1 ELSE 0)
        /\ m \in delivered => attempt[m] = NoId
    BY IdsAssumption, CountShrinks, MaxFaultsAssumption
       DEF Spent, Copies, BufferInv, BufferTypeOK, FaultTypeOK, CopyInv
  <2>2. CASE m \in delivered
    <3>1. Rows \subseteq Spent(m)
      BY <2>1, <2>2, NullsAssumption DEF Spent, Copies
    <3> QED BY <2>1, <2>2, <3>1, CountShrinks
  <2>3. CASE m \notin delivered
    <3>1. Rows \subseteq Spent(m) \cup {attempt[m]}
      BY DEF Spent, Copies
    <3> QED BY <2>1, <2>3, <3>1, CountGrows
  <2> QED BY <2>2, <2>3
<1> QED BY <1>1, <1>2, <1>3, BufferInvariant, PTL DEF BufferSpec
=============================================================================
