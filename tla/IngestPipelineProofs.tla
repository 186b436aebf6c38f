------------------------- MODULE IngestPipelineProofs -------------------------
(***************************************************************************)
(* The main theorems of the ingestion path, for any mails, attachments,    *)
(* ids, batch limits, number of handlers and faults: the path implements   *)
(* ArchivePromise, and as long as no failure at the core has been          *)
(* swallowed, no accepted mail is lost.                                    *)
(*                                                                         *)
(* PipeInv joins the invariants of the agent and of the core and adds what *)
(* the worker knows at each place of its loop.  LossInv counts the         *)
(* messages that have dropped out with a failing put, wherever they are on *)
(* the way from the handler to their row; LoopInv says what the worker has *)
(* in hand at each place.                                                  *)
(***************************************************************************)
EXTENDS IngestPipeline, SidecarBufferProofs, CoreArchiveProofs

(* What the worker knows of the core: the batch of the handler it waits    *)
(* for, and, if nothing has been swallowed, what the answers have told it. *)
WorkerInv ==
  /\ wslot # NoSlot <=> wpc = "msgWait"
  /\ wpc = "msgWait" =>
       /\ req[wslot] # "free"
       /\ rbatch[wslot] = msgBatch
  /\ toUpload \subseteq casBatch
  /\ wpc # "casUpload" => toUpload = {}
  /\ swallowed = 0 =>
       /\ wpc = "msgMark" => \A i \in msgBatch : Archived(i)
       /\ wpc = "casUpload" =>
            \A b \in casBatch : b \in toUpload \/ cas[b] # "absent"
       /\ wpc = "casMark" => \A b \in casBatch : cas[b] # "absent"

(* Everything the worker and the core handle comes from a row of the agent. *)
SourceInv ==
  /\ \A b \in casBatch : casRow[b] # "none"
  /\ \A i \in msgBatch : Buffered(i)
  /\ \A s \in Slots : \A i \in rbatch[s] \cup rtodo[s] : Buffered(i)
  /\ \A i \in stored : Buffered(i)

(* A truncated blob comes from a file of the agent that was cut short.  *)
TornInv == \A b \in Blobs : cas[b] = "partial" => casFile[b] = "partial"

PipeInv ==
  /\ BufferInv /\ ArchiveInv /\ BatchInv
  /\ WorkerTypeOK /\ WorkerInv /\ SourceInv
  /\ SyncedIsArchived /\ CasSyncedIsStored
  /\ TornInv

-----------------------------------------------------------------------------
LEMMA PipeInitInv == Init => PipeInv
<1> SUFFICES ASSUME Init PROVE PipeInv
  OBVIOUS
<1>1. BufferInv /\ ArchiveInv /\ BatchInv
  BY BufferInitInv, ArchiveInitInv DEF Init, BufferInit, ArchiveInit
<1>2. WorkerTypeOK /\ WorkerInv
  BY DEF Init, WorkerInit, WorkerTypeOK, WorkerPcs, WorkerInv
<1>3. SourceInv /\ SyncedIsArchived /\ CasSyncedIsStored /\ TornInv
  BY DEF Init, WorkerInit, AgentInit, CoreInit, SourceInv, SyncedIsArchived,
         CasSyncedIsStored, TornInv
<1> QED BY <1>1, <1>2, <1>3 DEF PipeInv

(* The agent alone never makes a row SYNCED. *)
LEMMA AgentNeverMarks ==
  ASSUME BufferInv, AgentNext
  PROVE  /\ \A i \in Ids : msgRow'[i] = "SYNCED" => msgRow[i] = "SYNCED"
         /\ \A b \in Blobs : casRow'[b] = "SYNCED" => casRow[b] = "SYNCED"
BY DEF BufferInv, BufferTypeOK, AgentTypeOK, diskVars, AgentNext, Mta, Handler,
       HandlerFault, Deliver, MtaTimeout, MtaSeesClose, SaveCasFile, TornCasWrite,
       SelectFindsRow, SelectFindsNothing, InsertCas, InsertCasConflicts,
       SaveEncFile, InsertMessage, SqlFails, Reply250, Reply451, HandlerCancelled,
       AgentCrash

(* A file that was cut short is not written again.                         *)
LEMMA AgentKeepsTorn ==
  ASSUME BufferInv, AgentNext
  PROVE  \A b \in Blobs : casFile[b] = "partial" => casFile'[b] = "partial"
BY DEF BufferInv, BufferTypeOK, AgentTypeOK, diskVars, AgentNext, Mta, Handler,
       HandlerFault, Deliver, MtaTimeout, MtaSeesClose, SaveCasFile, TornCasWrite,
       SelectFindsRow, SelectFindsNothing, InsertCas, InsertCasConflicts,
       SaveEncFile, InsertMessage, SqlFails, Reply250, Reply451, HandlerCancelled,
       AgentCrash

(* A step of the core's handlers keeps what the worker waits for, and      *)
(* handles nothing that was not posted.                                    *)
LEMMA CoreKeepsBatches ==
  ASSUME ArchiveInv, CoreNext
  PROVE  /\ rbatch' = rbatch
         /\ \A s \in Slots : req[s] # "free" => req'[s] # "free"
         /\ \A s \in Slots : rtodo'[s] \subseteq rtodo[s]
         /\ \A i \in stored' : i \in stored \/ \E s \in Slots : i \in rtodo[s]
BY DEF ArchiveInv, ArchiveTypeOK, CoreTypeOK, Busy, CoreNext, SyncHandler, SyncFault,
       PutBlob, PutBlobFails, ResolveOrg, ResolveOrgFails, IndexBatch,
       IndexBatchFails, IndexBatchRaises, CoreCrash, RemoteCasUpload, Reply, slotVars, storeVars

(* Every step spends at most one fault, swallowed or not. *)
LEMMA FaultSteps ==
  ASSUME Next
  PROVE  NoFault \/ \E k \in FaultKinds : Fault(k) \/ Swallow(k)
<1>1. CASE AgentStep
  BY <1>1 DEF AgentStep, AgentNext, Mta, Handler, HandlerFault, Deliver, MtaTimeout,
              MtaSeesClose, SaveCasFile, TornCasWrite, SelectFindsRow,
              SelectFindsNothing, InsertCas, InsertCasConflicts, SaveEncFile,
              InsertMessage, SqlFails, Reply250, Reply451, HandlerCancelled,
              AgentCrash, Fault, Spend
<1>2. CASE CoreStep
  BY <1>2 DEF CoreStep, CoreNext, SyncHandler, SyncFault, PutBlob, PutBlobFails,
              ResolveOrg, ResolveOrgFails, IndexBatch, IndexBatchFails,
              IndexBatchRaises, CoreCrash,
              RemoteCasUpload, Fault, Swallow, Spend
<1>3. CASE Worker \/ \E s \in Slots : ReplyDiscarded(s)
  BY <1>3 DEF Worker, ReadCas, ReadNoCas, CheckCas, UploadCas, MarkCas, ReadMsgs,
              ReadNoMsgs, SendBatch, GotOk, GotError, MarkMsg, MarkSynced,
              MarkCasSynced, ReplyDiscarded, StartSync, SlotDone
<1>4. CASE WorkerFault
  BY <1>4 DEF WorkerFault, CheckCasMisses, UploadCasSwallows, UploadCasStops,
              WorkerAborts, Fault, Swallow, Spend
<1> QED BY <1>1, <1>2, <1>3, <1>4 DEF Next

(* So the count of faults stays in its bounds, and what has been swallowed *)
(* stays swallowed.                                                        *)
LEMMA FaultsBounded ==
  ASSUME FaultTypeOK, Next
  PROVE  FaultTypeOK' /\ (swallowed' = 0 => swallowed = 0)
BY FaultSteps, MaxFaultsAssumption
   DEF FaultTypeOK, NoFault, faultVars, Fault, Swallow, Spend

(* A step of the agent swallows nothing: it is no failure of the core. *)
LEMMA AgentStepInv ==
  ASSUME PipeInv, AgentStep
  PROVE  PipeInv'
<1> USE DEF PipeInv, AgentStep
<1>0. FaultTypeOK' /\ (swallowed' = 0 => swallowed = 0)
  BY FaultsBounded DEF BufferInv, BufferTypeOK, Next
<1>1. BufferInv' /\ AgentGrows
  BY BufferInvStep, AgentMonotone DEF BufferStep
<1>2. ArchiveInv' /\ BatchInv'
  BY <1>0 DEF coreVars, ArchiveInv, ArchiveTypeOK, CoreTypeOK, IndexedHasBlob, BatchInv
<1>3. WorkerTypeOK' /\ WorkerInv'
  BY <1>0 DEF workerVars, coreVars, WorkerTypeOK, WorkerInv, Archived
<1>4. SourceInv'
  BY <1>1 DEF workerVars, coreVars, SourceInv, AgentGrows, WorkerTypeOK, ArchiveInv,
              ArchiveTypeOK, CoreTypeOK
<1>5. SyncedIsArchived' /\ CasSyncedIsStored'
  BY <1>0, AgentNeverMarks DEF coreVars, SyncedIsArchived, CasSyncedIsStored, Archived
<1>6. TornInv'
  BY AgentKeepsTorn DEF coreVars, TornInv
<1> QED BY <1>1, <1>2, <1>3, <1>4, <1>5, <1>6

LEMMA CoreStepInv ==
  ASSUME PipeInv, CoreStep
  PROVE  PipeInv'
<1> USE DEF PipeInv, CoreStep
<1>0. FaultTypeOK' /\ (swallowed' = 0 => swallowed = 0)
  BY FaultsBounded DEF BufferInv, BufferTypeOK, Next
<1>1. ArchiveInv' /\ BatchInv' /\ StoresGrow
  BY ArchiveInvStep, BatchInvStep, StoresMonotone DEF ArchiveStep
<1>2. BufferInv'
  BY <1>0 DEF agentVars, BufferInv, BufferTypeOK, AgentTypeOK, AttemptInv, HandlerInv,
              AcceptedIsBuffered, RowsHaveFiles, ReferencesHaveRows, Buffered
<1>3. WorkerTypeOK' /\ WorkerInv'
  BY <1>0, <1>1, CoreKeepsBatches
     DEF workerVars, WorkerTypeOK, WorkerInv, Archived, StoresGrow, BlobState
<1>4. SourceInv'
  BY CoreKeepsBatches DEF workerVars, agentVars, SourceInv, Buffered
<1>5. SyncedIsArchived' /\ CasSyncedIsStored'
  BY <1>0, <1>1 DEF agentVars, StoresGrow, SyncedIsArchived, CasSyncedIsStored, Archived
<1>6. TornInv'
  BY DEF agentVars, diskVars, TornInv, CoreNext, SyncHandler, SyncFault, PutBlob, PutBlobFails,
         ResolveOrg, ResolveOrgFails, IndexBatch, IndexBatchFails, IndexBatchRaises, CoreCrash,
         RemoteCasUpload, storeVars, ArchiveInv, ArchiveTypeOK, CoreTypeOK
<1> QED BY <1>1, <1>2, <1>3, <1>4, <1>5, <1>6

-----------------------------------------------------------------------------
(* The agent's and the core's parts, when a step leaves them alone. *)
LEMMA AgentUntouched ==
  ASSUME BufferInv, UNCHANGED agentVars, FaultTypeOK'
  PROVE  BufferInv'
BY DEF agentVars, BufferInv, BufferTypeOK, AgentTypeOK, AttemptInv, HandlerInv,
       AcceptedIsBuffered, RowsHaveFiles, ReferencesHaveRows, Buffered

LEMMA CoreUntouched ==
  ASSUME ArchiveInv, BatchInv, UNCHANGED coreVars, FaultTypeOK',
         swallowed' = 0 => swallowed = 0
  PROVE  ArchiveInv' /\ BatchInv'
BY DEF coreVars, ArchiveInv, ArchiveTypeOK, CoreTypeOK, IndexedHasBlob, BatchInv

(* Steps of the worker that only look, or forget. *)
Looks == ReadCas \/ ReadNoCas \/ CheckCas \/ CheckCasMisses
         \/ ReadMsgs \/ ReadNoMsgs \/ WorkerAborts

LEMMA LooksInv ==
  ASSUME PipeInv, Looks
  PROVE  PipeInv'
<1> USE DEF PipeInv
<1>0. FaultTypeOK' /\ (swallowed' = 0 => swallowed = 0)
  BY FaultsBounded DEF BufferInv, BufferTypeOK, Next, Worker, WorkerFault, Looks
<1>1. UNCHANGED agentVars /\ UNCHANGED coreVars
  BY DEF Looks, ReadCas, ReadNoCas, CheckCas, CheckCasMisses, AfterCheck, ReadMsgs,
         ReadNoMsgs, WorkerAborts
<1>2. BufferInv' /\ ArchiveInv' /\ BatchInv'
  BY <1>0, <1>1, AgentUntouched, CoreUntouched
<1>3. SyncedIsArchived' /\ CasSyncedIsStored' /\ TornInv'
  BY <1>0, <1>1 DEF agentVars, coreVars, SyncedIsArchived, CasSyncedIsStored, Archived,
                    diskVars, TornInv
<1>4. WorkerTypeOK' /\ WorkerInv' /\ SourceInv'
  <2> USE <1>0, <1>1, NoSlotAssumption
      DEF agentVars, coreVars, WorkerTypeOK, WorkerPcs, WorkerInv, SourceInv, Step,
          Buffered, Archived
  <2>1. CASE ReadCas BY <2>1 DEF ReadCas, Limited, PendingCas
  <2>2. CASE ReadNoCas BY <2>2 DEF ReadNoCas
  <2>3. CASE CheckCas BY <2>3 DEF CheckCas, AfterCheck
  <2>4. CASE CheckCasMisses BY <2>4 DEF CheckCasMisses, AfterCheck
  <2>5. CASE ReadMsgs BY <2>5 DEF ReadMsgs, Limited, PendingMsgs
  <2>6. CASE ReadNoMsgs BY <2>6 DEF ReadNoMsgs
  <2>7. CASE WorkerAborts BY <2>7 DEF WorkerAborts
  <2> QED BY <2>1, <2>2, <2>3, <2>4, <2>5, <2>6, <2>7 DEF Looks
<1> QED BY <1>2, <1>3, <1>4

(* The upload: complete, or cut short and forgotten.  The files are there  *)
(* because the rows are (RowsHaveFiles).                                   *)
LEMMA UploadInv ==
  ASSUME PipeInv, UploadCas \/ UploadCasSwallows \/ UploadCasStops
  PROVE  PipeInv'
<1> USE DEF PipeInv
<1>1. FaultTypeOK' /\ (swallowed' = 0 => swallowed = 0)
  BY FaultsBounded DEF BufferInv, BufferTypeOK, Next, Worker, WorkerFault
<1>2. PICK S \in SUBSET toUpload, next \in {"casMark", "casRead"} :
        /\ PostCas(S, next)
        /\ next = "casMark" => /\ casBatch' = casBatch
                               /\ S = toUpload \/ swallowed' # 0
        /\ next = "casRead" => casBatch' = {}
  BY DEF UploadCas, UploadCasSwallows, UploadCasStops, Swallow, BufferInv,
         BufferTypeOK, FaultTypeOK
<1>3. \A b \in S : b \in Blobs /\ casFile[b] # "absent"
  BY <1>2 DEF SourceInv, WorkerInv, WorkerTypeOK, BufferInv, RowsHaveFiles
<1>4. /\ cas' \in [Blobs -> BlobState]
      /\ \A b \in Blobs : cas[b] # "absent" \/ b \in S => cas'[b] # "absent"
  BY <1>2, <1>3 DEF PostCas, CasPut, ArchiveInv, ArchiveTypeOK, CoreTypeOK, BufferInv,
                    BufferTypeOK, AgentTypeOK, BlobState, FileState
<1>5. BufferInv'
  BY <1>1, <1>2, AgentUntouched DEF PostCas
<1>6. ArchiveInv' /\ BatchInv'
  BY <1>1, <1>2, <1>4 DEF PostCas, slotVars, ArchiveInv, ArchiveTypeOK, CoreTypeOK,
                          IndexedHasBlob, BatchInv
<1>7. WorkerTypeOK' /\ WorkerInv' /\ SourceInv'
  BY <1>1, <1>2, <1>4 DEF PostCas, Step, slotVars, agentVars, WorkerTypeOK, WorkerPcs,
                    WorkerInv, SourceInv, Buffered
<1>8. SyncedIsArchived' /\ CasSyncedIsStored'
  BY <1>1, <1>2, <1>4 DEF PostCas, agentVars, SyncedIsArchived, CasSyncedIsStored, Archived
<1>9. TornInv'
  BY <1>2 DEF PostCas, CasPut, agentVars, diskVars, TornInv
<1> QED BY <1>5, <1>6, <1>7, <1>8, <1>9

(* Marking: the blobs are in the bucket, the messages are archived. *)
LEMMA MarkInv ==
  ASSUME PipeInv, (\E b \in Blobs : MarkCas(b)) \/ (\E i \in Ids : MarkMsg(i))
  PROVE  PipeInv'
<1> USE DEF PipeInv
<1>1. BufferInv' /\ AgentGrows /\ UNCHANGED coreVars /\ NoFault
  BY BufferInvStep, AgentMonotone
     DEF BufferStep, MarkCas, MarkMsg, MarkCasSynced, MarkSynced
<1>2. ArchiveInv' /\ BatchInv'
  BY <1>1, CoreUntouched DEF BufferInv, BufferTypeOK, NoFault, faultVars
<1>3. WorkerTypeOK' /\ WorkerInv'
  BY <1>1 DEF MarkCas, MarkMsg, coreVars, NoFault, faultVars,
              WorkerTypeOK, WorkerPcs, WorkerInv, Archived
<1>4. SourceInv'
  BY <1>1 DEF MarkCas, MarkMsg, coreVars, SourceInv, AgentGrows, WorkerTypeOK,
              ArchiveInv, ArchiveTypeOK, CoreTypeOK
<1>5. SyncedIsArchived' /\ CasSyncedIsStored'
  BY <1>1 DEF MarkCas, MarkMsg, MarkSynced, MarkCasSynced, coreVars, NoFault,
              faultVars, WorkerInv,
              WorkerTypeOK, BufferInv, BufferTypeOK, AgentTypeOK,
              SyncedIsArchived, CasSyncedIsStored, Archived
<1>6. TornInv'
  BY <1>1 DEF MarkCas, MarkMsg, MarkSynced, MarkCasSynced, coreVars, TornInv
<1> QED BY <1>1, <1>2, <1>3, <1>4, <1>5, <1>6

(* Posting a batch and reading, or discarding, the reply. *)
LEMMA CallInv ==
  ASSUME PipeInv,
         \/ \E s \in Slots : SendBatch(s) \/ ReplyDiscarded(s)
         \/ GotOk \/ GotError
  PROVE  PipeInv'
<1> USE DEF PipeInv
<1>1. /\ UNCHANGED agentVars /\ NoFault
      /\ (\E s \in Slots, B \in SUBSET Ids : StartSync(s, B)) \/ \E s \in Slots : SlotDone(s)
  BY DEF SendBatch, ReplyDiscarded, GotOk, GotError, WorkerTypeOK, StartSync, SlotDone
<1>2. ArchiveInv' /\ BatchInv' /\ StoresGrow
  BY <1>1, ArchiveInvStep, BatchInvStep, StoresMonotone DEF ArchiveStep
<1>3. BufferInv'
  BY <1>1, <1>2, AgentUntouched DEF ArchiveInv, ArchiveTypeOK
<1>4. UNCHANGED storeVars
  BY <1>1 DEF StartSync, SlotDone
<1>5. SyncedIsArchived' /\ CasSyncedIsStored' /\ TornInv'
  BY <1>1, <1>4 DEF agentVars, diskVars, TornInv, storeVars, NoFault, faultVars, SyncedIsArchived, CasSyncedIsStored, Archived
<1>6. WorkerTypeOK' /\ WorkerInv' /\ SourceInv'
  <2> USE <1>1, <1>4, NoSlotAssumption
      DEF agentVars, storeVars, NoFault, faultVars, WorkerTypeOK, WorkerPcs, WorkerInv, SourceInv, Step,
          Buffered, Archived, ArchiveInv, ArchiveTypeOK, CoreTypeOK, Reply
  <2>1. ASSUME NEW s \in Slots, SendBatch(s) PROVE WorkerTypeOK' /\ WorkerInv' /\ SourceInv'
    BY <2>1 DEF SendBatch, StartSync
  <2>2. ASSUME NEW s \in Slots, ReplyDiscarded(s)
        PROVE  WorkerTypeOK' /\ WorkerInv' /\ SourceInv'
    BY <2>2 DEF ReplyDiscarded, SlotDone, workerVars
  <2>3. CASE GotOk
    BY <2>3 DEF GotOk, SlotDone, BatchInv, Busy, IndexedHasBlob
  <2>4. CASE GotError
    BY <2>4 DEF GotError, SlotDone
  <2> QED BY <2>1, <2>2, <2>3, <2>4
<1> QED BY <1>2, <1>3, <1>5, <1>6

LEMMA PipeInvStep ==
  ASSUME PipeInv, [Next]_vars
  PROVE  PipeInv'
<1>1. CASE Next
  BY <1>1, AgentStepInv, CoreStepInv, LooksInv, UploadInv, MarkInv, CallInv
     DEF Next, Worker, WorkerFault, Looks
<1>2. CASE UNCHANGED vars
  <2>1. UNCHANGED agentVars /\ UNCHANGED coreVars /\ UNCHANGED workerVars /\ NoFault
    BY <1>2 DEF vars, NoFault
  <2>2. BufferInv' /\ ArchiveInv' /\ BatchInv'
    BY <2>1, AgentUntouched, CoreUntouched
       DEF PipeInv, BufferInv, BufferTypeOK, NoFault, faultVars, FaultTypeOK
  <2> QED
    BY <2>1, <2>2 DEF PipeInv, agentVars, coreVars, workerVars, WorkerTypeOK, WorkerInv,
                      SourceInv, SyncedIsArchived, CasSyncedIsStored, Archived, Buffered, TornInv,
                      NoFault, faultVars
<1> QED BY <1>1, <1>2

THEOREM PipeInvariant == Spec => []PipeInv
<1>1. PipeInv /\ [Next]_vars => PipeInv' BY PipeInvStep
<1> QED BY <1>1, PipeInitInv, PTL DEF Spec

-----------------------------------------------------------------------------
(* Type correctness of the whole path. *)
THEOREM PipeTypeCorrect == Spec => []TypeOK
<1>1. PipeInv => TypeOK
  BY DEF PipeInv, BufferInv, BufferTypeOK, ArchiveInv, ArchiveTypeOK, TypeOK
<1> QED BY <1>1, PipeInvariant, PTL

(* A row the worker has marked is archived: the only thing that could      *)
(* break it is a failure the core does not report.                         *)
THEOREM SyncedIsAlwaysArchived == Spec => [](SyncedIsArchived /\ CasSyncedIsStored)
<1>1. PipeInv => SyncedIsArchived /\ CasSyncedIsStored
  BY DEF PipeInv
<1> QED BY <1>1, PipeInvariant, PTL

(* Only a swallowed failure loses an accepted mail: the row promised by    *)
(* AcceptedIsBuffered is either PENDING, and then its file is there, or    *)
(* SYNCED, and then it is archived.                                        *)
THEOREM NothingAcceptedIsLost == Spec => []OnlySwallowedIsLost
<1>1. PipeInv => OnlySwallowedIsLost
  BY DEF PipeInv, BufferInv, BufferTypeOK, AgentTypeOK, AcceptedIsBuffered, RowsHaveFiles,
         RowStatus, SyncedIsArchived, AcceptedIsNeverLost, OnlySwallowedIsLost,
         Buffered
<1> QED BY <1>1, PipeInvariant, PTL

(* Every attachment of an indexed mail is in the bucket or due for upload, *)
(* and truncated there only if it is at the agent.                         *)
THEOREM AttachmentsStayRecoverable == Spec => []AttachmentsAreRecoverable
<1>1. PipeInv => AttachmentsAreRecoverable
  <2> SUFFICES ASSUME PipeInv, swallowed = 0, NEW i \in indexed, NEW b \in Attachments[mailOf[i]]
               PROVE  KeptAsSaved(b) \/ casRow[b] = "PENDING"
    BY DEF AttachmentsAreRecoverable
  <2>1. i \in Ids /\ Buffered(i)
    BY DEF PipeInv, ArchiveInv, ArchiveTypeOK, CoreTypeOK, IndexedHasBlob, SourceInv
  <2>2. mailOf[i] \in Mails
    BY <2>1 DEF PipeInv, BufferInv, BufferTypeOK, AgentTypeOK, HandlerInv, Buffered
  <2>3. b \in Blobs /\ casRow[b] # "none"
    BY <2>1, <2>2, AttachmentsAssumption DEF PipeInv, BufferInv, ReferencesHaveRows
  <2> QED
    BY <2>3 DEF PipeInv, BufferInv, BufferTypeOK, AgentTypeOK, RowStatus, CasSyncedIsStored,
                TornInv, KeptAsSaved, ArchiveInv, ArchiveTypeOK, CoreTypeOK, BlobState
<1> QED BY <1>1, PipeInvariant, PTL

-----------------------------------------------------------------------------
(* Refinement: the path implements ArchivePromise.                         *)

held == {m \in Mails : \E i \in Ids : mailOf[i] = m /\ Buffered(i)}
archived == {m \in Mails : \E i \in Ids : mailOf[i] = m /\ Archived(i)}

(* A step of the agent holds a mail, accepts a held one, or changes        *)
(* nothing that can be seen: a fresh attempt has neither row nor blob.     *)
LEMMA AgentStepPromise ==
  ASSUME PipeInv, AgentStep
  PROVE  Promise!Next \/ UNCHANGED <<delivered, held, archived>>
<1>1. \A i \in Ids : Archived(i)' <=> Archived(i)
  BY DEF AgentStep, coreVars, Archived
<1>2. \A i \in Ids : Archived(i) => Buffered(i)
  BY DEF PipeInv, SourceInv, Archived
<1> USE DEF PipeInv, BufferInv, BufferTypeOK, AgentTypeOK, HandlerInv, Running, Goto,
            Buffered, mtaVars, handlerVars, diskVars
<1>3. ASSUME NEW m \in Mails, NEW i \in Ids, Deliver(m, i)
      PROVE  UNCHANGED <<delivered, held, archived>>
  BY <1>1, <1>2, <1>3 DEF Deliver, held, archived
<1>4. ASSUME NEW i \in Ids, InsertMessage(i)
      PROVE  \E m \in Mails : Promise!Hold(m)
  <2>1. PICK m \in Mails : m = mailOf[i]
    BY <1>4 DEF InsertMessage
  <2>2. Promise!Hold(m)
    BY <1>1, <1>4, <2>1 DEF InsertMessage, Promise!Hold, held, archived
  <2> QED BY <2>2
<1>5. ASSUME NEW i \in Ids, Reply250(i)
      PROVE  (\E m \in Mails : Promise!Accept(m)) \/ UNCHANGED <<delivered, held, archived>>
  <2>1. PICK m \in Mails : m = mailOf[i]
    BY <1>5 DEF Reply250
  <2>2. CASE attempt[m] = i
    <3>1. Promise!Accept(m)
      BY <1>1, <1>5, <2>1, <2>2 DEF Reply250, Promise!Accept, held, archived
    <3> QED BY <3>1
  <2>3. CASE attempt[m] # i
    BY <1>1, <1>5, <2>1, <2>3 DEF Reply250, held, archived
  <2> QED BY <2>2, <2>3
<1>6. AgentNext =>
        \/ \E m \in Mails, i \in Ids : Deliver(m, i)
        \/ \E i \in Ids : InsertMessage(i) \/ Reply250(i)
        \/ UNCHANGED <<delivered, mailOf, msgRow>>
  BY DEF AgentNext, Mta, Handler, HandlerFault, MtaTimeout, MtaSeesClose, SaveCasFile,
         TornCasWrite, SelectFindsRow, SelectFindsNothing, InsertCas,
         InsertCasConflicts, SaveEncFile, SqlFails, Reply451, HandlerCancelled,
         AgentCrash
<1>7. UNCHANGED <<delivered, mailOf, msgRow>> => UNCHANGED <<delivered, held, archived>>
  BY <1>1 DEF held, archived
<1> QED
  BY <1>3, <1>4, <1>5, <1>6, <1>7 DEF AgentStep, Promise!Next

(* Every other step leaves the agent's part alone but for marking rows,    *)
(* and can only add to the archive.                                        *)
LEMMA OtherStepPromise ==
  ASSUME PipeInv, PipeInv', Next, ~ AgentStep
  PROVE  Promise!Next
<1>1. /\ UNCHANGED <<delivered, mailOf>>
      /\ \A i \in Ids : Buffered(i)' <=> Buffered(i)
  BY DEF Next, CoreStep, Worker, WorkerFault, ReadCas, ReadNoCas, CheckCas,
         CheckCasMisses, AfterCheck, UploadCas, UploadCasSwallows, UploadCasStops,
         PostCas, MarkCas, ReadMsgs, ReadNoMsgs, SendBatch, GotOk, GotError, MarkMsg,
         MarkSynced, MarkCasSynced, WorkerAborts, ReplyDiscarded, agentVars, mtaVars,
         handlerVars, Buffered, PipeInv, BufferInv, BufferTypeOK, AgentTypeOK
<1>2. stored \subseteq stored' /\ indexed \subseteq indexed'
  BY DEF Next, CoreStep, CoreNext, SyncHandler, SyncFault, PutBlob, PutBlobFails,
         ResolveOrg, ResolveOrgFails, IndexBatch, IndexBatchFails, IndexBatchRaises, CoreCrash,
         RemoteCasUpload, StartSync, SlotDone, storeVars, coreVars, Worker,
         WorkerFault, ReadCas, ReadNoCas, CheckCas, CheckCasMisses, AfterCheck,
         UploadCas, UploadCasSwallows, UploadCasStops, PostCas, MarkCas, ReadMsgs,
         ReadNoMsgs, SendBatch, GotOk, GotError, MarkMsg, WorkerAborts, ReplyDiscarded
<1>3. held' = held
  BY <1>1 DEF held
<1>4. archived' = archived \cup archived'
  BY <1>1, <1>2 DEF archived, Archived
<1>5. PICK S \in SUBSET Mails : S = archived'
  BY DEF archived
<1>6. S \subseteq held
  BY <1>1, <1>5 DEF PipeInv, SourceInv, Archived, archived, held
<1>7. Promise!Archive(S)
  BY <1>1, <1>3, <1>4, <1>5, <1>6 DEF Promise!Archive, held, archived
<1> QED BY <1>7 DEF Promise!Next

(* Under every fault and overlap of handlers no document is indexed        *)
(* without its blob, and a 200 is honest until a failure is swallowed.     *)
THEOREM ArchiveStaysSound == Spec => []ArchiveIsSound
<1>1. ArchiveInv /\ BatchInv => ArchiveIsSound
  BY DEF ArchiveInv, BatchInv, ArchiveIsSound, OkMeansArchived, Archived, ArchiveTypeOK,
         CoreTypeOK
<1> QED BY <1>1, PipeInvariant, PTL DEF PipeInv

(* A hash is only marked SYNCED when its blob is in the bucket. *)
THEOREM CasSyncedIsAlwaysStored == Spec => []CasSyncedIsStored
BY PipeInvariant, PTL DEF PipeInv

(* The whole path - agent, worker, core and every fault -         *)
(* implements the promise made to the mail server.                         *)
THEOREM PathImplementsPromise == Spec => ImplementsPromise
<1>1. Init => Promise!Init
  BY DEF Init, AgentInit, CoreInit, Promise!Init, Buffered, Archived
<1>2. PipeInv /\ PipeInv' /\ [Next]_vars
        => [Promise!Next]_<<delivered, held, archived>>
  <2> SUFFICES ASSUME PipeInv, PipeInv', [Next]_vars
               PROVE  Promise!Next \/ UNCHANGED <<delivered, held, archived>>
    OBVIOUS
  <2>1. CASE AgentStep BY <2>1, AgentStepPromise
  <2>2. CASE Next /\ ~ AgentStep BY <2>2, OtherStepPromise
  <2>3. CASE UNCHANGED vars
    BY <2>3 DEF vars, agentVars, coreVars, held, archived, Buffered, Archived
  <2> QED BY <2>1, <2>2, <2>3 DEF Next
<1>3. PipeInv /\ PipeInv' /\ [Next]_vars
        => [Promise!Next]_<<delivered,
              {m \in Mails : \E i \in Ids : mailOf[i] = m /\ Buffered(i)},
              {m \in Mails : \E i \in Ids : mailOf[i] = m /\ Archived(i)}>>
  BY <1>2 DEF held, archived
<1> QED BY <1>1, <1>3, PipeInvariant, PTL DEF Spec, ImplementsPromise, Promise!Spec

-----------------------------------------------------------------------------
(* Counting what swallowed puts lose.                                      *)

(* The messages without a blob that are SYNCED, are about to be, or have   *)
(* been passed over by some handler: on the way from the failing put to    *)
(* the row, a message can be in any of these places, and in several.       *)
Dropped ==
  {i \in Ids : /\ i \notin stored
               /\ \/ msgRow[i] = "SYNCED"
                  \/ wpc = "msgMark" /\ i \in msgBatch
                  \/ \E s \in Slots : i \in rbatch[s] \ rtodo[s]}

LossInv == ItemsInv /\ Cardinality(Dropped) <= swallowed

DroppedMoves ==
  \/ Dropped' \subseteq Dropped /\ swallowed' >= swallowed
  \/ \E i \in Ids : Dropped' \subseteq Dropped \cup {i} /\ swallowed' = swallowed + 1

(* Each step of the path keeps every handler within its batch. *)
LEMMA ItemsKept ==
  ASSUME PipeInv, ItemsInv, [Next]_vars
  PROVE  ItemsInv'
<1> USE DEF PipeInv
<1>1. CASE CoreStep
  BY <1>1, ItemsInvStep DEF CoreStep, ArchiveStep
<1>2. CASE \/ \E s \in Slots : SendBatch(s) \/ ReplyDiscarded(s)
           \/ GotOk \/ GotError
  <2>1. (\E s \in Slots, B \in SUBSET Ids : StartSync(s, B)) \/ \E s \in Slots : SlotDone(s)
    BY <1>2 DEF SendBatch, ReplyDiscarded, GotOk, GotError, WorkerTypeOK
  <2> QED BY <2>1, ItemsInvStep DEF ArchiveStep
<1>3. CASE \/ AgentStep \/ Looks \/ UploadCas \/ UploadCasSwallows \/ UploadCasStops
           \/ \E b \in Blobs : MarkCas(b)
           \/ \E i \in Ids : MarkMsg(i)
           \/ UNCHANGED vars
  <2>1. UNCHANGED slotVars
    BY <1>3 DEF AgentStep, Looks, ReadCas, ReadNoCas, CheckCas, CheckCasMisses, AfterCheck,
                ReadMsgs, ReadNoMsgs, WorkerAborts, UploadCas, UploadCasSwallows,
                UploadCasStops, PostCas, MarkCas, MarkMsg, coreVars, slotVars, vars
  <2> QED BY <2>1 DEF slotVars, ItemsInv
<1> QED BY <1>1, <1>2, <1>3 DEF Next, Worker, WorkerFault, Looks

(* Only a put that fails lets a message drop out: the other steps pass on  *)
(* what was dropped before, from the handler's slot to the worker's list   *)
(* and from there to the row.                                              *)
LEMMA DroppedStep ==
  ASSUME PipeInv, ItemsInv, [Next]_vars
  PROVE  DroppedMoves
<1> USE DEF PipeInv, Dropped
<1>0. /\ swallowed \in Nat
      /\ swallowed' >= swallowed
  <2>1. swallowed \in Nat
    BY MaxFaultsAssumption DEF BufferInv, BufferTypeOK, FaultTypeOK
  <2> QED BY <2>1, FaultSteps DEF vars, NoFault, faultVars, Fault, Swallow
<1>1. CASE AgentStep
  <2>1. Dropped' \subseteq Dropped
    BY <1>1, AgentNeverMarks DEF AgentStep, coreVars, workerVars
  <2> QED BY <1>0, <2>1 DEF DroppedMoves
<1>2. CASE CoreStep
  <2>0. UNCHANGED <<msgRow, wpc, msgBatch, rbatch>> /\ stored \subseteq stored'
    BY <1>2, CoreKeepsBatches, StoresMonotone
       DEF CoreStep, agentVars, workerVars, ArchiveStep, StoresGrow
  <2>1. ASSUME NEW s \in Slots, NEW i \in Ids, PutBlobFails(s, i)
        PROVE  DroppedMoves
    <3>1. Dropped' \subseteq Dropped \cup {i}
      BY <2>0, <2>1 DEF PutBlobFails, ArchiveInv, ArchiveTypeOK, CoreTypeOK
    <3>2. swallowed' = swallowed + 1
      BY <2>1 DEF PutBlobFails, Swallow
    <3> QED BY <3>1, <3>2 DEF DroppedMoves
  <2>2. ASSUME NEW s \in Slots, ResolveOrg(s)
        PROVE  DroppedMoves
    <3>1. rcur[s] \in stored'
      BY <2>0, <2>2 DEF ResolveOrg, Reply, ArchiveInv
    <3>2. Dropped' \subseteq Dropped
      BY <2>0, <2>2, <3>1 DEF ResolveOrg, ArchiveInv, ArchiveTypeOK, CoreTypeOK
    <3> QED BY <1>0, <3>2 DEF DroppedMoves
  <2>4. ASSUME NEW s \in Slots, ResolveOrgFails(s)
        PROVE  DroppedMoves
    <3>1. rcur[s] \in stored'
      BY <2>0, <2>4 DEF ResolveOrgFails, Reply, ArchiveInv
    <3>2. Dropped' \subseteq Dropped
      BY <2>0, <2>4, <3>1 DEF ResolveOrgFails, ArchiveInv, ArchiveTypeOK, CoreTypeOK
    <3> QED BY <1>0, <3>2 DEF DroppedMoves
  <2>3. CASE UNCHANGED rtodo
    <3>1. Dropped' \subseteq Dropped
      BY <2>0, <2>3
    <3> QED BY <1>0, <3>1 DEF DroppedMoves
  <2> QED
    BY <1>2, <2>1, <2>2, <2>3, <2>4
       DEF CoreStep, CoreNext, SyncHandler, SyncFault, PutBlob, IndexBatch, IndexBatchFails,
           IndexBatchRaises, CoreCrash, RemoteCasUpload, slotVars
<1>3. CASE Looks \/ UploadCas \/ UploadCasSwallows \/ UploadCasStops \/ UNCHANGED vars
           \/ (\E b \in Blobs : MarkCas(b)) \/ GotError
           \/ \E s \in Slots : ReplyDiscarded(s)
  <2>1. /\ UNCHANGED <<msgRow, rbatch, rtodo, stored>>
        /\ wpc' # "msgMark" \/ UNCHANGED <<wpc, msgBatch>>
    BY <1>3 DEF Looks, ReadCas, ReadNoCas, CheckCas, CheckCasMisses, AfterCheck, ReadMsgs,
                ReadNoMsgs, WorkerAborts, UploadCas, UploadCasSwallows, UploadCasStops,
                PostCas, MarkCas, MarkCasSynced, GotError, ReplyDiscarded, SlotDone, Step,
                slotVars, storeVars, agentVars, coreVars, workerVars, vars
  <2>2. Dropped' \subseteq Dropped
    BY <2>1
  <2> QED BY <1>0, <2>2 DEF DroppedMoves
<1>4. ASSUME NEW s \in Slots, SendBatch(s)
      PROVE  DroppedMoves
  <2>1. /\ UNCHANGED <<msgRow, stored>> /\ wpc' = "msgWait"
        /\ \A t \in Slots : t # s => rbatch'[t] = rbatch[t] /\ rtodo'[t] = rtodo[t]
        /\ rbatch'[s] = rtodo'[s]
    BY <1>4 DEF SendBatch, StartSync, Step, agentVars, storeVars, ArchiveInv, ArchiveTypeOK,
                CoreTypeOK
  <2>2. Dropped' \subseteq Dropped
    BY <2>1
  <2> QED BY <1>0, <2>2 DEF DroppedMoves
<1>5. CASE GotOk
  <2>1. /\ UNCHANGED <<msgRow, stored, rbatch, rtodo, msgBatch>>
        /\ wslot \in Slots /\ rbatch[wslot] = msgBatch /\ rtodo[wslot] = {}
    BY <1>5 DEF GotOk, SlotDone, Step, agentVars, storeVars, WorkerTypeOK, WorkerInv, ItemsInv
  <2>2. Dropped' \subseteq Dropped
    BY <2>1
  <2> QED BY <1>0, <2>2 DEF DroppedMoves
<1>6. ASSUME NEW i \in Ids, MarkMsg(i)
      PROVE  DroppedMoves
  <2>1. /\ UNCHANGED <<stored, rbatch, rtodo>> /\ wpc = "msgMark" /\ i \in msgBatch
        /\ msgBatch' \subseteq msgBatch
        /\ \A j \in Ids : msgRow'[j] = "SYNCED" => j = i \/ msgRow[j] = "SYNCED"
    BY <1>6 DEF MarkMsg, MarkSynced, coreVars, BufferInv, BufferTypeOK, AgentTypeOK
  <2>2. Dropped' \subseteq Dropped
    BY <2>1
  <2> QED BY <1>0, <2>2 DEF DroppedMoves
<1> QED
  BY <1>1, <1>2, <1>3, <1>4, <1>5, <1>6 DEF Next, Worker, WorkerFault, Looks

LEMMA LossInvStep ==
  ASSUME PipeInv, LossInv, [Next]_vars
  PROVE  LossInv'
<1>1. ItemsInv'
  BY ItemsKept DEF LossInv
<1>2. /\ IsFiniteSet(Dropped) /\ IsFiniteSet(Dropped')
      /\ Cardinality(Dropped) \in Nat /\ Cardinality(Dropped') \in Nat
  BY IdsAssumption, CountShrinks DEF Dropped
<1>3. /\ swallowed \in Nat /\ swallowed' \in Nat
      /\ Cardinality(Dropped) <= swallowed
  BY PipeInvStep, MaxFaultsAssumption
     DEF PipeInv, BufferInv, BufferTypeOK, FaultTypeOK, LossInv
<1>4. CASE Dropped' \subseteq Dropped /\ swallowed' >= swallowed
  <2>1. Cardinality(Dropped') <= Cardinality(Dropped)
    BY <1>2, <1>4, CountShrinks
  <2> QED BY <1>1, <1>2, <1>3, <1>4, <2>1 DEF LossInv
<1>5. CASE \E i \in Ids : Dropped' \subseteq Dropped \cup {i} /\ swallowed' = swallowed + 1
  <2>1. Cardinality(Dropped') <= Cardinality(Dropped) + 1
    BY <1>2, <1>5, CountGrows
  <2> QED BY <1>1, <1>2, <1>3, <1>5, <2>1 DEF LossInv
<1> QED BY <1>4, <1>5, DroppedStep DEF DroppedMoves, LossInv

LEMMA LossInvariant == Spec => []LossInv
<1>1. Init => LossInv
  <2> SUFFICES ASSUME Init PROVE LossInv
    OBVIOUS
  <2>1. ItemsInv
    BY ArchiveInitInv DEF Init, ArchiveInit
  <2>2. Dropped = {}
    BY DEF Init, AgentInit, CoreInit, WorkerInit, Dropped
  <2> QED BY <2>1, <2>2, FS_EmptySet DEF Init, FaultInit, LossInv
<1>2. PipeInv /\ LossInv /\ [Next]_vars => LossInv'
  BY LossInvStep
<1> QED BY <1>1, <1>2, PipeInvariant, PTL DEF Spec

(* A failing put costs the blob of one message: however the batches of     *)
(* late handlers overlap, no more messages are SYNCED without their blobs  *)
(* than puts have failed unreported.                                       *)
THEOREM LossStaysCounted == Spec => []LossIsCounted
<1>1. LossInv /\ PipeInv => LossIsCounted
  <2> SUFFICES ASSUME LossInv, PipeInv PROVE LossIsCounted
    OBVIOUS
  <2> DEFINE Lost == {i \in Ids : msgRow[i] = "SYNCED" /\ i \notin stored}
  <2>1. Lost \subseteq Dropped
    BY DEF Dropped
  <2>2. /\ Cardinality(Lost) <= Cardinality(Dropped)
        /\ Cardinality(Lost) \in Nat /\ Cardinality(Dropped) \in Nat
    BY <2>1, IdsAssumption, CountShrinks DEF Dropped
  <2>3. Cardinality(Dropped) <= swallowed /\ swallowed \in Nat
    BY MaxFaultsAssumption DEF LossInv, PipeInv, BufferInv, BufferTypeOK, FaultTypeOK
  <2> QED BY <2>2, <2>3 DEF LossIsCounted
<1> QED BY <1>1, LossInvariant, PipeInvariant, PTL

(* "processed" is honest in the whole path, too: the worker could rely on  *)
(* it if it read it.                                                       *)
THEOREM FullCountStaysHonest == Spec => []FullCountMeansStored
<1>1. PipeInv /\ LossInv => FullCountMeansStored
  BY FullCountFollows DEF PipeInv, LossInv
<1> QED BY <1>1, LossInvariant, PipeInvariant, PTL

-----------------------------------------------------------------------------
(* Nobody waits for what cannot come: the worker only marks, sends and     *)
(* waits with a batch in hand, and an item that a handler has in hand is   *)
(* still among those to do, so that each turn of its loop leaves fewer.    *)
LoopInv ==
  /\ wpc \in {"casCheck", "casUpload", "casMark"} => casBatch # {}
  /\ wpc \in {"msgSend", "msgWait", "msgMark"} => msgBatch # {}
  /\ \A s \in Slots : req[s] = "resolve" => rcur[s] \in rtodo[s]

NobodyWaitsInVain ==
  /\ wpc = "casMark" => \E b \in Blobs : b \in casBatch /\ casRow[b] # "none"
  /\ wpc = "msgMark" => \E i \in Ids : i \in msgBatch /\ msgRow[i] # "none"
  /\ wpc = "msgSend" => msgBatch # {} /\ msgBatch \subseteq encFile
  /\ wpc = "msgWait" => req[wslot] \in Busy \cup {"ok", "error"}
  /\ \A s \in Slots : req[s] = "resolve" => rcur[s] \in rtodo[s]

LEMMA HandlersProgress ==
  ASSUME PipeInv, [Next]_vars, \A s \in Slots : req[s] = "resolve" => rcur[s] \in rtodo[s]
  PROVE  \A s \in Slots : req'[s] = "resolve" => rcur'[s] \in rtodo'[s]
<1> USE DEF PipeInv, ArchiveInv, ArchiveTypeOK, CoreTypeOK
<1>1. CASE UNCHANGED <<req, rcur, rtodo>>
  BY <1>1
<1>2. ASSUME NEW s \in Slots, SyncHandler(s) \/ SyncFault(s)
      PROVE  \A z \in Slots : req'[z] = "resolve" => rcur'[z] \in rtodo'[z]
  BY <1>2 DEF SyncHandler, SyncFault, PutBlob, ResolveOrg, ResolveOrgFails, IndexBatch, PutBlobFails,
              IndexBatchFails, IndexBatchRaises, Reply
<1>3. CASE CoreCrash
  BY <1>3 DEF CoreCrash, Busy
<1>4. ASSUME NEW s \in Slots, NEW B \in SUBSET Ids, StartSync(s, B)
      PROVE  \A z \in Slots : req'[z] = "resolve" => rcur'[z] \in rtodo'[z]
  BY <1>4 DEF StartSync, Reply
<1>5. ASSUME NEW s \in Slots, SlotDone(s)
      PROVE  \A z \in Slots : req'[z] = "resolve" => rcur'[z] \in rtodo'[z]
  BY <1>5 DEF SlotDone
<1>6. \/ UNCHANGED <<req, rcur, rtodo>>
      \/ \E s \in Slots : SyncHandler(s) \/ SyncFault(s)
      \/ CoreCrash
      \/ \E s \in Slots, B \in SUBSET Ids : StartSync(s, B)
      \/ \E s \in Slots : SlotDone(s)
  <2>1. CASE UNCHANGED vars
    BY <2>1 DEF vars, coreVars, slotVars
  <2>2. CASE AgentStep
    BY <2>2 DEF AgentStep, coreVars, slotVars
  <2>3. CASE CoreStep
    BY <2>3 DEF CoreStep, CoreNext, RemoteCasUpload, slotVars
  <2>4. CASE Looks \/ UploadCas \/ UploadCasSwallows \/ UploadCasStops
             \/ (\E b \in Blobs : MarkCas(b)) \/ (\E i \in Ids : MarkMsg(i))
    BY <2>4 DEF Looks, ReadCas, ReadNoCas, CheckCas, CheckCasMisses, AfterCheck, ReadMsgs,
         ReadNoMsgs, WorkerAborts, UploadCas, UploadCasSwallows, UploadCasStops, PostCas,
         MarkCas, MarkMsg, coreVars, slotVars
  <2>5. CASE (\E s \in Slots : SendBatch(s) \/ ReplyDiscarded(s)) \/ GotOk \/ GotError
    BY <2>5 DEF SendBatch, ReplyDiscarded, GotOk, GotError, WorkerTypeOK
  <2> QED BY <2>1, <2>2, <2>3, <2>4, <2>5 DEF Next, Worker, WorkerFault, Looks
<1> QED BY <1>1, <1>2, <1>3, <1>4, <1>5, <1>6

LEMMA NonEmptyPage ==
  ASSUME NEW rows, rows # {}, NEW n \in Nat \ {0}, NEW R \in Limited(rows, n)
  PROVE  R # {}
BY FS_EmptySet DEF Limited

LEMMA LoopInvStep ==
  ASSUME PipeInv, LoopInv, [Next]_vars
  PROVE  LoopInv'
<1> USE DEF LoopInv
<1>1. \A s \in Slots : req'[s] = "resolve" => rcur'[s] \in rtodo'[s]
  BY HandlersProgress
<1>2. CASE UNCHANGED workerVars
  BY <1>1, <1>2 DEF workerVars
<1>3. CASE Looks
  <2> USE <1>1, LimitsAssumption, NonEmptyPage DEF Step
  <2>1. CASE ReadCas BY <2>1 DEF ReadCas
  <2>2. CASE ReadNoCas BY <2>2 DEF ReadNoCas
  <2>3. CASE CheckCas BY <2>3 DEF CheckCas, AfterCheck
  <2>4. CASE CheckCasMisses BY <2>4 DEF CheckCasMisses, AfterCheck
  <2>5. CASE ReadMsgs BY <2>5 DEF ReadMsgs
  <2>6. CASE ReadNoMsgs BY <2>6 DEF ReadNoMsgs
  <2>7. CASE WorkerAborts BY <2>7 DEF WorkerAborts
  <2> QED BY <1>3, <2>1, <2>2, <2>3, <2>4, <2>5, <2>6, <2>7 DEF Looks
<1>4. CASE UploadCas \/ UploadCasSwallows \/ UploadCasStops
  BY <1>1, <1>4 DEF UploadCas, UploadCasSwallows, UploadCasStops, PostCas, Step
<1>5. CASE (\E b \in Blobs : MarkCas(b)) \/ (\E i \in Ids : MarkMsg(i))
  BY <1>1, <1>5 DEF MarkCas, MarkMsg
<1>6. CASE (\E s \in Slots : SendBatch(s)) \/ GotOk \/ GotError
  BY <1>1, <1>6 DEF SendBatch, GotOk, GotError, Step
<1> QED
  BY <1>2, <1>3, <1>4, <1>5, <1>6
     DEF vars, Next, AgentStep, CoreStep, Worker, WorkerFault, ReplyDiscarded, Looks

(* The loop of sync.py never stands where it cannot go on: it marks only   *)
(* rows that exist, every file it is to post is there, and the handler it  *)
(* waits for is at work or has answered, whatever crashes, is lost or      *)
(* overlaps; and no handler takes an item twice.  What is left of          *)
(* EventuallyArchived and EveryBatchIsAnswered is that what can go on does *)
(* (sync.py 31-116, main.py 137-304).                                      *)
THEOREM TheLoopNeverSticks == Spec => []NobodyWaitsInVain
<1>1. Init => LoopInv
  BY DEF Init, WorkerInit, CoreInit, LoopInv
<1>2. PipeInv /\ LoopInv => NobodyWaitsInVain
  BY DEF PipeInv, LoopInv, NobodyWaitsInVain, WorkerInv, WorkerTypeOK, SourceInv, Buffered,
         BufferInv, RowsHaveFiles, ArchiveInv, ArchiveTypeOK, CoreTypeOK, Busy
<1> QED BY <1>1, <1>2, LoopInvStep, PipeInvariant, PTL DEF Spec
=============================================================================
