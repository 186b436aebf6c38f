---------------------------- MODULE IngestPipeline ----------------------------
(***************************************************************************)
(* The path of a mail from the mail server to the archive: the agent       *)
(* (SidecarBuffer), the sync worker sidecar/sync.py, and the core          *)
(* (CoreArchive).  The agent and the worker are two processes that share   *)
(* buffer.db and the files; the worker talks to the core over HTTP.        *)
(*                                                                         *)
(* The worker is one sequential loop.  An exception, a non-200 answer, a   *)
(* timeout or a crash of the worker all lead back to the top of the loop   *)
(* with nothing remembered; a sync_messages handler it had called then     *)
(* runs on in its slot with nobody waiting for the reply.                  *)
(***************************************************************************)
EXTENDS SidecarBuffer, CoreArchive

CONSTANTS
  CasLimit,   \* get_pending_cas(limit=20)
  MsgLimit,   \* get_pending_messages(limit=50)
  NoSlot

ASSUME LimitsAssumption == CasLimit \in Nat \ {0} /\ MsgLimit \in Nat \ {0}
ASSUME NoSlotAssumption == NoSlot \notin Slots

VARIABLES
  wpc,        \* where sync_loop stands
  casBatch,   \* pending_cas; in casMark, the rows still to be marked
  toUpload,   \* to_upload
  msgBatch,   \* pending; in msgMark, the items still to be marked
  wslot       \* the handler whose reply the worker awaits, or NoSlot

workerVars == <<wpc, casBatch, toUpload, msgBatch, wslot>>
vars == <<faultVars, agentVars, coreVars, workerVars>>

WorkerPcs == {"casRead", "casCheck", "casUpload", "casMark",
              "msgRead", "msgSend", "msgWait", "msgMark"}

WorkerTypeOK ==
  /\ wpc \in WorkerPcs
  /\ casBatch \subseteq Blobs
  /\ toUpload \subseteq Blobs
  /\ msgBatch \subseteq Ids
  /\ wslot \in Slots \cup {NoSlot}

WorkerInit ==
  /\ wpc = "casRead" /\ casBatch = {} /\ toUpload = {}
  /\ msgBatch = {} /\ wslot = NoSlot

Step(from, to) == wpc = from /\ wpc' = to

PendingCas == {b \in Blobs : casRow[b] = "PENDING"}
PendingMsgs == {i \in Ids : msgRow[i] = "PENDING"}

(* What SELECT ... LIMIT n without ORDER BY may return. *)
Limited(rows, n) ==
  {R \in SUBSET rows : Cardinality(R) = n \/ (R = rows /\ Cardinality(R) < n)}

-----------------------------------------------------------------------------
(* Phase 1: attachments.                                                   *)

ReadCas ==
  /\ PendingCas # {}
  /\ Step("casRead", "casCheck")
  /\ casBatch' \in Limited(PendingCas, CasLimit)
  /\ NoFault /\ UNCHANGED <<toUpload, msgBatch, wslot>>
  /\ UNCHANGED agentVars /\ UNCHANGED coreVars

ReadNoCas ==
  /\ PendingCas = {}
  /\ Step("casRead", "msgRead")
  /\ NoFault /\ UNCHANGED <<casBatch, toUpload, msgBatch, wslot>>
  /\ UNCHANGED agentVars /\ UNCHANGED coreVars

AfterCheck(missing) ==
  /\ Step("casCheck", IF missing = {} THEN "casMark" ELSE "casUpload")
  /\ toUpload' = missing
  /\ UNCHANGED <<casBatch, msgBatch, wslot>>
  /\ UNCHANGED agentVars /\ UNCHANGED coreVars

(* Mutant: the blobs that exist are uploaded. *)
CheckCasInverted == AfterCheck({b \in casBatch : cas[b] # "absent"}) /\ NoFault

CheckCas == AfterCheck({b \in casBatch : cas[b] = "absent"}) /\ NoFault

(* head_object answers with an error: blob_exists says False for a blob   *)
(* that is there (storage.py:73-74).                                      *)
CheckCasMisses ==
  /\ \E seen \in SUBSET {b \in casBatch : cas[b] # "absent"} :
       seen # {} /\ AfterCheck({b \in casBatch : cas[b] = "absent"} \cup seen)
  /\ Fault("head")

(* The files are read and posted (lines 52-67).  The number of blobs saved *)
(* comes back in the reply and is not looked at.                           *)
PostCas(S, next) ==
  /\ Step("casUpload", next)
  /\ CasPut(S, casFile)
  /\ toUpload' = {}
  /\ UNCHANGED <<msgBatch, wslot, stored, indexed>>
  /\ UNCHANGED slotVars /\ UNCHANGED agentVars

(* Mutant: no row is found in to_upload, nothing is posted. *)
UploadCasNothing == PostCas({}, "casMark") /\ NoFault /\ UNCHANGED casBatch

UploadCas == PostCas(toUpload, "casMark") /\ NoFault /\ UNCHANGED casBatch

(* Some put fails inside upload_blob: the reply is 200 all the same. *)
UploadCasSwallows ==
  /\ \E S \in SUBSET toUpload : S # toUpload /\ PostCas(S, "casMark")
  /\ Swallow("put") /\ UNCHANGED casBatch

(* Mutant: the status of the upload is not looked at. *)
UploadCasStopsUnseen ==
  /\ \E S \in SUBSET toUpload : PostCas(S, "casMark")
  /\ Fault("core") /\ UNCHANGED casBatch

(* ensure_bucket raises or the core dies part of the way: a 500 or no     *)
(* reply.                                                                  *)
UploadCasStops ==
  /\ \E S \in SUBSET toUpload : PostCas(S, "casRead")
  /\ Fault("core") /\ casBatch' = {}

MarkCas(b) ==
  /\ wpc = "casMark" /\ b \in casBatch
  /\ MarkCasSynced(b)
  /\ casBatch' = casBatch \ {b}
  /\ wpc' = IF casBatch = {b} THEN "msgRead" ELSE "casMark"
  /\ UNCHANGED <<toUpload, msgBatch, wslot>> /\ UNCHANGED coreVars

-----------------------------------------------------------------------------
(* Phase 2: messages.                                                      *)

ReadMsgs ==
  /\ PendingMsgs # {}
  /\ Step("msgRead", "msgSend")
  /\ msgBatch' \in Limited(PendingMsgs, MsgLimit)
  /\ NoFault /\ UNCHANGED <<casBatch, toUpload, wslot>>
  /\ UNCHANGED agentVars /\ UNCHANGED coreVars

ReadNoMsgs ==
  /\ PendingMsgs = {}
  /\ Step("msgRead", "casRead")
  /\ NoFault /\ UNCHANGED <<casBatch, toUpload, msgBatch, wslot>>
  /\ UNCHANGED agentVars /\ UNCHANGED coreVars

(* Lines 84-103: the files of the batch (RowsHaveFiles) are posted. *)
SendBatch(s) ==
  /\ msgBatch \subseteq encFile
  /\ Step("msgSend", "msgWait")
  /\ wslot' = s
  /\ StartSync(s, msgBatch)
  /\ UNCHANGED <<casBatch, toUpload, msgBatch>> /\ UNCHANGED agentVars

GotOk ==
  /\ wslot # NoSlot /\ req[wslot] = "ok"
  /\ Step("msgWait", "msgMark")
  /\ SlotDone(wslot)
  /\ wslot' = NoSlot
  /\ UNCHANGED <<casBatch, toUpload, msgBatch>> /\ UNCHANGED agentVars

(* Mutant: any reply marks the batch. *)
GotErrorMarks ==
  /\ wslot # NoSlot /\ req[wslot] = "error"
  /\ Step("msgWait", "msgMark")
  /\ SlotDone(wslot)
  /\ wslot' = NoSlot
  /\ UNCHANGED <<casBatch, toUpload, msgBatch>> /\ UNCHANGED agentVars

GotError ==
  /\ wslot # NoSlot /\ req[wslot] = "error"
  /\ Step("msgWait", "casRead")
  /\ SlotDone(wslot)
  /\ wslot' = NoSlot /\ msgBatch' = {}
  /\ UNCHANGED <<casBatch, toUpload>> /\ UNCHANGED agentVars

MarkMsg(i) ==
  /\ wpc = "msgMark" /\ i \in msgBatch
  /\ MarkSynced(i)
  /\ msgBatch' = msgBatch \ {i}
  /\ wpc' = IF msgBatch = {i} THEN "casRead" ELSE "msgMark"
  /\ UNCHANGED <<casBatch, toUpload, wslot>> /\ UNCHANGED coreVars

-----------------------------------------------------------------------------
(* Mutant: a timeout is taken for success. *)
WorkerAbortsMarks ==
  /\ wpc = "msgWait"
  /\ wpc' = "msgMark" /\ wslot' = NoSlot
  /\ Fault("sync") /\ UNCHANGED <<casBatch, toUpload, msgBatch>>
  /\ UNCHANGED agentVars /\ UNCHANGED coreVars

(* The loop starts again with nothing: a crash, an exception, a timeout or *)
(* a lost reply.  The handler in wslot, if any, is not told.               *)
WorkerAborts ==
  /\ wpc # "casRead"
  /\ wpc' = "casRead" /\ casBatch' = {} /\ toUpload' = {} /\ msgBatch' = {}
  /\ wslot' = NoSlot
  /\ Fault("sync") /\ UNCHANGED agentVars /\ UNCHANGED coreVars

(* The reply of a handler nobody waits for. *)
ReplyDiscarded(s) ==
  /\ s # wslot /\ SlotDone(s)
  /\ UNCHANGED agentVars /\ UNCHANGED workerVars

Worker ==
  \/ ReadCas \/ ReadNoCas \/ CheckCas \/ UploadCas
  \/ \E b \in Blobs : MarkCas(b)
  \/ ReadMsgs \/ ReadNoMsgs
  \/ \E s \in Slots : SendBatch(s)
  \/ GotOk \/ GotError
  \/ \E i \in Ids : MarkMsg(i)

WorkerFault == \/ CheckCasMisses \/ UploadCasSwallows \/ UploadCasStops
               \/ WorkerAborts

AgentStep == AgentNext /\ UNCHANGED coreVars /\ UNCHANGED workerVars
CoreStep == CoreNext /\ UNCHANGED agentVars /\ UNCHANGED workerVars

Init == AgentInit /\ CoreInit /\ WorkerInit /\ FaultInit
Next == AgentStep \/ CoreStep \/ Worker \/ WorkerFault
        \/ \E s \in Slots : ReplyDiscarded(s)

(* supervisord keeps the worker running (docker/supervisord_agent.conf),   *)
(* and the event loops run what is ready.  Nothing is assumed of the mail  *)
(* server or of the agent here.                                            *)
Fairness ==
  /\ WF_vars(Worker)
  /\ \A s \in Slots : /\ WF_vars(SyncHandler(s) /\ UNCHANGED <<agentVars, workerVars>>)
                      /\ WF_vars(ReplyDiscarded(s))

Spec == Init /\ [][Next]_vars
FairSpec == Spec /\ Fairness

-----------------------------------------------------------------------------
TypeOK == AgentTypeOK /\ CoreTypeOK /\ WorkerTypeOK /\ FaultTypeOK

(* sync.py's mark_synced means what its name says: a SYNCED message has    *)
(* its blob in the bucket and its document in the index.  The row is never *)
(* read again, so this is the agent's last chance.  Only a failure the     *)
(* core has swallowed, in upload_blob or index_documents, can break it.    *)
SyncedIsArchived ==
  swallowed = 0 => \A i \in Ids : msgRow[i] = "SYNCED" => Archived(i)

(* The same for an attachment: a SYNCED hash is in the bucket, although    *)
(* the upload may have been skipped because of another agent's.            *)
CasSyncedIsStored ==
  swallowed = 0 => \A b \in Blobs : casRow[b] = "SYNCED" => cas[b] # "absent"

(* A mail the mail server has dropped from its queue is either waiting in  *)
(* the buffer, with its file, or archived (README.md:47).                  *)
AcceptedIsNeverLost ==
  \A m \in delivered : \E i \in Ids :
    /\ mailOf[i] = m
    /\ (msgRow[i] = "PENDING" /\ i \in encFile) \/ Archived(i)

(* It is lost in no other way than by a failure the core swallows: not by  *)
(* a crash of any process, a lost or late reply, a repeated batch, a full  *)
(* disk or a failing SQLite statement.                                     *)
OnlySwallowedIsLost == swallowed = 0 => AcceptedIsNeverLost

(* The bucket has the attachment as the agent has it.  A file that a full  *)
(* disk has cut short is never written again (buffer.py:73): that          *)
(* attachment stays truncated at the agent, and so may its blob.           *)
KeptAsSaved(b) == cas[b] = "whole" \/ (cas[b] = "partial" /\ casFile[b] = "partial")

(* Whatever the skeleton of an indexed mail refers to is in the bucket, or *)
(* still on the agent and due for upload, so that rehydration              *)
(* (main.py:534-588) finds it, if not at once; and what it finds is whole, *)
(* but for attachments whose file at the agent was cut short.              *)
AttachmentsAreRecoverable ==
  swallowed = 0 =>
    \A i \in indexed : \A b \in Attachments[mailOf[i]] :
      KeptAsSaved(b) \/ casRow[b] = "PENDING"

(* Failing puts are not reported, but each loses the blob of one message,  *)
(* never that of its neighbours in the batch.                              *)
LossIsCounted ==
  Cardinality({i \in Ids : msgRow[i] = "SYNCED" /\ i \notin stored}) <= swallowed

(* A mail whose attachment is not in the bucket can still be in the index, *)
(* but not for ever: an accepted mail gets its blob, its document and all  *)
(* its attachments into the archive, whole unless the file at the agent    *)
(* was cut short.                                                          *)
CompletelyArchived(m) ==
  \E i \in Ids : /\ mailOf[i] = m /\ Archived(i)
                 /\ \A b \in Attachments[m] : KeptAsSaved(b)

EventuallyArchived == \A m \in Mails : m \in delivered ~> CompletelyArchived(m)

-----------------------------------------------------------------------------
(* What the path promises, seen from outside. *)
Promise == INSTANCE ArchivePromise WITH
  accepted <- delivered,
  held <- {m \in Mails : \E i \in Ids : mailOf[i] = m /\ Buffered(i)},
  archived <- {m \in Mails : \E i \in Ids : mailOf[i] = m /\ Archived(i)}

ImplementsPromise == Promise!Spec
=============================================================================
