----------------------------- MODULE CoreArchive -----------------------------
(***************************************************************************)
(* The archive side of ingestion: core/main.py sync_messages,              *)
(* check_cas_availability and upload_cas_blobs over core/storage.py (one   *)
(* MinIO bucket) and core/search.py (the Meilisearch index).               *)
(*                                                                         *)
(* A sync_messages handler gives up the event loop only where it resolves  *)
(* the organisation in PostgreSQL (lines 175-183), once per item: handlers *)
(* interleave there, and a handler whose client has gone keeps running.    *)
(* The two CAS handlers have no await and are one step each.               *)
(* An index write counts when Meilisearch has accepted the task: its queue *)
(* is durable and in order.                                                *)
(***************************************************************************)
EXTENDS IngestBase

CONSTANT Slots        \* bound: how many sync_messages handlers run at once

VARIABLES
  req,       \* req[s]: where the handler in slot s stands, or its reply
  rbatch,    \* rbatch[s]: the ids of payload.batch
  rtodo,     \* rtodo[s]: the items the loop has not reached
  rcur,      \* rcur[s]: the item whose organisation is being resolved
  rsaved,    \* rsaved[s]: successful_ids
  rdocs,     \* rdocs[s]: documents_to_index
  stored,    \* the ids with a blob <id>.enc in the bucket
  indexed,   \* the ids with a document in the index
  cas        \* cas[b]: the content under cas_<hash>.enc

slotVars == <<req, rbatch, rtodo, rcur, rsaved, rdocs>>
storeVars == <<stored, indexed, cas>>
coreVars == <<req, rbatch, rtodo, rcur, rsaved, rdocs, stored, indexed, cas>>

Busy == {"put", "resolve"}
BlobState == {"absent", "partial", "whole"}

CoreTypeOK ==
  /\ req \in [Slots -> Busy \cup {"free", "ok", "error"}]
  /\ rbatch \in [Slots -> SUBSET Ids]
  /\ rtodo \in [Slots -> SUBSET Ids]
  /\ rcur \in [Slots -> Ids \cup {NoId}]
  /\ rsaved \in [Slots -> SUBSET Ids]
  /\ rdocs \in [Slots -> SUBSET Ids]
  /\ stored \subseteq Ids
  /\ indexed \subseteq Ids
  /\ cas \in [Blobs -> BlobState]

CoreInit ==
  /\ req = [s \in Slots |-> "free"]
  /\ rbatch = [s \in Slots |-> {}]
  /\ rtodo = [s \in Slots |-> {}]
  /\ rcur = [s \in Slots |-> NoId]
  /\ rsaved = [s \in Slots |-> {}]
  /\ rdocs = [s \in Slots |-> {}]
  /\ stored = {} /\ indexed = {}
  /\ cas = [b \in Blobs |-> "absent"]

Reply(s, from, status) == req[s] = from /\ req' = [req EXCEPT ![s] = status]

-----------------------------------------------------------------------------
(* sync_messages                                                           *)

(* Mutant: the lists outlive the request. *)
StartSyncStale(s, B) ==
  /\ Reply(s, "free", "put")
  /\ rbatch' = [rbatch EXCEPT ![s] = B]
  /\ rtodo' = [rtodo EXCEPT ![s] = B]
  /\ NoFault /\ UNCHANGED <<rcur, rsaved, rdocs>> /\ UNCHANGED storeVars

(* A POST of the batch B arrives (lines 129-137). *)
StartSync(s, B) ==
  /\ Reply(s, "free", "put")
  /\ rbatch' = [rbatch EXCEPT ![s] = B]
  /\ rtodo' = [rtodo EXCEPT ![s] = B]
  /\ rsaved' = [rsaved EXCEPT ![s] = {}]
  /\ rdocs' = [rdocs EXCEPT ![s] = {}]
  /\ NoFault /\ UNCHANGED rcur /\ UNCHANGED storeVars

(* upload_blob returned True, which is what counts as processed; the      *)
(* handler then awaits the database.                                      *)
PutBlob(s, i) ==
  /\ i \in rtodo[s]
  /\ Reply(s, "put", "resolve")
  /\ stored' = stored \cup {i}
  /\ rsaved' = [rsaved EXCEPT ![s] = @ \cup {i}]
  /\ rcur' = [rcur EXCEPT ![s] = i]
  /\ NoFault /\ UNCHANGED <<rbatch, rtodo, rdocs, indexed, cas>>

(* Mutant: a failed item ends the loop. *)
PutBlobBreaks(s, i) ==
  /\ req[s] = "put" /\ i \in rtodo[s]
  /\ rtodo' = [rtodo EXCEPT ![s] = {}]
  /\ Swallow("put") /\ UNCHANGED <<req, rbatch, rcur, rsaved, rdocs>>
  /\ UNCHANGED storeVars

(* upload_blob returned False or ensure_bucket raised: either is printed  *)
(* and the loop goes on with the next item (lines 294-298).               *)
PutBlobFails(s, i) ==
  /\ req[s] = "put" /\ i \in rtodo[s]
  /\ rtodo' = [rtodo EXCEPT ![s] = @ \ {i}]
  /\ Swallow("put") /\ UNCHANGED <<req, rbatch, rcur, rsaved, rdocs>>
  /\ UNCHANGED storeVars

(* Mutant: the item is taken up again. *)
ResolveOrgAgain(s) ==
  /\ Reply(s, "resolve", "put")
  /\ rdocs' = [rdocs EXCEPT ![s] = @ \cup {rcur[s]}]
  /\ rcur' = [rcur EXCEPT ![s] = NoId]
  /\ NoFault /\ UNCHANGED <<rbatch, rtodo, rsaved>> /\ UNCHANGED storeVars

(* The organisation query answers, or fails and the default organisation *)
(* is used: either way the document is complete (lines 174-293).         *)
ResolveOrg(s) ==
  /\ Reply(s, "resolve", "put")
  /\ rdocs' = [rdocs EXCEPT ![s] = @ \cup {rcur[s]}]
  /\ rtodo' = [rtodo EXCEPT ![s] = @ \ {rcur[s]}]
  /\ rcur' = [rcur EXCEPT ![s] = NoId]
  /\ NoFault /\ UNCHANGED <<rbatch, rsaved>> /\ UNCHANGED storeVars

(* Completing the document raises: its blob is stored and counted, the    *)
(* document is not collected, and the loop goes on (lines 297-298).       *)
ResolveOrgFails(s) ==
  /\ Reply(s, "resolve", "put")
  /\ rtodo' = [rtodo EXCEPT ![s] = @ \ {rcur[s]}]
  /\ rcur' = [rcur EXCEPT ![s] = NoId]
  /\ Swallow("doc") /\ UNCHANGED <<rbatch, rsaved, rdocs>> /\ UNCHANGED storeVars

(* index_documents and the reply 200 (lines 300-304). *)
IndexBatch(s) ==
  /\ rtodo[s] = {}
  /\ Reply(s, "put", "ok")
  /\ indexed' = indexed \cup rdocs[s]
  /\ NoFault /\ UNCHANGED <<rbatch, rtodo, rcur, rsaved, rdocs, stored, cas>>

(* add_documents raised, index_documents returned None: still 200. *)
IndexBatchFails(s) ==
  /\ rtodo[s] = {} /\ rdocs[s] # {}
  /\ Reply(s, "put", "ok")
  /\ Swallow("index") /\ UNCHANGED <<rbatch, rtodo, rcur, rsaved, rdocs>>
  /\ UNCHANGED storeVars

(* Mutant: the exception of ensure_index is swallowed as well. *)
IndexBatchRaisesQuietly(s) ==
  /\ rtodo[s] = {} /\ rdocs[s] # {}
  /\ Reply(s, "put", "ok")
  /\ Fault("meili") /\ UNCHANGED <<rbatch, rtodo, rcur, rsaved, rdocs>>
  /\ UNCHANGED storeVars

(* ensure_index raised outside index_documents' try (search.py:23): 500. *)
IndexBatchRaises(s) ==
  /\ rtodo[s] = {} /\ rdocs[s] # {}
  /\ Reply(s, "put", "error")
  /\ Fault("meili") /\ UNCHANGED <<rbatch, rtodo, rcur, rsaved, rdocs>>
  /\ UNCHANGED storeVars

(* The reply reaches the client, or nobody: the slot is free again. *)
SlotDone(s) ==
  /\ req[s] \in {"ok", "error"}
  /\ req' = [req EXCEPT ![s] = "free"]
  /\ NoFault /\ UNCHANGED <<rbatch, rtodo, rcur, rsaved, rdocs>>
  /\ UNCHANGED storeVars

(* The core process dies: its handlers answer nothing, the stores stay. *)
CoreCrash ==
  /\ \E s \in Slots : req[s] \in Busy
  /\ req' = [s \in Slots |-> IF req[s] \in Busy THEN "error" ELSE req[s]]
  /\ rcur' = [s \in Slots |-> NoId]
  /\ Fault("core") /\ UNCHANGED <<rbatch, rtodo, rsaved, rdocs>>
  /\ UNCHANGED storeVars

-----------------------------------------------------------------------------
(* upload_cas_blobs (lines 330-342): of the batch of blobs, with their      *)
(* contents, those in S are put - all of them unless some puts fail.        *)
CasPut(S, content) ==
  cas' = [b \in Blobs |-> IF b \in S THEN content[b] ELSE cas[b]]

(* Another agent uploads a blob it found missing (README.md:71). *)
RemoteCasUpload(b) ==
  /\ cas[b] = "absent"
  /\ cas' = [cas EXCEPT ![b] = "whole"]
  /\ NoFault /\ UNCHANGED <<stored, indexed>> /\ UNCHANGED slotVars

-----------------------------------------------------------------------------
(* The steps of the handler in slot s, faults apart. *)
SyncHandler(s) == \/ \E i \in Ids : PutBlob(s, i)
                  \/ ResolveOrg(s) \/ IndexBatch(s)

SyncFault(s) == \/ \E i \in Ids : PutBlobFails(s, i)
                \/ ResolveOrgFails(s) \/ IndexBatchFails(s) \/ IndexBatchRaises(s)

CoreNext == \/ \E s \in Slots : SyncHandler(s) \/ SyncFault(s)
            \/ CoreCrash
            \/ \E b \in Blobs : RemoteCasUpload(b)

archiveVars == <<faultVars, coreVars>>

(* The core on its own: clients post any batch at any time. *)
ArchiveInit == CoreInit /\ FaultInit
ArchiveNext == \/ CoreNext
        \/ \E s \in Slots : \/ \E B \in SUBSET Ids : B # {} /\ StartSync(s, B)
                            \/ SlotDone(s)

(* uvicorn runs every handler whose await is done. *)
SyncFairness == \A s \in Slots : WF_archiveVars(SyncHandler(s))

ArchiveSpec == ArchiveInit /\ [][ArchiveNext]_archiveVars
ArchiveFairSpec == ArchiveSpec /\ SyncFairness

-----------------------------------------------------------------------------
ArchiveTypeOK == CoreTypeOK /\ FaultTypeOK

Archived(i) == i \in stored /\ i \in indexed

(* A search result can be opened: no document enters the index before its *)
(* blob is in the bucket, whichever puts failed and whichever handlers    *)
(* overlap on the same ids.                                               *)
IndexedHasBlob == indexed \subseteq stored

(* The 200 means what sync.py:104-108 takes it to mean: every item of the *)
(* batch has its blob and its document.  It holds as long as no failure   *)
(* (a put, a document, an index write) has been swallowed.                *)
OkMeansArchived ==
  swallowed = 0 =>
    \A s \in Slots : req[s] = "ok" => \A i \in rbatch[s] : Archived(i)

(* PROPERTY.  Both together: what search and the reply say is there. *)
ArchiveIsSound == IndexedHasBlob /\ OkMeansArchived

(* "processed" tells the client whether blobs are missing: when it equals *)
(* the size of the batch, every blob of the batch is in the bucket, even  *)
(* with failing puts.  (Of the documents it says nothing, and the client  *)
(* does not read it.)                                                     *)
FullCountMeansStored ==
  \A s \in Slots :
    req[s] = "ok" /\ Cardinality(rsaved[s]) = Cardinality(rbatch[s])
      => rbatch[s] \subseteq stored

(* Every batch is answered, whatever the backends do. *)
EveryBatchIsAnswered ==
  \A s \in Slots : req[s] \in Busy ~> req[s] \in {"ok", "error"}
=============================================================================
