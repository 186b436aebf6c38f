-------------------------- MODULE CoreArchiveProofs --------------------------
(***************************************************************************)
(* Theorems about the core's ingestion handlers, for any number of them.   *)
(*                                                                         *)
(* A 200 says something about the bucket and the index only through what   *)
(* the handler collected on the way: ArchiveInv follows the collected      *)
(* documents in every slot whatever fails, BatchInv the rest of the batch  *)
(* as long as no failure has been swallowed, and ItemsInv says that a      *)
(* handler works on its own batch only.                                    *)
(***************************************************************************)
EXTENDS CoreArchive, FiniteSetTheorems, TLAPS

(* What is counted or collected has its blob, whatever fails. *)
ArchiveInv ==
  /\ ArchiveTypeOK
  /\ \A s \in Slots : /\ rsaved[s] \subseteq stored /\ rdocs[s] \subseteq stored
                      /\ req[s] = "resolve" => rcur[s] \in stored
  /\ IndexedHasBlob

(* If nothing has been swallowed, every item of the batch is still to do   *)
(* or collected, and a batch answered with 200 is collected and indexed.   *)
BatchInv ==
  swallowed = 0 => \A s \in Slots :
    /\ req[s] \in Busy \cup {"ok"} => rbatch[s] \subseteq rtodo[s] \cup rdocs[s]
    /\ req[s] = "ok" => rtodo[s] = {} /\ rdocs[s] \subseteq indexed

(* What is to do, in hand or counted belongs to the batch of the slot,    *)
(* and a 200 is given only when nothing is left to do.                     *)
ItemsInv ==
  \A s \in Slots :
    /\ rtodo[s] \subseteq rbatch[s] /\ rsaved[s] \subseteq rbatch[s]
    /\ req[s] = "resolve" => rcur[s] \in rbatch[s]
    /\ req[s] = "ok" => rtodo[s] = {}

ArchiveStep == \/ CoreNext
               \/ \E s \in Slots, B \in SUBSET Ids : StartSync(s, B)
               \/ \E s \in Slots : SlotDone(s)

-----------------------------------------------------------------------------
LEMMA ArchiveInitInv == ArchiveInit => ArchiveInv /\ BatchInv /\ ItemsInv
BY MaxFaultsAssumption
   DEF ArchiveInit, CoreInit, ArchiveInv, ArchiveTypeOK, CoreTypeOK, Busy,
       BlobState, IndexedHasBlob, BatchInv, ItemsInv, FaultInit, FaultTypeOK

LEMMA ArchiveInvStep ==
  ASSUME ArchiveInv, ArchiveStep
  PROVE  ArchiveInv'
<1> USE NullsAssumption, MaxFaultsAssumption
    DEF ArchiveInv, ArchiveTypeOK, CoreTypeOK, Busy, BlobState, IndexedHasBlob,
        Reply, Fault, Swallow, Spend, NoFault, faultVars, FaultTypeOK, slotVars,
        storeVars
<1>1. ASSUME NEW s \in Slots, NEW i \in Ids, PutBlob(s, i) PROVE ArchiveInv'
  BY <1>1 DEF PutBlob
<1>2. ASSUME NEW s \in Slots, NEW i \in Ids, PutBlobFails(s, i) PROVE ArchiveInv'
  BY <1>2 DEF PutBlobFails
<1>3. ASSUME NEW s \in Slots, ResolveOrg(s) \/ ResolveOrgFails(s) PROVE ArchiveInv'
  BY <1>3 DEF ResolveOrg, ResolveOrgFails
<1>4. ASSUME NEW s \in Slots, IndexBatch(s) PROVE ArchiveInv'
  BY <1>4 DEF IndexBatch
<1>5. ASSUME NEW s \in Slots, IndexBatchFails(s) \/ IndexBatchRaises(s) PROVE ArchiveInv'
  BY <1>5 DEF IndexBatchFails, IndexBatchRaises
<1>6. ASSUME CoreCrash PROVE ArchiveInv'
  BY <1>6 DEF CoreCrash
<1>7. ASSUME NEW b \in Blobs, RemoteCasUpload(b) PROVE ArchiveInv'
  BY <1>7 DEF RemoteCasUpload
<1>8. ASSUME NEW s \in Slots, NEW B \in SUBSET Ids, StartSync(s, B) PROVE ArchiveInv'
  BY <1>8 DEF StartSync
<1>9. ASSUME NEW s \in Slots, SlotDone(s) PROVE ArchiveInv'
  BY <1>9 DEF SlotDone
<1> QED
  BY <1>1, <1>2, <1>3, <1>4, <1>5, <1>6, <1>7, <1>8, <1>9
     DEF ArchiveStep, CoreNext, SyncHandler, SyncFault

LEMMA BatchInvStep ==
  ASSUME ArchiveInv, BatchInv, ArchiveStep
  PROVE  BatchInv'
<1> USE DEF ArchiveInv, ArchiveTypeOK, CoreTypeOK, BatchInv, Busy, Reply, Fault,
            Swallow, Spend, NoFault, faultVars, FaultTypeOK, slotVars, storeVars
<1>1. ASSUME NEW s \in Slots, NEW i \in Ids, PutBlob(s, i) PROVE BatchInv'
  BY <1>1 DEF PutBlob
<1>2. ASSUME NEW s \in Slots, NEW i \in Ids, PutBlobFails(s, i) PROVE BatchInv'
  BY <1>2 DEF PutBlobFails
<1>3. ASSUME NEW s \in Slots, ResolveOrg(s) PROVE BatchInv'
  BY <1>3 DEF ResolveOrg
<1>4. ASSUME NEW s \in Slots, IndexBatch(s) PROVE BatchInv'
  BY <1>4 DEF IndexBatch
<1>5. ASSUME NEW s \in Slots, IndexBatchFails(s) PROVE BatchInv'
  BY <1>5 DEF IndexBatchFails
<1>6. ASSUME NEW s \in Slots, IndexBatchRaises(s) PROVE BatchInv'
  BY <1>6 DEF IndexBatchRaises
<1>7. ASSUME CoreCrash PROVE BatchInv'
  BY <1>7 DEF CoreCrash
<1>8. ASSUME NEW b \in Blobs, RemoteCasUpload(b) PROVE BatchInv'
  BY <1>8 DEF RemoteCasUpload
<1>9. ASSUME NEW s \in Slots, NEW B \in SUBSET Ids, StartSync(s, B) PROVE BatchInv'
  BY <1>9 DEF StartSync
<1>10. ASSUME NEW s \in Slots, SlotDone(s) PROVE BatchInv'
  BY <1>10 DEF SlotDone
<1>11. ASSUME NEW s \in Slots, ResolveOrgFails(s) PROVE BatchInv'
  BY <1>11 DEF ResolveOrgFails
<1> QED
  BY <1>1, <1>2, <1>3, <1>4, <1>5, <1>6, <1>7, <1>8, <1>9, <1>10, <1>11
     DEF ArchiveStep, CoreNext, SyncHandler, SyncFault

LEMMA ItemsInvStep ==
  ASSUME ArchiveInv, ItemsInv, ArchiveStep
  PROVE  ItemsInv'
<1> USE DEF ArchiveInv, ArchiveTypeOK, CoreTypeOK, ItemsInv, Busy, Reply, slotVars
<1>1. ASSUME NEW s \in Slots, NEW i \in Ids, PutBlob(s, i) \/ PutBlobFails(s, i)
      PROVE  ItemsInv'
  BY <1>1 DEF PutBlob, PutBlobFails
<1>2. ASSUME NEW s \in Slots, ResolveOrg(s) \/ ResolveOrgFails(s) PROVE ItemsInv'
  BY <1>2 DEF ResolveOrg, ResolveOrgFails
<1>3. ASSUME NEW s \in Slots, IndexBatch(s) \/ IndexBatchFails(s) \/ IndexBatchRaises(s)
      PROVE  ItemsInv'
  BY <1>3 DEF IndexBatch, IndexBatchFails, IndexBatchRaises
<1>4. CASE CoreCrash
  BY <1>4 DEF CoreCrash
<1>5. ASSUME NEW b \in Blobs, RemoteCasUpload(b) PROVE ItemsInv'
  BY <1>5 DEF RemoteCasUpload
<1>6. ASSUME NEW s \in Slots, NEW B \in SUBSET Ids, StartSync(s, B) PROVE ItemsInv'
  BY <1>6 DEF StartSync
<1>7. ASSUME NEW s \in Slots, SlotDone(s) PROVE ItemsInv'
  BY <1>7 DEF SlotDone
<1> QED
  BY <1>1, <1>2, <1>3, <1>4, <1>5, <1>6, <1>7
     DEF ArchiveStep, CoreNext, SyncHandler, SyncFault

(* The counted items are a part of the batch with their blobs in the       *)
(* bucket: if they are as many as the batch, they are the batch.           *)
LEMMA FullCountFollows ==
  ASSUME ArchiveInv, ItemsInv
  PROVE  FullCountMeansStored
<1> SUFFICES ASSUME NEW s \in Slots, Cardinality(rsaved[s]) = Cardinality(rbatch[s])
             PROVE  rbatch[s] \subseteq stored
  BY DEF FullCountMeansStored
<1>1. /\ rbatch[s] \subseteq Ids /\ rsaved[s] \subseteq rbatch[s]
      /\ rsaved[s] \subseteq stored
  BY DEF ArchiveInv, ArchiveTypeOK, CoreTypeOK, ItemsInv
<1>2. IsFiniteSet(rbatch[s])
  BY <1>1, IdsAssumption, FS_Subset
<1>3. rsaved[s] = rbatch[s]
  BY <1>1, <1>2, FS_Subset
<1> QED BY <1>1, <1>3

(* What only grows at the core. *)
StoresGrow == /\ stored \subseteq stored' /\ indexed \subseteq indexed'
              /\ \A b \in Blobs : cas[b] # "absent" => cas'[b] # "absent"

LEMMA StoresMonotone ==
  ASSUME ArchiveInv, ArchiveStep
  PROVE  StoresGrow
BY DEF ArchiveInv, ArchiveTypeOK, CoreTypeOK, BlobState, StoresGrow, ArchiveStep,
       CoreNext, SyncHandler, SyncFault, PutBlob, PutBlobFails, ResolveOrg, ResolveOrgFails,
       IndexBatch, IndexBatchFails, IndexBatchRaises, CoreCrash, RemoteCasUpload,
       StartSync, SlotDone, storeVars

LEMMA ArchiveStutter ==
  ASSUME UNCHANGED archiveVars
  PROVE  /\ ArchiveInv => ArchiveInv'
         /\ BatchInv => BatchInv'
         /\ ItemsInv => ItemsInv'
BY DEF archiveVars, coreVars, ArchiveInv, ArchiveTypeOK, CoreTypeOK,
       IndexedHasBlob, BatchInv, ItemsInv, faultVars, FaultTypeOK

-----------------------------------------------------------------------------
THEOREM ArchiveInvariant == ArchiveSpec => []ArchiveInv
<1>1. ArchiveInv /\ [ArchiveNext]_archiveVars => ArchiveInv'
  BY ArchiveInvStep, ArchiveStutter DEF ArchiveNext, ArchiveStep
<1> QED BY <1>1, ArchiveInitInv, PTL DEF ArchiveSpec

(* Type correctness of the core's handlers. *)
THEOREM ArchiveTypeCorrect == ArchiveSpec => []ArchiveTypeOK
BY ArchiveInvariant, PTL DEF ArchiveInv

(* No document without its blob, whatever puts and index writes fail and   *)
(* however the handlers overlap.                                           *)
THEOREM IndexedAlwaysHasBlob == ArchiveSpec => []IndexedHasBlob
BY ArchiveInvariant, PTL DEF ArchiveInv

(* The 200 is honest as long as no failure has been swallowed. *)
THEOREM OkIsHonest == ArchiveSpec => []OkMeansArchived
<1>1. ArchiveInv /\ BatchInv /\ [ArchiveNext]_archiveVars => BatchInv'
  BY BatchInvStep, ArchiveStutter DEF ArchiveNext, ArchiveStep
<1>2. ArchiveInv /\ BatchInv => OkMeansArchived
  BY DEF ArchiveInv, BatchInv, OkMeansArchived, Archived, ArchiveTypeOK, CoreTypeOK
<1> QED BY <1>1, <1>2, ArchiveInitInv, ArchiveInvariant, PTL DEF ArchiveSpec

(* A full count in the reply means that every blob is in the bucket, also  *)
(* when puts fail and handlers with common items overlap.                  *)
THEOREM FullCountIsHonest == ArchiveSpec => []FullCountMeansStored
<1>1. ArchiveInv /\ ItemsInv /\ [ArchiveNext]_archiveVars => ItemsInv'
  BY ItemsInvStep, ArchiveStutter DEF ArchiveNext, ArchiveStep
<1>2. ArchiveInv /\ ItemsInv => FullCountMeansStored
  BY FullCountFollows
<1> QED BY <1>1, <1>2, ArchiveInitInv, ArchiveInvariant, PTL DEF ArchiveSpec
=============================================================================
