--------------------------- MODULE RetentionProofs ---------------------------
(***************************************************************************)
(* Theorems about retention and legal holds, for any messages, holds and   *)
(* purges.                                                                 *)
(*                                                                         *)
(* Why an active hold keeps its mail: whatever protects it when no purge   *)
(* has read the holds yet is read by every later purge before its loop     *)
(* (Covered), since an active hold stays in the second query, and an item  *)
(* in the first unless the deletion of its organisation has taken it       *)
(* (stripped).  SpareInv is the converse: what a purge has read to spare   *)
(* is explained by a hold, so that stale readings spare nothing else.      *)
(***************************************************************************)
EXTENDS Retention, FiniteSetTheorems, TLAPS

LEMMA TypeInit == Init => TypeOK
BY RetentionAssumption DEF Init, HoldInit, TypeOK, HoldTypeOK

LEMMA TypeStep == TypeOK /\ [Next]_vars => TypeOK'
<1> SUFFICES ASSUME TypeOK, [Next]_vars PROVE TypeOK'
  OBVIOUS
<1> USE DEF TypeOK, HoldTypeOK, holdVars, deleteVars, ingestVars, purgeVars
<1>1. CASE HoldHandler /\ UNCHANGED <<blobs, ingestVars, old, purgeVars, faults, gone>>
  <2>1. ASSUME NEW r \in Requests, CheckName(r) PROVE TypeOK'
    BY <1>1, <2>1 DEF CheckName
  <2>2. ASSUME NEW r \in Requests, InsertHold(r) PROVE TypeOK'
    BY <1>1, <2>2 DEF InsertHold
  <2>3. ASSUME NEW r \in Requests, FindHits(r) PROVE TypeOK'
    BY <1>1, <2>3, HoldAssumption DEF FindHits
  <2>4. ASSUME NEW r \in Requests, InsertItems(r) PROVE TypeOK'
    BY <1>1, <2>4, HoldAssumption DEF InsertItems, EndRequest
  <2>5. ASSUME NEW r \in Requests, ReleaseHold(r) PROVE TypeOK'
    BY <1>1, <2>5 DEF ReleaseHold
  <2>6. ASSUME NEW r \in Requests, NEW m \in Messages, ApplyHold(r, m) PROVE TypeOK'
    BY <1>1, <2>6 DEF ApplyHold
  <2>7. ASSUME NEW r \in Requests, HoldRefused(r) PROVE TypeOK'
    BY <1>1, <2>7 DEF HoldRefused
  <2>8. ASSUME NEW o \in HoldOrgs, DeleteHoldItems(o) PROVE TypeOK'
    BY <1>1, <2>8 DEF DeleteHoldItems, ItemsOf
  <2>9. ASSUME NEW o \in HoldOrgs, DeleteHolds(o) PROVE TypeOK'
    BY <1>1, <2>9 DEF DeleteHolds, ItemsOf
  <2> QED BY <1>1, <2>1, <2>2, <2>3, <2>4, <2>5, <2>6, <2>7, <2>8, <2>9 DEF HoldHandler
<1>2. ASSUME NEW m \in Messages, PutBlob(m) PROVE TypeOK'
  BY <1>2 DEF PutBlob
<1>3. ASSUME NEW m \in Messages, Index(m) PROVE TypeOK'
  BY <1>3 DEF Index
<1>4. ASSUME NEW m \in Messages, Expire(m) PROVE TypeOK'
  BY <1>4 DEF Expire
<1>5. ASSUME NEW p \in Purgers, ReadPolicies(p) PROVE TypeOK'
  BY <1>5 DEF ReadPolicies
<1>6. ASSUME NEW p \in Purgers, ReadHeld(p) PROVE TypeOK'
  BY <1>6 DEF ReadHeld
<1>7. ASSUME NEW p \in Purgers, ReadAccounts(p) PROVE TypeOK'
  BY <1>7, HoldAssumption DEF ReadAccounts
<1>8. ASSUME NEW p \in Purgers, Purge(p) PROVE TypeOK'
  BY <1>8 DEF Purge, EndRun, Victims, Candidates, Expired
<1>9. CASE Fault
  <2>1. CASE CoreCrash
    BY <2>1 DEF CoreCrash
  <2>2. ASSUME NEW p \in Purgers, NoConnection(p) PROVE TypeOK'
    BY <2>2 DEF NoConnection
  <2>3. ASSUME NEW p \in Purgers, QueryFails(p) PROVE TypeOK'
    BY <2>3 DEF QueryFails, EndRun
  <2>4. ASSUME NEW p \in Purgers, PurgeFails(p) PROVE TypeOK'
    <3>1. PICK D \in SUBSET Victims(p), B \in SUBSET Victims(p) :
            docs' = docs \ D /\ blobs' = blobs \ B /\ gone' = gone \cup D
      BY <2>4 DEF PurgeFails
    <3>2. Victims(p) \subseteq Messages
      BY DEF Victims, Candidates, Expired
    <3> QED BY <2>4, <3>1, <3>2 DEF PurgeFails, EndRun
  <2>5. ASSUME NEW m \in Messages, IndexFails(m) PROVE TypeOK'
    BY <2>5 DEF IndexFails
  <2>6. ASSUME NEW r \in Requests, CreateStops(r), faults' = faults + 1,
               UNCHANGED <<blobs, old, gone>>, UNCHANGED ingestVars, UNCHANGED purgeVars
        PROVE  TypeOK'
    BY <2>6 DEF CreateStops, EndRequest
  <2>7. ASSUME NEW o \in HoldOrgs, DeleteStops(o), faults' = faults + 1,
               UNCHANGED <<blobs, old, gone>>, UNCHANGED ingestVars, UNCHANGED purgeVars
        PROVE  TypeOK'
    BY <2>7 DEF DeleteStops
  <2> QED BY <1>9, <2>1, <2>2, <2>3, <2>4, <2>5, <2>6, <2>7 DEF Fault
<1>10. CASE UNCHANGED vars
  BY <1>10 DEF vars
<1> QED BY <1>1, <1>2, <1>3, <1>4, <1>5, <1>6, <1>7, <1>8, <1>9, <1>10
        DEF Next, PurgeRun

(* Type correctness of retention and legal holds. *)
THEOREM TypeCorrect == Spec => []TypeOK
BY TypeInit, TypeStep, PTL DEF Spec

-----------------------------------------------------------------------------
(* A document whose blob has gone was indexed by a handler that had put    *)
(* the blob before a purge, so the mail has been purged before.            *)
DanglingInv ==
  /\ DanglingIsPurged
  /\ \A m \in Messages : uploading[m] > 0 => m \in blobs \/ m \in gone

LEMMA DanglingStep == TypeOK /\ DanglingInv /\ [Next]_vars => DanglingInv'
<1> SUFFICES ASSUME TypeOK, DanglingInv, [Next]_vars PROVE DanglingInv'
  OBVIOUS
<1> USE DEF TypeOK, HoldTypeOK, DanglingInv, DanglingIsPurged,
            holdVars, ingestVars, purgeVars
<1>1. CASE UNCHANGED <<docs, blobs, gone, uploading>>
  BY <1>1
<1>2. ASSUME NEW m \in Messages, PutBlob(m) PROVE DanglingInv'
  BY <1>2 DEF PutBlob
<1>3. ASSUME NEW m \in Messages, Index(m) PROVE DanglingInv'
  BY <1>3 DEF Index
<1>4. ASSUME NEW p \in Purgers, Purge(p) PROVE DanglingInv'
  BY <1>4 DEF Purge
<1>5. ASSUME NEW p \in Purgers, PurgeFails(p) PROVE DanglingInv'
  BY <1>5 DEF PurgeFails
<1>6. ASSUME NEW m \in Messages, IndexFails(m) PROVE DanglingInv'
  BY <1>6 DEF IndexFails
<1>7. CASE CoreCrash
  BY <1>7 DEF CoreCrash
<1>8. \/ UNCHANGED <<docs, blobs, gone, uploading>>
      \/ \E m \in Messages : PutBlob(m) \/ Index(m) \/ IndexFails(m)
      \/ \E p \in Purgers : Purge(p) \/ PurgeFails(p)
      \/ CoreCrash
  BY DEF Next, Fault, HoldHandler, CheckName, InsertHold, FindHits, InsertItems,
         HoldRefused, DeleteHoldItems, DeleteHolds, DeleteStops, ReleaseHold, ApplyHold, CreateStops, Expire, PurgeRun, ReadPolicies, ReadHeld,
         ReadAccounts, NoConnection, QueryFails, vars
<1> QED BY <1>1, <1>2, <1>3, <1>4, <1>5, <1>6, <1>7, <1>8

(* A document without a blob always belongs to a mail that was purged. *)
THEOREM DanglingIsAlwaysPurged == Spec => []DanglingIsPurged
<1>1. Init => DanglingInv
  BY DEF Init, DanglingInv, DanglingIsPurged
<1>2. DanglingInv => DanglingIsPurged
  BY DEF DanglingInv
<1> QED BY <1>1, <1>2, TypeInit, TypeStep, DanglingStep, PTL DEF Spec

-----------------------------------------------------------------------------
(* As long as nothing has failed, a purged mail leaves the bucket as well: *)
(* of the steps that are no failures, only those of an upload and the      *)
(* purge touch the two stores.                                             *)
LEMMA GoneStep == TypeOK /\ PurgedIsGone /\ [Next]_vars => PurgedIsGone'
<1> SUFFICES ASSUME TypeOK, PurgedIsGone, [Next]_vars PROVE PurgedIsGone'
  OBVIOUS
<1> USE DEF TypeOK, HoldTypeOK, PurgedIsGone, holdVars, ingestVars, purgeVars
<1>1. CASE UNCHANGED <<docs, blobs, gone, uploading, faults>>
  BY <1>1
<1>2. ASSUME NEW m \in Messages, PutBlob(m) PROVE PurgedIsGone'
  BY <1>2 DEF PutBlob
<1>3. ASSUME NEW m \in Messages, Index(m) PROVE PurgedIsGone'
  BY <1>3 DEF Index
<1>4. ASSUME NEW p \in Purgers, Purge(p) PROVE PurgedIsGone'
  BY <1>4 DEF Purge
<1>5. CASE faults' = faults + 1
  BY <1>5
<1>6. \/ UNCHANGED <<docs, blobs, gone, uploading, faults>>
      \/ \E m \in Messages : PutBlob(m) \/ Index(m)
      \/ \E p \in Purgers : Purge(p)
      \/ faults' = faults + 1
  BY DEF Next, Fault, HoldHandler, CheckName, InsertHold, FindHits, InsertItems,
         HoldRefused, DeleteHoldItems, DeleteHolds, DeleteStops, ReleaseHold, ApplyHold, Expire, PurgeRun, ReadPolicies, ReadHeld,
         ReadAccounts, NoConnection, QueryFails, PurgeFails, IndexFails, CoreCrash, vars
<1> QED BY <1>1, <1>2, <1>3, <1>4, <1>5, <1>6

(* Until the first failure, what is purged is gone from both stores. *)
THEOREM PurgedIsReallyGone == Spec => []PurgedIsGone
<1>1. Init => PurgedIsGone
  BY DEF Init, PurgedIsGone
<1>2. TypeOK /\ PurgedIsGone /\ [Next]_vars => PurgedIsGone'
  BY GoneStep
<1> QED BY <1>1, <1>2, TypeInit, TypeStep, PTL DEF Spec

(* Only purges add to what is gone, and only from the candidates; the      *)
(* retention period of a mail does not begin anew.                         *)
LEMMA OldStep == TypeOK /\ OnlyOldIsPurged /\ [Next]_vars => OnlyOldIsPurged'
<1> SUFFICES ASSUME TypeOK, OnlyOldIsPurged, [Next]_vars PROVE OnlyOldIsPurged'
  OBVIOUS
<1> USE DEF TypeOK, OnlyOldIsPurged, holdVars, ingestVars, purgeVars
<1>1. CASE UNCHANGED gone /\ old \subseteq old'
  BY <1>1
<1>2. ASSUME NEW p \in Purgers, Purge(p) \/ PurgeFails(p) PROVE OnlyOldIsPurged'
  BY <1>2 DEF Purge, PurgeFails, Victims, Candidates, Expired
<1>3. \/ UNCHANGED gone /\ old \subseteq old'
      \/ \E p \in Purgers : Purge(p) \/ PurgeFails(p)
  BY DEF Next, Fault, HoldHandler, CheckName, InsertHold, FindHits, InsertItems,
         HoldRefused, DeleteHoldItems, DeleteHolds, DeleteStops, ReleaseHold, ApplyHold, PutBlob, Index, Expire, PurgeRun, ReadPolicies,
         ReadHeld, ReadAccounts, NoConnection, QueryFails, IndexFails, CoreCrash, vars
<1> QED BY <1>1, <1>2, <1>3

(* A mail that is not past its retention period is purged only when its    *)
(* date cannot be read.                                                    *)
THEOREM PurgedWasOld == Spec => []OnlyOldIsPurged
<1>1. Init => OnlyOldIsPurged
  BY DEF Init, OnlyOldIsPurged
<1>2. TypeOK /\ OnlyOldIsPurged /\ [Next]_vars => OnlyOldIsPurged'
  BY OldStep
<1> QED BY <1>1, <1>2, TypeInit, TypeStep, PTL DEF Spec

(* A purge removes what it is meant to, and all of it. *)
THEOREM PurgesStaySound == Spec => []PurgesAreSound
BY PurgedIsReallyGone, PurgedWasOld, PTL DEF PurgesAreSound

-----------------------------------------------------------------------------
(* A request inserts its hold once. *)
OnceInv == \A r \in Requests : creating[r] \in {"new", "checked"} => holds[r] = "none"

LEMMA OnceStep == TypeOK /\ OnceInv /\ [Next]_vars => OnceInv'
<1> SUFFICES ASSUME TypeOK, OnceInv, [Next]_vars PROVE OnceInv'
  OBVIOUS
<1> USE DEF TypeOK, HoldTypeOK, OnceInv
<1>1. CASE UNCHANGED <<creating, holds>>
  BY <1>1
<1>2. ASSUME NEW r \in Requests,
             CheckName(r) \/ InsertHold(r) \/ HoldRefused(r) \/ FindHits(r)
               \/ InsertItems(r) \/ ReleaseHold(r) \/ CreateStops(r)
      PROVE  OnceInv'
  BY <1>2 DEF CheckName, InsertHold, HoldRefused, FindHits, InsertItems, ReleaseHold,
              CreateStops, EndRequest
<1>3. CASE CoreCrash
  BY <1>3 DEF CoreCrash
<1>4. ASSUME NEW o \in HoldOrgs, DeleteHolds(o) PROVE OnceInv'
  BY <1>4 DEF DeleteHolds
<1>5. \/ UNCHANGED <<creating, holds>>
      \/ \E r \in Requests : \/ CheckName(r) \/ InsertHold(r) \/ HoldRefused(r) \/ FindHits(r)
                            \/ InsertItems(r) \/ ReleaseHold(r) \/ CreateStops(r)
      \/ \E o \in HoldOrgs : DeleteHolds(o)
      \/ CoreCrash
  BY DEF Next, Fault, HoldHandler, DeleteHoldItems, DeleteStops, ApplyHold, PutBlob, Index, IndexFails, Expire, PurgeRun,
         ReadPolicies, ReadHeld, ReadAccounts, Purge, NoConnection, QueryFails, PurgeFails,
         holdVars, vars
<1> QED BY <1>1, <1>2, <1>3, <1>4, <1>5

(* What every purge knows of the protection of m by r. *)
Covered(r, m) ==
  /\ m \notin gone
  /\ (<<r, m>> \in items \/ m \in RawMatches[r])
  /\ \A p \in Purgers :
       /\ purge[p] = "held" => m \in heldIds[p] \/ m \in RawMatches[r]
       /\ purge[p] = "ready" => m \in heldIds[p] \cup heldRaw[p]

Keeps(r, m) == \/ holds[r] \in {"released", "deleted"}
               \/ <<r, m>> \in stripped /\ m \notin RawMatches[r]
               \/ holds[r] = "active" /\ Covered(r, m)

LEMMA KeepsStep ==
  ASSUME NEW r \in Requests, NEW m \in Messages
  PROVE  TypeOK /\ OnceInv /\ Keeps(r, m) /\ [Next]_vars => Keeps(r, m)'
<1> SUFFICES ASSUME TypeOK, OnceInv, Keeps(r, m), [Next]_vars PROVE Keeps(r, m)'
  OBVIOUS
<1> USE DEF TypeOK, HoldTypeOK, Keeps, Covered, holdVars, deleteVars, ingestVars, purgeVars
<1>1. CASE UNCHANGED <<holds, items, stripped, gone, purgeVars>>
  BY <1>1
<1>2. ASSUME NEW s \in Requests, InsertHold(s), UNCHANGED <<gone, purgeVars>>
      PROVE  Keeps(r, m)'
  BY <1>2 DEF InsertHold, OnceInv
<1>3. ASSUME NEW s \in Requests, InsertItems(s), UNCHANGED <<gone, purgeVars>>
      PROVE  Keeps(r, m)'
  BY <1>3 DEF InsertItems, EndRequest
<1>4. ASSUME NEW s \in Requests, ReleaseHold(s), UNCHANGED <<gone, purgeVars>>
      PROVE  Keeps(r, m)'
  BY <1>4 DEF ReleaseHold
<1>5. ASSUME NEW s \in Requests, NEW n \in Messages, ApplyHold(s, n),
             UNCHANGED <<gone, purgeVars>>
      PROVE  Keeps(r, m)'
  BY <1>5 DEF ApplyHold
<1>6. ASSUME NEW p \in Purgers, ReadPolicies(p) PROVE Keeps(r, m)'
  BY <1>6 DEF ReadPolicies
<1>7. ASSUME NEW p \in Purgers, ReadHeld(p) PROVE Keeps(r, m)'
  BY <1>7 DEF ReadHeld, Held
<1>8. ASSUME NEW p \in Purgers, ReadAccounts(p) PROVE Keeps(r, m)'
  BY <1>8 DEF ReadAccounts
<1>9. ASSUME NEW p \in Purgers, Purge(p) PROVE Keeps(r, m)'
  BY <1>9 DEF Purge, EndRun, Victims
<1>10. ASSUME NEW p \in Purgers, PurgeFails(p) PROVE Keeps(r, m)'
  BY <1>10 DEF PurgeFails, EndRun, Victims
<1>11. ASSUME NEW p \in Purgers, NoConnection(p) \/ QueryFails(p) PROVE Keeps(r, m)'
  BY <1>11 DEF NoConnection, QueryFails, EndRun
<1>12. CASE CoreCrash
  BY <1>12 DEF CoreCrash
<1>13. ASSUME NEW o \in HoldOrgs, DeleteHoldItems(o), UNCHANGED <<gone, purgeVars>>
       PROVE  Keeps(r, m)'
  BY <1>13 DEF DeleteHoldItems, ItemsOf
<1>14. ASSUME NEW o \in HoldOrgs, DeleteHolds(o), UNCHANGED <<gone, purgeVars>>
       PROVE  Keeps(r, m)'
  <2>1. CASE OrgOf[r] = o
    BY <1>14, <2>1 DEF DeleteHolds
  <2>2. CASE OrgOf[r] # o
    BY <1>14, <2>2 DEF DeleteHolds, ItemsOf
  <2> QED BY <2>1, <2>2
<1>15. \/ UNCHANGED <<holds, items, stripped, gone, purgeVars>>
       \/ /\ UNCHANGED <<gone, purgeVars>>
          /\ \/ \E s \in Requests : \/ InsertHold(s) \/ InsertItems(s) \/ ReleaseHold(s)
                                    \/ \E n \in Messages : ApplyHold(s, n)
             \/ \E o \in HoldOrgs : DeleteHoldItems(o) \/ DeleteHolds(o)
       \/ \E p \in Purgers : PurgeRun(p)
       \/ \E p \in Purgers : NoConnection(p) \/ QueryFails(p) \/ PurgeFails(p)
       \/ CoreCrash
  BY DEF Next, Fault, HoldHandler, CheckName, HoldRefused, FindHits, CreateStops, DeleteStops,
         PutBlob, Index, IndexFails, Expire, vars
<1> QED BY <1>1, <1>2, <1>3, <1>4, <1>5, <1>6, <1>7, <1>8, <1>9, <1>10, <1>11, <1>12,
           <1>13, <1>14, <1>15 DEF PurgeRun

(* A hold keeps its mail from the next reading of the holds on, for as     *)
(* long as it is active and the deletion of its organisation has not taken *)
(* its items.                                                              *)
THEOREM ActiveHoldsKeep == Spec => ActiveHoldKeeps
<1> SUFFICES ASSUME NEW r \in Requests, NEW m \in Messages
             PROVE  Spec => [](holds[r] = "active"
                                 /\ (<<r, m>> \in items \/ m \in RawMatches[r])
                                 /\ m \notin gone /\ Quiet
                               => [](holds[r] = "active" /\ (m \in RawMatches[r] \/ <<r, m>> \notin stripped)
                                     => m \notin gone))
  BY DEF ActiveHoldKeeps
<1>1. holds[r] = "active" /\ (<<r, m>> \in items \/ m \in RawMatches[r])
        /\ m \notin gone /\ Quiet
      => Keeps(r, m)
  BY DEF Quiet, Keeps, Covered
<1>2. TypeOK /\ OnceInv /\ Keeps(r, m) /\ [Next]_vars => Keeps(r, m)'
  BY KeepsStep
<1>3. Keeps(r, m) => (holds[r] = "active" /\ (m \in RawMatches[r] \/ <<r, m>> \notin stripped)
                        => m \notin gone)
  BY DEF Keeps, Covered
<1>4. Init => OnceInv
  BY DEF Init, HoldInit, OnceInv
<1>5. Spec => []TypeOK /\ []OnceInv /\ [][Next]_vars
  BY <1>4, TypeInit, TypeStep, OnceStep, PTL DEF Spec
<1> QED BY <1>1, <1>2, <1>3, <1>5, PTL

(* The two ways of looking for what a hold asks for are the weak point: if *)
(* the account check of the worker (retention_worker.py 33-36, 62) selects *)
(* at least what the search of the hold selects (admin.py 341-372), what   *)
(* is shown as held is kept, also when items were never inserted or were   *)
(* deleted.  The two differ for a header with a display name, for several  *)
(* recipients in To, and for criteria other than from and to.              *)
THEOREM AgreeingChecksKeep ==
  ASSUME \A r \in Requests : Matches[r] \subseteq RawMatches[r]
  PROVE  Spec => ShownHoldKeeps
<1> SUFFICES ASSUME NEW r \in Requests, NEW m \in Messages
             PROVE  Spec => [](holds[r] = "active" /\ m \in Matches[r] /\ m \notin gone /\ Quiet
                               => [](holds[r] = "active" => m \notin gone))
  BY DEF ShownHoldKeeps
<1>1. Spec => [](holds[r] = "active" /\ (<<r, m>> \in items \/ m \in RawMatches[r])
                   /\ m \notin gone /\ Quiet
                 => [](holds[r] = "active" /\ (m \in RawMatches[r] \/ <<r, m>> \notin stripped)
                       => m \notin gone))
  BY ActiveHoldsKeep DEF ActiveHoldKeeps
<1>2. CASE m \in RawMatches[r]
  BY <1>1, <1>2, PTL
<1>3. CASE m \notin RawMatches[r]
  <2>1. ~ (m \in Matches[r])
    BY <1>3
  <2> QED BY <2>1, PTL
<1> QED BY <1>2, <1>3

-----------------------------------------------------------------------------
(* What a purge has read about holds may be old, but it was true: an item  *)
(* is there or was taken by a deletion, and a hold, once inserted, was or  *)
(* is active.                                                              *)
Excused(m) == \/ Held(m) \/ \E r \in Requests : <<r, m>> \in stripped
              \/ \E r \in Requests : holds[r] # "none" /\ m \in RawMatches[r]

ReadingsAreExcused == \A p \in Purgers : \A m \in heldIds[p] \cup heldRaw[p] : Excused(m)

SpareInv == IsFiniteSet(docs) /\ ReadingsAreExcused

LEMMA ExcusedStays ==
  ASSUME TypeOK, items \cup stripped \subseteq items' \cup stripped', NEW m,
         \A r \in Requests : holds[r] # "none" => holds'[r] # "none"
  PROVE  Excused(m) => Excused(m)'
BY DEF Excused, Held

(* Nothing takes an item or a hold away without a trace. *)
LEMMA HoldsStay ==
  ASSUME TypeOK, [Next]_vars
  PROVE  /\ items \cup stripped \subseteq items' \cup stripped'
         /\ \A r \in Requests : holds[r] # "none" => holds'[r] # "none"
<1> USE DEF TypeOK, HoldTypeOK, deleteVars
<1>1. CASE UNCHANGED <<items, stripped, holds>>
  BY <1>1
<1>2. ASSUME NEW s \in Requests, InsertHold(s) \/ ReleaseHold(s)
      PROVE  /\ items \cup stripped \subseteq items' \cup stripped'
             /\ \A r \in Requests : holds[r] # "none" => holds'[r] # "none"
  BY <1>2 DEF InsertHold, ReleaseHold
<1>3. CASE items \subseteq items' /\ UNCHANGED <<stripped, holds>>
  BY <1>3
<1>5. ASSUME NEW o \in HoldOrgs, DeleteHoldItems(o) \/ DeleteHolds(o)
      PROVE  /\ items \cup stripped \subseteq items' \cup stripped'
             /\ \A r \in Requests : holds[r] # "none" => holds'[r] # "none"
  BY <1>5 DEF DeleteHoldItems, DeleteHolds
<1>4. \/ UNCHANGED <<items, stripped, holds>>
      \/ \E s \in Requests : InsertHold(s) \/ ReleaseHold(s)
      \/ items \subseteq items' /\ UNCHANGED <<stripped, holds>>
      \/ \E o \in HoldOrgs : DeleteHoldItems(o) \/ DeleteHolds(o)
  BY DEF Next, Fault, HoldHandler, CheckName, HoldRefused, DeleteStops, FindHits, CreateStops, InsertItems, ApplyHold,
         PutBlob, Index, IndexFails, Expire, PurgeRun, ReadPolicies, ReadHeld, ReadAccounts,
         Purge, NoConnection, QueryFails, PurgeFails, CoreCrash, holdVars, vars
<1> QED BY <1>1, <1>2, <1>3, <1>4, <1>5

LEMMA SpareStep == TypeOK /\ SpareInv /\ [Next]_vars => SpareInv'
<1> SUFFICES ASSUME TypeOK, SpareInv, [Next]_vars PROVE SpareInv'
  OBVIOUS
<1>1. IsFiniteSet(docs')
  <2>1. (\E m : docs' = docs \cup {m}) \/ docs' \subseteq docs
    BY DEF Next, Fault, HoldHandler, CheckName, InsertHold, FindHits, InsertItems, ReleaseHold,
           HoldRefused, DeleteHoldItems, DeleteHolds, DeleteStops, ApplyHold, CreateStops, PutBlob, Index, IndexFails, Expire, PurgeRun, ReadPolicies,
           ReadHeld, ReadAccounts, Purge, NoConnection, QueryFails, PurgeFails, CoreCrash, vars
  <2> QED BY <2>1, FS_AddElement, FS_Subset DEF SpareInv
<1>2. \A m : Excused(m) => Excused(m)'
  BY HoldsStay, ExcusedStays
<1>3. ReadingsAreExcused'
  <2>1. ASSUME NEW p \in Purgers, ReadHeld(p) PROVE ReadingsAreExcused'
    <3>1. /\ heldIds' = [heldIds EXCEPT ![p] = {m \in Messages : Held(m)}]
          /\ heldRaw' = heldRaw
      BY <2>1 DEF ReadHeld
    <3>2. \A m \in Messages : Held(m) => Excused(m)
      BY DEF Excused
    <3> QED BY <1>2, <3>1, <3>2 DEF ReadingsAreExcused, SpareInv, TypeOK
  <2>2. ASSUME NEW p \in Purgers, ReadAccounts(p) PROVE ReadingsAreExcused'
    <3>1. /\ heldIds' = heldIds
          /\ heldRaw' = [heldRaw EXCEPT ![p] =
               UNION {RawMatches[r] : r \in {s \in Requests : holds[s] = "active"}}]
      BY <2>2 DEF ReadAccounts
    <3>2. \A m \in UNION {RawMatches[r] : r \in {s \in Requests : holds[s] = "active"}} :
            Excused(m)
      BY DEF Excused
    <3> QED BY <1>2, <3>1, <3>2 DEF ReadingsAreExcused, SpareInv, TypeOK
  <2>3. CASE UNCHANGED <<heldIds, heldRaw>>
    BY <1>2, <2>3 DEF ReadingsAreExcused, SpareInv
  <2>4. CASE \E p \in Purgers : EndRun(p)
    BY <1>2, <2>4 DEF EndRun, ReadingsAreExcused, SpareInv, TypeOK
  <2>5. CASE CoreCrash
    BY <2>5 DEF CoreCrash, ReadingsAreExcused
  <2>6. \/ UNCHANGED <<heldIds, heldRaw>>
        \/ \E p \in Purgers : ReadHeld(p) \/ ReadAccounts(p) \/ EndRun(p)
        \/ CoreCrash
    BY DEF Next, Fault, HoldHandler, PutBlob, Index, IndexFails, Expire, PurgeRun, ReadPolicies,
           Purge, NoConnection, QueryFails, PurgeFails, CoreCrash, purgeVars, vars
  <2> QED BY <2>1, <2>2, <2>3, <2>4, <2>5, <2>6
<1> QED BY <1>1, <1>3 DEF SpareInv

(* As long as a page holds them all, every expired document is on it. *)
LEMMA PageOfAll ==
  ASSUME TypeOK, IsFiniteSet(docs), Cardinality(Expired) <= Limit
  PROVE  Candidates = Expired
<1>1. IsFiniteSet(Expired)
  BY FS_Subset DEF Expired
<1>2. ASSUME NEW m \in Expired
      PROVE  Cardinality({n \in Expired : Rank[n] > Rank[m]}) < Limit
  <2> DEFINE newer == {n \in Expired : Rank[n] > Rank[m]}
  <2>1. m \in Messages /\ Rank[m] \in Nat
    BY RetentionAssumption DEF TypeOK, Expired
  <2>2. newer \subseteq Expired /\ m \notin newer
    BY <2>1
  <2>3. newer # Expired
    BY <2>2
  <2> HIDE DEF newer
  <2>4. Cardinality(newer) < Cardinality(Expired) /\ Cardinality(newer) \in Nat
        /\ Cardinality(Expired) \in Nat
    BY <1>1, <2>2, <2>3, FS_Subset, FS_CardinalityType
  <2>5. Cardinality(newer) < Limit
    BY <2>4, RetentionAssumption
  <2> QED BY <2>5 DEF newer
<1> QED BY <1>2 DEF Candidates

(* Every expired document that a purge without failures leaves is excused. *)
SparesNoOther ==
  \A p \in Purgers : Purge(p) /\ Cardinality(Expired) <= Limit =>
    \A m \in Expired : m \in docs' => Excused(m)

(* As long as the expired mail fits into one page of hits, a purge that    *)
(* does not fail removes all of it but what has an item of a hold or the   *)
(* address of one, active or released since it was read, for any number of *)
(* purges, holds and crashes: stale readings never spare mail that no hold *)
(* has ever asked for (retention_worker.py 22-72).                         *)
THEOREM PurgesSpareNoOther == Spec => [][SparesNoOther]_vars
<1>1. Init => SpareInv
  BY FS_EmptySet DEF Init, SpareInv, ReadingsAreExcused
<1>2. TypeOK /\ SpareInv => SparesNoOther
  <2> SUFFICES ASSUME TypeOK, SpareInv, NEW p \in Purgers, Purge(p),
                      Cardinality(Expired) <= Limit, NEW m \in Expired, m \in docs'
               PROVE  Excused(m)
    BY DEF SparesNoOther
  <2>1. m \in Candidates
    BY PageOfAll DEF SpareInv
  <2>2. m \in heldIds[p] \cup heldRaw[p]
    BY <2>1 DEF Purge, Victims
  <2> QED BY <2>2 DEF SpareInv, ReadingsAreExcused
<1>3. TypeOK /\ SpareInv /\ [Next]_vars => [SparesNoOther]_vars
  BY <1>2
<1> QED BY <1>1, <1>3, SpareStep, TypeInit, TypeStep, PTL DEF Spec
=============================================================================
