------------------------------ MODULE Retention ------------------------------
(***************************************************************************)
(* The retention worker (core/retention_worker.py) against legal holds and *)
(* against mails that are still being uploaded.                            *)
(*                                                                         *)
(* purge_expired_messages runs in the event loop of the core, once a day   *)
(* and whenever an administrator asks for it.  It awaits only its three    *)
(* queries; from the last one on it works on what it has read, and no      *)
(* other coroutine of the core runs until it is done.                      *)
(*                                                                         *)
(* One retention policy with one domain is modelled, of an organisation    *)
(* that stays, and Messages are the mails of that domain.  A search        *)
(* returns the Limit newest hits (1000 in the code); Rank orders the mails *)
(* by date_timestamp, and a mail whose Date header is missing or cannot be *)
(* parsed has date_timestamp 0.                                            *)
(***************************************************************************)
EXTENDS LegalHolds

CONSTANTS
  Purgers,    \* the worker and the manual runs
  worker,
  Undated,    \* the messages with date_timestamp 0
  Rank,       \* Rank[m]: larger for a newer date_timestamp
  Limit,
  MaxSends,   \* bound: how often the sync worker posts a message
  MaxFaults   \* bound: failures

ASSUME RetentionAssumption ==
  /\ worker \in Purgers /\ Undated \subseteq Messages
  /\ Rank \in [Messages -> Nat]
  /\ Limit \in Nat /\ MaxSends \in Nat /\ MaxFaults \in Nat

VARIABLES
  blobs,      \* the messages in the bucket
  sends,      \* sends[m]: how often m was posted
  uploading,  \* uploading[m]: handlers of m between their two writes
  old,        \* the messages past the retention period
  purge,      \* purge[p]: where a run of purge_expired_messages is
  heldIds,    \* heldIds[p]: held_ids
  heldRaw,    \* heldRaw[p]: the messages whose headers are in held_emails
  faults,
  gone        \* history: the messages a purge has removed

ingestVars == <<sends, uploading>>
purgeVars == <<purge, heldIds, heldRaw>>
vars == <<docs, holdVars, blobs, ingestVars, old, purgeVars, faults, gone>>

TypeOK ==
  /\ HoldTypeOK
  /\ docs \subseteq Messages /\ blobs \subseteq Messages
  /\ old \subseteq Messages /\ gone \subseteq Messages
  /\ sends \in [Messages -> Nat] /\ uploading \in [Messages -> Nat]
  /\ purge \in [Purgers -> {"idle", "policies", "held", "ready", "dead"}]
  /\ heldIds \in [Purgers -> SUBSET Messages]
  /\ heldRaw \in [Purgers -> SUBSET Messages]
  /\ faults \in Nat

Init ==
  /\ HoldInit
  /\ docs = {} /\ blobs = {} /\ old = {} /\ gone = {} /\ faults = 0
  /\ sends = [m \in Messages |-> 0] /\ uploading = [m \in Messages |-> 0]
  /\ purge = [p \in Purgers |-> "idle"]
  /\ heldIds = [p \in Purgers |-> {}] /\ heldRaw = [p \in Purgers |-> {}]

-----------------------------------------------------------------------------
(* sync_messages as far as the two stores are concerned: the blob, then    *)
(* the organisation query, then the document.                              *)
PutBlob(m) ==
  /\ sends[m] < MaxSends
  /\ sends' = [sends EXCEPT ![m] = @ + 1]
  /\ uploading' = [uploading EXCEPT ![m] = @ + 1]
  /\ blobs' = blobs \cup {m}
  /\ UNCHANGED <<docs, old, faults, gone>> /\ UNCHANGED holdVars /\ UNCHANGED purgeVars

Index(m) ==
  /\ uploading[m] > 0
  /\ uploading' = [uploading EXCEPT ![m] = @ - 1]
  /\ docs' = docs \cup {m}
  /\ UNCHANGED <<blobs, sends, old, faults, gone>>
  /\ UNCHANGED holdVars /\ UNCHANGED purgeVars

(* The document cannot be written: "Error indexing documents". *)
IndexFails(m) ==
  /\ uploading[m] > 0 /\ faults < MaxFaults
  /\ uploading' = [uploading EXCEPT ![m] = @ - 1]
  /\ faults' = faults + 1
  /\ UNCHANGED <<docs, blobs, sends, old, gone>>
  /\ UNCHANGED holdVars /\ UNCHANGED purgeVars

(* The retention period of m ends. *)
Expire(m) ==
  /\ m \notin old
  /\ old' = old \cup {m}
  /\ UNCHANGED <<docs, blobs, faults, gone>>
  /\ UNCHANGED holdVars /\ UNCHANGED ingestVars /\ UNCHANGED purgeVars

-----------------------------------------------------------------------------
(* A run is over, and what it has read with it. *)
EndRun(p) == /\ purge' = [purge EXCEPT ![p] = "idle"]
             /\ heldIds' = [heldIds EXCEPT ![p] = {}]
             /\ heldRaw' = [heldRaw EXCEPT ![p] = {}]

(* SELECT domains, retention_days FROM retention_policies. *)
ReadPolicies(p) ==
  /\ purge[p] = "idle"
  /\ purge' = [purge EXCEPT ![p] = "policies"]
  /\ UNCHANGED <<docs, blobs, old, heldIds, heldRaw, faults, gone>>
  /\ UNCHANGED holdVars /\ UNCHANGED ingestVars

(* get_db_connection is outside the try: the exception ends start_worker,  *)
(* or is the 500 of a manual run.                                          *)
NoConnection(p) ==
  /\ purge[p] = "idle" /\ faults < MaxFaults
  /\ purge' = [purge EXCEPT ![p] = IF p = worker THEN "dead" ELSE "idle"]
  /\ faults' = faults + 1
  /\ UNCHANGED <<docs, blobs, old, heldIds, heldRaw, gone>>
  /\ UNCHANGED holdVars /\ UNCHANGED ingestVars

(* SELECT message_id FROM legal_hold_items. *)
ReadHeld(p) ==
  /\ purge[p] = "policies"
  /\ purge' = [purge EXCEPT ![p] = "held"]
  /\ heldIds' = [heldIds EXCEPT ![p] = {m \in Messages : Held(m)}]
  /\ UNCHANGED <<docs, blobs, old, heldRaw, faults, gone>>
  /\ UNCHANGED holdVars /\ UNCHANGED ingestVars

(* SELECT filter_criteria FROM legal_holds WHERE active = TRUE. *)
ReadAccounts(p) ==
  /\ purge[p] = "held"
  /\ purge' = [purge EXCEPT ![p] = "ready"]
  /\ heldRaw' = [heldRaw EXCEPT ![p] =
       UNION {RawMatches[r] : r \in {s \in Requests : holds[s] = "active"}}]
  /\ UNCHANGED <<docs, blobs, old, heldIds, faults, gone>>
  /\ UNCHANGED holdVars /\ UNCHANGED ingestVars

(* A query raises: "Purge Error". *)
QueryFails(p) ==
  /\ purge[p] \in {"policies", "held"} /\ faults < MaxFaults
  /\ EndRun(p)
  /\ faults' = faults + 1
  /\ UNCHANGED <<docs, blobs, old, gone>>
  /\ UNCHANGED holdVars /\ UNCHANGED ingestVars

(* domains = ... AND date_timestamp < cutoff_ts. *)
Expired == docs \cap (old \cup Undated)

(* Mutant: the page begins with the oldest hit. *)
CandidatesOldest ==
  {m \in Expired : Cardinality({n \in Expired : Rank[n] < Rank[m]}) < Limit}

Candidates ==
  {m \in Expired : Cardinality({n \in Expired : Rank[n] > Rank[m]}) < Limit}

(* Mutant: "and" for "or": only what both checks skip is skipped. *)
VictimsBoth(p) == Candidates \ (heldIds[p] \cap heldRaw[p])

(* Candidates that neither protection check skips. *)
Victims(p) == Candidates \ (heldIds[p] \cup heldRaw[p])

(* Mutant: the blobs are not deleted. *)
PurgeDocuments(p) ==
  /\ purge[p] = "ready"
  /\ EndRun(p)
  /\ docs' = docs \ Victims(p) /\ blobs' = blobs
  /\ gone' = gone \cup Victims(p)
  /\ UNCHANGED <<old, faults>>
  /\ UNCHANGED holdVars /\ UNCHANGED ingestVars

(* The loop over the candidates: the document, then the blob. *)
Purge(p) ==
  /\ purge[p] = "ready"
  /\ EndRun(p)
  /\ docs' = docs \ Victims(p)
  /\ blobs' = blobs \ Victims(p)
  /\ gone' = gone \cup Victims(p)
  /\ UNCHANGED <<old, faults>>
  /\ UNCHANGED holdVars /\ UNCHANGED ingestVars

(* Mutant: the blob first. *)
PurgeFailsBlobFirst(p) ==
  /\ purge[p] = "ready" /\ faults < MaxFaults
  /\ EndRun(p)
  /\ faults' = faults + 1
  /\ \E B \in SUBSET Victims(p) : \E D \in SUBSET B :
       /\ docs' = docs \ D /\ blobs' = blobs \ B /\ gone' = gone \cup D
  /\ UNCHANGED old
  /\ UNCHANGED holdVars /\ UNCHANGED ingestVars

(* The same with failures: a document that is not deleted keeps its blob   *)
(* ("Failed to purge"), a blob that is not deleted is forgotten, as the    *)
(* result of delete_blob is not looked at.                                 *)
PurgeFails(p) ==
  /\ purge[p] = "ready" /\ faults < MaxFaults
  /\ EndRun(p)
  /\ faults' = faults + 1
  /\ \E D \in SUBSET Victims(p) : \E B \in SUBSET D :
       /\ docs' = docs \ D /\ blobs' = blobs \ B /\ gone' = gone \cup D
  /\ UNCHANGED old
  /\ UNCHANGED holdVars /\ UNCHANGED ingestVars

(* The core dies and is started again, the worker with it. *)
CoreCrash ==
  /\ faults < MaxFaults
  /\ faults' = faults + 1
  /\ uploading' = [m \in Messages |-> 0]
  /\ purge' = [p \in Purgers |-> "idle"]
  /\ heldIds' = [p \in Purgers |-> {}] /\ heldRaw' = [p \in Purgers |-> {}]
  /\ hits' = [r \in Requests |-> {}]
  /\ creating' = [r \in Requests |-> IF creating[r] = "new" THEN "new" ELSE "ended"]
  /\ deleting' = {}
  /\ UNCHANGED <<docs, holds, items, stripped, blobs, sends, old, gone>>

-----------------------------------------------------------------------------
PurgeRun(p) == ReadPolicies(p) \/ ReadHeld(p) \/ ReadAccounts(p) \/ Purge(p)

Fault == \/ CoreCrash
         \/ \E p \in Purgers : NoConnection(p) \/ QueryFails(p) \/ PurgeFails(p)
         \/ \E m \in Messages : IndexFails(m)
         \/ /\ faults < MaxFaults /\ faults' = faults + 1
            /\ \/ \E r \in Requests : CreateStops(r)
               \/ \E o \in HoldOrgs : DeleteStops(o)
            /\ UNCHANGED <<blobs, old, gone>> /\ UNCHANGED ingestVars /\ UNCHANGED purgeVars

Next ==
  \/ HoldHandler /\ UNCHANGED <<blobs, ingestVars, old, purgeVars, faults, gone>>
  \/ \E m \in Messages : PutBlob(m) \/ Index(m) \/ Expire(m)
  \/ \E p \in Purgers : PurgeRun(p)
  \/ Fault

Spec == Init /\ [][Next]_vars

(* start_worker runs the purge again and again, and a suspended handler    *)
(* is resumed.                                                             *)
FairSpec == /\ Spec /\ WF_vars(PurgeRun(worker))
            /\ \A m \in Messages : WF_vars(Index(m))

-----------------------------------------------------------------------------
Quiet == \A p \in Purgers : purge[p] \in {"idle", "policies", "dead"}

(* A hold that is in force before a purge reads the holds keeps the mail   *)
(* for as long as it is active: every mail it has an item of, and every    *)
(* mail whose raw header is its address, also if that one comes later.     *)
(* Except the mails it has only items of, once delete_organization has     *)
(* taken these: the hold may outlive them, active, for a moment or, when   *)
(* the deletion stops there, for good.                                     *)
ActiveHoldKeeps ==
  \A r \in Requests, m \in Messages :
    [](holds[r] = "active" /\ (<<r, m>> \in items \/ m \in RawMatches[r])
         /\ m \notin gone /\ Quiet
       => [](holds[r] = "active" /\ (m \in RawMatches[r] \/ <<r, m>> \notin stripped)
             => m \notin gone))

(* As long as nothing has failed, a purged mail is gone from the bucket as *)
(* well, unless it is just being uploaded again ("PERMANENT DELETE").      *)
PurgedIsGone ==
  faults = 0 => \A m \in gone : m \in blobs => m \in docs \/ uploading[m] > 0

(* A document without its blob is the trace of a purge between the two     *)
(* writes of an upload, and nothing else.                                  *)
DanglingIsPurged == \A m \in docs : m \in blobs \/ m \in gone

Unprotected(m) ==
  /\ ~ Held(m)
  /\ \A r \in Requests : holds[r] = "active" => m \notin RawMatches[r]

(* The page of hits is full of newer mail that no purge removes. *)
Crowded(m) ==
  Cardinality({n \in Expired : Rank[n] > Rank[m] /\ ~ Unprotected(n)}) >= Limit

(* Mail past its retention period is removed, or comes under a hold:       *)
(* "Identifies and deletes messages past their retention period (if not    *)
(* held)" (retention_worker.py:13).  Two things can prevent it for ever:   *)
(* a connection that start_worker does not get (NoConnection), and newer   *)
(* held mail that fills the one page of hits the purge looks at.           *)
ExpiredIsPurged ==
  \A m \in Messages :
    m \in docs /\ m \in old
    ~> m \notin docs \/ ~ Unprotected(m) \/ Crowded(m) \/ purge[worker] = "dead"

(* PROPERTY.  What is shown as held is not purged: "Get all Held Message   *)
(* IDs (Total Protection)" (retention_worker.py:25).  Of a hold that was   *)
(* in force before the purge read the holds, also for a mail that came     *)
(* after the hold and has no item.                                         *)
ShownHoldKeeps ==
  \A r \in Requests, m \in Messages :
    [](holds[r] = "active" /\ m \in Matches[r] /\ m \notin gone /\ Quiet
       => [](holds[r] = "active" => m \notin gone))

(* Only mail past its retention period is purged, or mail without a date   *)
(* the core can read: that one at once, however new it is.                 *)
OnlyOldIsPurged == gone \subseteq old \cup Undated

(* PROPERTY.  A purge removes what it is meant to, and all of it. *)
PurgesAreSound == PurgedIsGone /\ OnlyOldIsPurged
=============================================================================
