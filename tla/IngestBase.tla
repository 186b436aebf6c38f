----------------------------- MODULE IngestBase -----------------------------
(***************************************************************************)
(* What every part of the ingestion path talks about: the journalled mails,*)
(* the attachment blobs they carry, the identifiers the agent draws for    *)
(* its delivery attempts, and the budget of faults a behaviour may spend.  *)
(*                                                                         *)
(* A blob stands for its SHA-256: two attachments with equal bytes are the *)
(* same element of Blobs, which is what content addressing means here.     *)
(***************************************************************************)
EXTENDS Naturals, FiniteSets

CONSTANTS
  Mails,        \* the mails the mail server journals to the agent
  Blobs,        \* distinct attachment contents
  Ids,          \* the uuid4 values the agent may draw (agent.py:34)
  Attachments,  \* Attachments[m]: the blobs mail m carries
  NoMail, NoBlob, NoId,
  FaultKinds,   \* which faults the environment may cause
  MaxFaults     \* bound: how many faults a behaviour may contain

ASSUME AttachmentsAssumption == Attachments \in [Mails -> SUBSET Blobs]
ASSUME NullsAssumption == NoMail \notin Mails /\ NoBlob \notin Blobs /\ NoId \notin Ids
ASSUME MaxFaultsAssumption == MaxFaults \in Nat
ASSUME IdsAssumption == IsFiniteSet(Ids)   \* 122 random bits

VARIABLES
  faults,       \* how many faults have happened so far
  swallowed     \* history: how many of them the core has answered 200

faultVars == <<faults, swallowed>>

FaultTypeOK == faults \in 0..MaxFaults /\ swallowed \in 0..faults
FaultInit == faults = 0 /\ swallowed = 0

(* A fault of kind k happens; every faulty action of the path spends one. *)
Spend(k) == k \in FaultKinds /\ faults < MaxFaults /\ faults' = faults + 1

(* Whoever is told notices it, or nobody does: the failure is printed and *)
(* the handler goes on as if nothing had happened.                        *)
Fault(k) == Spend(k) /\ UNCHANGED swallowed
Swallow(k) == Spend(k) /\ swallowed' = swallowed + 1

NoFault == UNCHANGED faultVars
=============================================================================
