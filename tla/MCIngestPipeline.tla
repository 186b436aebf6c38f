--------------------------- MODULE MCIngestPipeline ---------------------------
(* Small instances of the whole ingestion path for TLC. *)
EXTENDS IngestPipeline, TLC

CONSTANTS m1, m2, b1

(* Two mails with the same attachment. *)
MCShared == (m1 :> {b1}) @@ (m2 :> {b1})

(* One mail with an attachment. *)
MCSingle == m1 :> {b1}

MCSymmetry == Permutations(Ids) \cup Permutations(Slots)

(* For liveness: fresh ids are drawn in increasing order, which loses no   *)
(* behaviour but for the names in it.                                      *)
LowestFirst ==
  \A i \in Ids : pc[i] = "idle" /\ pc'[i] # "idle" =>
    \A j \in 1..(i - 1) : pc[j] # "idle"
=============================================================================
