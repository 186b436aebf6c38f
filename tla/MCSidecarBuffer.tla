--------------------------- MODULE MCSidecarBuffer ---------------------------
(* Small instances of the agent for TLC. *)
EXTENDS SidecarBuffer, TLC

CONSTANTS m1, m2, b1

(* Both mails carry b1, so their first uses of it can race. *)
MCAttachments == (m1 :> {b1}) @@ (m2 :> {b1})

(* Symmetry is not sound for liveness.  Instead, with Ids = 1..n, the      *)
(* attempts draw their ids in increasing order: no step depends on which   *)
(* fresh id is drawn, so no behaviour is lost but for the names in it.     *)
LowestFirst ==
  \A i \in Ids : pc[i] = "idle" /\ pc'[i] # "idle" =>
    \A j \in 1..(i - 1) : pc[j] # "idle"
=============================================================================
