----------------------------- MODULE MCRetention -----------------------------
(* Small instances of retention and legal holds for TLC. *)
EXTENDS Retention, TLC

CONSTANTS m1, m2, r1, n1, o1

(* Bounds: only m1 may be posted more than once, and an organisation is    *)
(* only deleted when it has holds.                                         *)
FewSteps ==
  /\ \A m \in Messages \ {m1} : sends'[m] <= 1
  /\ \A o \in deleting' :
       \E r \in Requests : OrgOf[r] = o /\ holds'[r] \in {"active", "released"}

MCRank == [m \in Messages |-> IF m = m1 THEN 1 ELSE 2]

(* Every request asks for the same name in the same organisation. *)
MCOneName == [r \in Requests |-> n1]
MCOneOrg == [r \in Requests |-> o1]

(* m1 has the bare address in its header, m2 "Name <address>".             *)
MCMatchesAll == [r \in Requests |-> Messages]
MCRawOne == [r \in Requests |-> {m1}]
=============================================================================
