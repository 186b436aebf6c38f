----------------------------- MODULE MCCaseReview -----------------------------
(* Small instances of the case file for TLC. *)
EXTENDS CaseReview, TLC

CONSTANTS o1, o2, c1, c2, m1, m2

(* No step depends on which of the ids, mails or handlers it is about. *)
MCSymmetry == Permutations(Requests) \cup Permutations(Items) \cup Permutations(Orgs)
               \cup Permutations(Cases) \cup Permutations(Mails)

(* Audit rows for at most one organisation at a time, and always a mail    *)
(* that can be exported.                                                   *)
Bounded == Cardinality(logged') <= 1 /\ archived' # {}
=============================================================================
