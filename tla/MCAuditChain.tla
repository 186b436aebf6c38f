----------------------------- MODULE MCAuditChain -----------------------------
(* Small instances of the audit log for TLC. *)
EXTENDS AuditChain, FiniteSetsExt, TLC

CONSTANTS MaxRows, MaxHash, Deleted, login, export, pLogin, pExport

(* What create_audit_log writes is hashed as it is stored. *)
MCPayloads == {pLogin, pExport}
MCHashed == (login :> pLogin) @@ (export :> pExport)
MCReread == (login :> pLogin) @@ (export :> pExport)

(* Bounds.  Both organisations have MaxRows rows together, one of them     *)
(* changed.  Only the organisations in Deleted are deleted.  An append     *)
(* that outlives a deletion makes hashes longer than the log: what a       *)
(* writer has read is at most MaxHash long.                                *)
FewRows == /\ MapThenSumSet(LAMBDA o : Len(log'[o]), Orgs) <= MaxRows
           /\ MapThenSumSet(LAMBDA o : edited'[o], Orgs) <= 1
           /\ \A w \in Writers : Len(last'[w]) <= MaxHash
           /\ \A o \in Orgs \ Deleted : o \in orgs' /\ Len(log[o]) <= Len(log'[o])
=============================================================================
