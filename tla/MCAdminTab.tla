----------------------------- MODULE MCAdminTab -----------------------------
(* root administers the system, ann the organisation o1; dan, of o2, and   *)
(* eve are accounts that do not sign in here.                              *)
EXTENDS AdminTab, TLC

CONSTANTS root, ann, o1, o2, ro1, ro2, agent, uroot, uann, udan, ueve,
          pglobal, pown, hold, holdoff, c1, c2, i1, i2, i3, t1, t2

MCRoleOf == (root :> "super_admin") @@ (ann :> "client_admin")
MCOrgOf == (root :> o2) @@ (ann :> o1)
MCAccount == (root :> uroot) @@ (ann :> uann)
MCKind == [r \in Rows |->
  CASE r \in {ro1, ro2} -> "org"
    [] r = agent -> "agent"
    [] r \in {uroot, uann, udan, ueve} -> "user"
    [] r \in {pglobal, pown} -> "policy"
    [] r \in {hold, holdoff} -> "hold"
    [] OTHER -> "case"]
MCRowOrg == [r \in Rows |->
  CASE r \in {ro2, uroot, agent, udan, c2} -> o2
    [] r = pglobal -> NoOrg
    [] OTHER -> o1]
MCReleased == [r \in Rows |-> IF r = hold THEN holdoff ELSE r]
MCCaseOf == [i \in Items |-> IF i = i3 THEN c2 ELSE c1]
MCLabels == (i1 :> {t1, t2}) @@ (i2 :> {}) @@ (i3 :> {})
MCFirstFile ==
  (i1 :> [tags |-> {}, who |-> NoRow, status |-> "PENDING"])
    @@ (i2 :> [tags |-> {}, who |-> uann, status |-> "PENDING"])
    @@ (i3 :> [tags |-> {}, who |-> uann, status |-> "PENDING"])
=============================================================================
