------------------------------ MODULE AdminTab ------------------------------
(***************************************************************************)
(* A browser tab on the administration pages: the session, the lists and   *)
(* the boards of cases, with another administrator and another reviewer    *)
(* elsewhere.  A page lives while its route is shown; its requests go on   *)
(* without it.  (The other tabs of the browser are in AuditorTab.)         *)
(***************************************************************************)
EXTENDS CaseBoard

vars == <<sessionVars, listVars, boardVars>>

TypeOK == SessionTypeOK /\ ListTypeOK /\ BoardTypeOK
          /\ tail \subseteq Calls /\ Cardinality(tail) <= 1

Init == SessionInit /\ ListInit /\ BoardInit

(* The route at' is mounted for u with the parameter id, and the page      *)
(* shown so far goes.                                                      *)
Turn(id, u, afterLoad) ==
  /\ MountLists(id, u, afterLoad) /\ LeaveLists(afterLoad)
  /\ MountBoard(id, u) /\ LeaveBoard

SignIn(u) ==
  /\ Account[u] \in db 
  /\ HandleLogin(u) /\ Turn(NoRow, u, FALSE)

SignOut == Logout /\ Turn(NoRow, NoUser, FALSE)

(* Links with a parameter: of the lists of holds and of cases. *)
PageLinks ==
  {<<"/admin/hold-view", h>> : h \in IF at = "/admin/holds" THEN lists["hold"] ELSE {}}
    \cup {<<"/admin/case-view", c>> : c \in IF at = "/admin/cases" THEN lists["case"] ELSE {}}
    \cup (IF OnCase THEN {<<"/admin/cases", NoRow>>} ELSE {})

Browse(r, id) ==
  /\ at # "/login"
  /\ <<r, id>> \in PageLinks \cup (SidebarLinks \X {NoRow})
  /\ Follow(r) /\ Turn(id, user, FALSE)

(* The page is loaded again, or another address (bound: from "/", or to    *)
(* "/"; the tiles of "/admin" are such links too).  Without its             *)
(* parameter the page of a hold or of a case asks for nothing.             *)
Load(r, id) ==
  /\ <<r, id>> = <<at, param>> \/ r = "/" \/ at \in {"/", "/admin"}
  /\ id \in CASE r = "/admin/hold-view" -> {NoRow} \cup {h \in Rows : Kind[h] = "hold"}
              [] r = "/admin/case-view" -> {NoRow} \cup {c \in Rows : Kind[c] = "case"}
              [] OTHER                  -> {NoRow}
  /\ FullLoad(r) /\ Turn(id, oaUser, TRUE)

(* The case is deleted: the router goes to the list of cases. *)
CaseDeleted ==
  /\ call # Idle /\ call.op = "deleteCase"
  /\ db' = Effect(call) /\ FileFollows
  /\ IF Ok(call)
     THEN /\ Follow("/admin/cases")
          /\ MountLists(NoRow, user, FALSE) /\ MountBoard(NoRow, user)
          /\ crossed' = {} /\ UNCHANGED tail
     ELSE /\ call' = Idle
          /\ UNCHANGED <<sessionVars, tail, lists, listLoading, fetches, param, blurred,
                         copy, info, boardLoading, boardAsk, picked, chosen, modal, edits,
                         crossed>>

(* The same when its page is gone: the tab is taken to the list of cases   *)
(* from wherever it is by now.                                             *)
LateDeletion(c) ==
  /\ c \in tail /\ c.op = "deleteCase"
  /\ tail' = {} /\ UNCHANGED <<user, oaUser>>
  /\ \/ /\ Ok(c) /\ at # "/admin/cases"
        /\ db' = Effect(c) /\ FileFollows
        /\ at' = "/admin/cases" /\ call = Idle /\ edits = {}
        /\ MountLists(NoRow, user, FALSE) /\ MountBoard(NoRow, user) /\ crossed' = {}
     \/ /\ Ok(c) => at = "/admin/cases"
        /\ db' = Effect(c) /\ FileFollows /\ blurred' = Kinds /\ crossed' = Items
        /\ UNCHANGED <<at, lists, listLoading, fetches, call, param, copy, info,
                       boardLoading, boardAsk, picked, chosen, modal, edits>>
     \/ /\ UNCHANGED <<at, db, listPageVars, boardVars>>

(* A step of the core on rows takes the items along. *)
OnLists ==
  /\ (ListUser /\ file = FirstFile) \/ ListCore   \* bound: items or rows change
  /\ FileFollows
  /\ crossed' = crossed \cup {i \in DOMAIN file : i \notin DOMAIN file' \/ file'[i] # file[i]}
  /\ UNCHANGED <<copy, info, boardLoading, boardAsk, picked, chosen, modal, edits>>

OnBoard == BoardUser \/ BoardCore

Next ==
  \/ \E u \in Users : SignIn(u)
  \/ SignOut
  \/ \E r \in Routes, id \in Rows \cup {NoRow} : Browse(r, id)
  \/ \E r \in Routes, id \in Rows \cup {NoRow} : Load(r, id)
  \/ CaseDeleted
  \/ \E c \in tail : LateDeletion(c)
  \/ OnLists \/ OnBoard

Spec == Init /\ [][Next]_vars

(* Fetches are settled, and reloads do not outrun every reply for ever. *)
FairSpec ==
  /\ Spec
  /\ WF_vars((\E f \in fetches : ListSettles(f)) /\ OnLists)
  /\ WF_vars((CallAnswered \/ CallFails) /\ OnLists)
  /\ WF_vars(BoardArrives \/ BoardFails)
  /\ WF_vars(\E e \in edits : e.op = "export" /\ EditSettles(e))

(* The page of a hold or of a case has no parameter to ask with. *)
AsksNothing == at \in {"/admin/hold-view", "/admin/case-view"} /\ param = NoRow

(* PROPERTY.  No page of a user stays at its spinner, and neither do the   *)
(* buttons "Releasing..." and "Starting...", whatever becomes of the       *)
(* requests (the finally blocks of the pages).  The exception: the page of *)
(* a hold or of a case loaded without ?id= sends no request and spins for  *)
(* ever (hold-view/client-page.tsx 34-38, case-view/client-page.tsx 40-52).*)
SpinnersEnd ==
  /\ listLoading /\ SignedIn ~> ~listLoading \/ ~SignedIn \/ AsksNothing
  /\ boardLoading /\ SignedIn ~> ~boardLoading \/ ~SignedIn \/ AsksNothing
  /\ (call # Idle /\ call.op = "release") ~> call = Idle
  /\ [op |-> "export"] \in edits ~> [op |-> "export"] \notin edits

-----------------------------------------------------------------------------
(* The writes of rows that end in a step, and who writes in it. *)
Ended == (IF call' = Idle THEN {call} \ {Idle} ELSE {}) \cup (tail \ tail')

Writers == {c.by : c \in Ended} \cup (IF edits \subseteq edits' THEN {} ELSE {user})

ItemsChanged ==
  {i \in Items : \/ (i \in DOMAIN file) # (i \in DOMAIN file')
                 \/ i \in DOMAIN file /\ file[i] # file'[i]}

(* What u may change of an item of another organisation: its status, when  *)
(* "/admin/review" shows it as assigned to u; and it loses its assignee    *)
(* with the account.                                                       *)
MayChange(i, u) ==
  /\ i \in DOMAIN file'
  /\ \/ /\ at = "/admin/review" /\ i \in DOMAIN copy /\ copy[i].who = Account[u]
        /\ file'[i] = [file[i] EXCEPT !.status = file'[i].status]
     \/ /\ file[i].who \in db \ db'
        /\ file'[i] = [file[i] EXCEPT !.who = NoRow]

(* PROPERTY.  A write of a client_admin, also one whose page is gone,      *)
(* changes no row outside the own organisation, a global rule shown on the *)
(* page included, whose removal the core then does not find                *)
(* (retention/page.tsx 77-85, admin.py 575-583).  Of items of another      *)
(* organisation's case it changes the status of those assigned to the      *)
(* user, which the core does not look into (review/page.tsx 39-47,         *)
(* cases.py 138-147), and the assignee when the account is deleted.        *)
WritesStayInOrg ==
  [][\A u \in Writers \cap Users : RoleOf[u] = "client_admin" =>
       /\ \A r \in (db \ db') \cup (db' \ db) : RowOrg[r] = OrgOf[u]
       /\ \A i \in ItemsChanged : RowOrg[CaseOf[i]] = OrgOf[u] \/ MayChange(i, u)]_vars
=============================================================================
