----------------------------- MODULE ListPages -----------------------------
(***************************************************************************)
(* The administration pages that show lists of rows of the core and change *)
(* them: "/admin" (organisations and agents, or the counts of one          *)
(* organisation), "/admin/users", "/admin/retention", "/admin/holds",      *)
(* "/admin/cases" and "/admin/hold-view", under src/ui/src/app/(dashboard). *)
(*                                                                         *)
(* Each page asks for its lists when it is mounted, and for the list again *)
(* after a write, without waiting for the answer.  A reply replaces the    *)
(* list whatever has been asked since.  What the core makes of a request   *)
(* and the arrival of its reply are one step.                              *)
(***************************************************************************)
EXTENDS UserSession

CONSTANTS
  Rows,        \* the rows that occur; one with another content is another row
  NoRow,
  Kind,        \* Kind[r]: the table of a row
  RowOrg,      \* its organisation (that of an organisation is itself),
  NoOrg,       \* NoOrg for the rules and the agents of nobody
  ClientAdmins, Auditors,  \* the rows of users, by role
  Released,    \* Released[h]: the row of a hold after its release (of itself)
  FirstRows,   \* the rows at the start
  OtherRows,   \* bound: the rows that somebody else may add
  MaxSame      \* bound: requests for one list in flight

Tables == {"org", "agent", "user", "policy", "hold", "case"}
Kinds  == Tables \cup {"stat", "detail"}   \* of lists
Scopes == Orgs \cup {NoOrg} \cup Rows

ASSUME RowsAssumption ==
  /\ Kind \in [Rows -> Tables] /\ RowOrg \in [Rows -> Orgs \cup {NoOrg}]
  /\ NoRow \notin Rows /\ NoOrg \notin Orgs /\ FirstRows \subseteq Rows
  /\ ClientAdmins \subseteq Rows /\ Auditors \subseteq Rows /\ OtherRows \subseteq Rows
  /\ \A r \in ClientAdmins \cup Auditors : Kind[r] = "user"
  /\ Released \in [Rows -> Rows]
  /\ \A r \in Rows : Kind[Released[r]] = Kind[r] /\ RowOrg[Released[r]] = RowOrg[r]
  /\ "/admin/cases" \in Routes
  /\ MaxSame \in Nat \ {0, 1}

VARIABLES
  db,          \* core: the rows that exist
  lists,       \* lists[k]: what the page shows (users, policies, holds, ...)
  listLoading, \* loading
  fetches,     \* the requests for lists in flight
  call,        \* the write under way (one at a time: bound)
  param,       \* the parameter id of the route, NoRow without one
  tail,        \* writes whose page is gone
  blurred      \* history: the lists whose replies may have passed each other,
               \* that failed, or that were changed by another than this page

listPageVars == <<lists, listLoading, fetches, call, param, blurred>>
listVars == <<db, tail, listPageVars>>

Idle == [op |-> "idle"]
Calls == [op : {"create", "delete", "release", "deleteCase"}, row : Rows, by : Users \cup {NoUser}]
Fetches == [n : 1..MaxSame, kind : Kinds, of : Scopes]

ListTypeOK ==
  /\ db \subseteq Rows
  /\ lists \in [Kinds -> SUBSET Rows]
  /\ listLoading \in BOOLEAN
  /\ fetches \subseteq Fetches
  /\ call \in Calls \cup {Idle}
  /\ param \in Rows \cup {NoRow}
  /\ blurred \subseteq Kinds

-----------------------------------------------------------------------------
Super(u) == u # NoUser /\ RoleOf[u] = "super_admin"

(* Without a user, and for a super_admin, requests carry no organisation.  *)
ScopeOf(u) == IF u = NoUser \/ Super(u) THEN NoOrg ELSE OrgOf[u]

(* The lists a page asks for in a render for u. *)
UsersLists(u) ==
  IF Super(u) THEN {[kind |-> "org", of |-> NoOrg], [kind |-> "user", of |-> NoOrg]}
  ELSE IF u # NoUser THEN {[kind |-> "user", of |-> OrgOf[u]]} ELSE {}

PolicyLists(u) == {[kind |-> "policy", of |-> ScopeOf(u)]}

OwnList(k, u) == IF u = NoUser THEN {} ELSE {[kind |-> k, of |-> OrgOf[u]]}

AdminLists(u) ==
  IF u = NoUser THEN {}
  ELSE IF Super(u) THEN {[kind |-> "org", of |-> NoOrg], [kind |-> "agent", of |-> NoOrg]}
  ELSE IF RoleOf[u] = "client_admin" THEN OwnList("stat", u) ELSE {}

DetailLists(id, u) ==
  IF u = NoUser \/ id = NoRow THEN {} ELSE {[kind |-> "detail", of |-> id]}

(* The reviewers that "/admin/case-view" offers are asked for unscoped. *)
ReviewerLists(id, u) ==
  IF u = NoUser \/ id = NoRow THEN {} ELSE {[kind |-> "user", of |-> NoOrg]}

Wanted(r, id, u) ==
  CASE r = "/admin/users"     -> UsersLists(u)
    [] r = "/admin/retention" -> PolicyLists(u)
    [] r = "/admin/holds"     -> OwnList("hold", u)
    [] r = "/admin/cases"     -> OwnList("case", u)
    [] r = "/admin"           -> AdminLists(u)
    [] r = "/admin/hold-view" -> DetailLists(id, u)
    [] r = "/admin/case-view" -> ReviewerLists(id, u)
    [] OTHER                  -> {}

(* What the core answers to a request of user u. *)
RowsOf(k, o) == {r \in db : Kind[r] = k /\ RowOrg[r] = o}

(* What the statistics of an organisation count. *)
Counted == Auditors \cup {r \in Rows : Kind[r] = "case"}
                    \cup {r \in Rows : Kind[r] = "hold" /\ Released[r] # r}

Answer(q, u) ==
  CASE q.kind = "org" \/ q.kind = "agent" -> {r \in db : Kind[r] = q.kind}
    [] q.kind = "user" /\ q.of = NoOrg -> db \cap ClientAdmins
    [] q.kind = "stat" -> {r \in db \cap Counted : RowOrg[r] = q.of}
    [] q.kind = "detail" -> {r \in {q.of, Released[q.of]} \cap db :
                               Kind[r] = "hold" /\ RowOrg[r] = OrgOf[u]}
    [] OTHER -> RowsOf(q.kind, q.of)

(* Three pages start with their spinner. *)
Spins(r) == r \in {"/admin/retention", "/admin/cases", "/admin/hold-view"}

-----------------------------------------------------------------------------
(* Mutant: the lists are kept in a provider. *)
MountListsKeeping(id, u, afterLoad) ==
  /\ UNCHANGED lists
  /\ listLoading' = Spins(at')
  /\ fetches' = {[n |-> 1, kind |-> q.kind, of |-> q.of] : q \in Wanted(at', id, u)}
  /\ call' = Idle /\ param' = id /\ blurred' = {}

(* A page is mounted for u.  After a page load its effects have already    *)
(* run once without a user, which only the retention page does not mind.   *)
MountLists(id, u, afterLoad) ==
  LET early == IF afterLoad /\ u # NoUser THEN Wanted(at', id, NoUser) ELSE {} IN
  /\ lists' = [k \in Kinds |-> {}]
  /\ listLoading' = Spins(at')
  /\ fetches' = {[n |-> 1, kind |-> q.kind, of |-> q.of] : q \in Wanted(at', id, u)}
           \cup {[n |-> 2, kind |-> q.kind, of |-> q.of] : q \in early}
  /\ call' = Idle /\ param' = id
  /\ blurred' = {q.kind : q \in early}

InFlight(k) == {f \in fetches : f.kind = k}

(* A list is asked for again (k of scope o), others are not. *)
Refetch(k, o, others) ==
  /\ \E n \in 1..MaxSame :
       /\ \A f \in InFlight(k) : f.n # n
       /\ \A i \in 1..(n - 1) : \E f \in InFlight(k) : f.n = i
       /\ fetches' = fetches \cup {[n |-> n, kind |-> k, of |-> o]}
  /\ blurred' = (IF InFlight(k) = {} THEN blurred \ {k} ELSE blurred \cup {k}) \cup others

(* The list arrives. *)
ListArrives(f) ==
  /\ f \in fetches
  /\ fetches' = fetches \ {f}
  /\ lists' = [lists EXCEPT ![f.kind] = Answer(f, user)]
  /\ listLoading' = FALSE
  /\ UNCHANGED <<sessionVars, db, tail, call, param, blurred>>

(* Mutant: setLoading(false) is left to the success path. *)
ListFailsSpinning(f) ==
  /\ f \in fetches
  /\ fetches' = fetches \ {f}
  /\ blurred' = blurred \cup {f.kind}
  /\ UNCHANGED <<sessionVars, db, tail, call, param, lists, listLoading>>

(* An error or a rejected fetch leaves the list as it is. *)
ListFails(f) ==
  /\ f \in fetches
  /\ fetches' = fetches \ {f}
  /\ blurred' = blurred \cup {f.kind}
  /\ listLoading' = FALSE
  /\ UNCHANGED <<sessionVars, db, tail, call, param, lists>>

-----------------------------------------------------------------------------
(* Bound: writes keep to one table until what they changed is undone.      *)
OneTable(k) ==
  tail = {} /\ \A r \in (db \ FirstRows) \cup (FirstRows \ db) : Kind[r] = k

(* What the forms of the page can ask for.  Only client_admins do not get  *)
(* the form of "/admin".                                                   *)
NewUsers == IF Super(user)
            THEN {r \in ClientAdmins : \E o \in lists["org"] : RowOrg[o] = RowOrg[r]}
            ELSE {r \in Auditors : RowOrg[r] = OrgOf[user]}
NewPolicies == {r \in Rows \ db : Kind[r] = "policy" /\ RowOrg[r] = ScopeOf(user)}
NewHolds == {r \in Rows : Kind[r] = "hold" /\ RowOrg[r] = OrgOf[user] /\ Released[r] # r}
NewCases == {r \in Rows \ db : Kind[r] = "case" /\ RowOrg[r] = OrgOf[user]}
NewOrgs  == {r \in Rows : Kind[r] = "org"}

OrgForm == at = "/admin" /\ SignedIn /\ RoleOf[user] # "client_admin"

Starts(op, r) ==
  /\ call = Idle /\ OneTable(Kind[r])
  /\ call' = [op |-> op, row |-> r, by |-> user]
  /\ UNCHANGED <<sessionVars, db, tail, lists, listLoading, fetches, param, blurred>>

CreateUser(r)   == at = "/admin/users" /\ SignedIn /\ r \in NewUsers /\ Starts("create", r)
CreatePolicy(r) == at = "/admin/retention" /\ ~listLoading /\ r \in NewPolicies /\ Starts("create", r)
CreateHold(r)   == at = "/admin/holds" /\ SignedIn /\ r \in NewHolds /\ Starts("create", r)
CreateCase(r)   == at = "/admin/cases" /\ SignedIn /\ r \in NewCases /\ Starts("create", r)
CreateOrg(r)    == OrgForm /\ r \in NewOrgs /\ Starts("create", r)

DeleteUser(r)   == at = "/admin/users" /\ r \in lists["user"] /\ Starts("delete", r)
DeletePolicy(r) == at = "/admin/retention" /\ ~listLoading /\ r \in lists["policy"] /\ Starts("delete", r)
DeleteOrg(r)    == OrgForm /\ r \in lists["org"] /\ Starts("delete", r)
ReleaseHold(r)  ==
  /\ at = "/admin/hold-view" /\ ~listLoading
  /\ r \in lists["detail"] /\ Released[r] # r
  /\ Starts("release", r)

-----------------------------------------------------------------------------
HasOrg(r) == RowOrg[r] = NoOrg \/ \E o \in db : Kind[o] = "org" /\ RowOrg[o] = RowOrg[r]

(* The core creates r: names of users, of holds of one organisation and of *)
(* organisations are unique, and all but the latter refer to one.          *)
Takes(r) ==
  /\ Kind[r] # "org" => HasOrg(r)
  /\ Kind[r] \in {"user", "hold", "org"} => {r, Released[r]} \cap db = {}

(* Mutant: the DELETE of a rule is not given the organisation. *)
OwnRuleAny(r, u) == TRUE

(* delete_retention_policy only finds a rule of the scope it is given. *)
OwnRule(r, u) == RowOrg[r] = ScopeOf(u)

(* The rows after a write. *)
Effect(c) ==
  CASE c.op = "create"  -> IF Takes(c.row) THEN db \cup {c.row} ELSE db
    [] c.op = "release" -> IF c.row \in db THEN (db \ {c.row}) \cup {Released[c.row]} ELSE db
    [] c.op = "delete" /\ Kind[c.row] = "org" ->
         {r \in db : c.row \in db => RowOrg[r] # RowOrg[c.row]}
    [] c.op = "delete" /\ Kind[c.row] = "policy" ->
         IF OwnRule(c.row, c.by) THEN db \ {c.row} ELSE db
    [] OTHER            -> db \ {c.row}

(* The answer is 2xx, or is not looked at (the DELETEs of users and rules). *)
Ok(c) ==
  CASE c.op = "create" -> Takes(c.row)
    [] c.op = "delete" -> Kind[c.row] = "org" => c.row \in db
    [] OTHER           -> {c.row, Released[c.row]} \cap db # {}

(* The list that a page asks for again after its write. *)
ListOf(c) ==
  IF c.op = "release" THEN [kind |-> "detail", of |-> param]
  ELSE [kind |-> Kind[c.row],
        of |-> IF Kind[c.row] \in {"hold", "case"} THEN OrgOf[c.by] ELSE ScopeOf(c.by)]

(* Mutant: the list is only asked for again after a creation. *)
CallAnsweredOnce ==
  /\ call # Idle /\ call.op # "deleteCase"
  /\ call' = Idle /\ db' = Effect(call)
  /\ IF call.op = "create" /\ Ok(call) THEN Refetch(ListOf(call).kind, ListOf(call).of, {})
     ELSE UNCHANGED <<fetches, blurred>>
  /\ UNCHANGED <<sessionVars, tail, lists, listLoading, param>>

(* (The agents of an organisation go with it and are not asked for again.) *)
CallAnswered ==
  /\ call # Idle /\ call.op # "deleteCase"
  /\ call' = Idle /\ db' = Effect(call)
  /\ IF ~Ok(call) THEN UNCHANGED <<fetches, blurred>>
     ELSE Refetch(ListOf(call).kind, ListOf(call).of,
                  IF call.op = "delete" THEN {"agent"} ELSE {})
  /\ UNCHANGED <<sessionVars, tail, lists, listLoading, param>>

(* The fetch of a write is rejected: the core may have done it or not. *)
CallFails ==
  /\ call # Idle
  /\ call' = Idle /\ db' \in {db, Effect(call)}
  /\ blurred' = Kinds
  /\ UNCHANGED <<sessionVars, tail, lists, listLoading, fetches, param>>

-----------------------------------------------------------------------------
(* What becomes of a write whose page goes; afterLoad nobody waits for its *)
(* answer.                                                                 *)
LeaveLists(afterLoad) ==
  /\ call = Idle \/ tail = {}    \* bound: one such write
  /\ tail' = IF call = Idle THEN tail
             ELSE {IF afterLoad /\ call.op = "deleteCase" THEN [call EXCEPT !.op = "delete"]
                   ELSE call}
  /\ UNCHANGED db

(* It comes to pass, or does not (a page that is gone asks for nothing).   *)
LateWrite(c) ==
  /\ c \in tail /\ c.op # "deleteCase"
  /\ tail' = {} /\ db' \in {db, Effect(c)}
  /\ blurred' = Kinds
  /\ UNCHANGED <<sessionVars, lists, listLoading, fetches, call, param>>

(* Another administrator adds a row. *)
OtherAdmin(r) ==
  /\ r \in OtherRows \ db /\ Takes(r) /\ OneTable(Kind[r])
  /\ db' = db \cup {r}
  /\ blurred' = Kinds
  /\ UNCHANGED <<sessionVars, tail, lists, listLoading, fetches, call, param>>

-----------------------------------------------------------------------------
ListInit ==
  /\ db = FirstRows /\ lists = [k \in Kinds |-> {}]
  /\ listLoading = FALSE /\ fetches = {} /\ call = Idle /\ param = NoRow
  /\ tail = {} /\ blurred = {}

ListUser == \E r \in Rows :
  \/ CreateUser(r) \/ CreatePolicy(r) \/ CreateHold(r) \/ CreateCase(r) \/ CreateOrg(r)
  \/ DeleteUser(r) \/ DeletePolicy(r) \/ DeleteOrg(r) \/ ReleaseHold(r)

ListSettles(f) == ListArrives(f) \/ ListFails(f)

ListCore ==
  \/ \E f \in fetches : ListSettles(f)
  \/ CallAnswered \/ CallFails
  \/ \E c \in tail : LateWrite(c)
  \/ \E r \in OtherRows : OtherAdmin(r)

-----------------------------------------------------------------------------
(* PROPERTY.  When nothing is under way, a list shows what the core has,   *)
(* the page's own writes included, unless replies may have passed each     *)
(* other, a request failed or another actor wrote (the refetches of        *)
(* users/page.tsx 87-106, retention/page.tsx 66-85, holds/page.tsx 66-68,  *)
(* hold-view 56-75 and admin/page.tsx 26-51).                              *)
QuietListIsRight ==
  fetches = {} /\ call = Idle =>
    \A q \in Wanted(at, param, user) :
      q.kind \notin blurred => lists[q.kind] = Answer(q, user)

(* PROPERTY.  A page shows a user, other than a super_admin, rows of the   *)
(* own organisation only, and global retention rules; the exceptions are   *)
(* the reviewers of a case, and the organisations on "/admin", which shows *)
(* an auditor the view of the system.  Nobody signed in sees at most       *)
(* global rules (asked for before the session was restored).  (The items   *)
(* of "/admin/review" are no list here: they are those assigned to the     *)
(* user, of whatever organisation.)                                        *)
RowsAreMine ==
  \A k \in Kinds : \A r \in lists[k] :
    \/ k = "policy" /\ RowOrg[r] = NoOrg
    \/ SignedIn /\ ( \/ RoleOf[user] = "super_admin"
                     \/ RowOrg[r] = OrgOf[user]
                     \/ k = "user" /\ at = "/admin/case-view"
                     \/ k = "org" /\ at = "/admin" /\ RoleOf[user] = "auditor" )
=============================================================================
