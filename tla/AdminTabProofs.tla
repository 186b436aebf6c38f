---------------------------- MODULE AdminTabProofs ----------------------------
(***************************************************************************)
(* Theorems about a tab on the administration pages, for any users, rows,  *)
(* organisations and items: its state is well typed, a page shows a user   *)
(* rows of the own organisation only, a client_admin only changes those    *)
(* and the status of items assigned to the user,                           *)
(* tags are kept as long as updates of them do not cross, and lists and    *)
(* boards at rest are the core's, with the exceptions the properties name. *)
(***************************************************************************)
EXTENDS AdminTab, FiniteSetTheorems, TLAPS

(* TypeOK in parts: variables that hold Booleans, and the others. *)
TabBools == /\ listLoading \in BOOLEAN /\ info \in BOOLEAN
            /\ boardLoading \in BOOLEAN /\ boardAsk \in BOOLEAN

RowSets == /\ db \subseteq Rows /\ call \in Calls \cup {Idle}
           /\ tail \subseteq Calls /\ Cardinality(tail) <= 1

ShownSets == /\ lists \in [Kinds -> SUBSET Rows] /\ fetches \subseteq Fetches
             /\ param \in Rows \cup {NoRow} /\ blurred \subseteq Kinds

FileSets == file \in Files /\ copy \in Files

EditSets ==
  /\ picked \subseteq Items /\ chosen \in ClientAdmins \cup {NoRow}
  /\ modal \in {"none", "assign", "export"}
  /\ edits \subseteq Edits /\ crossed \subseteq Items

LEMMA TypeParts ==
  TypeOK <=> SessionTypeOK /\ TabBools /\ RowSets /\ ShownSets /\ FileSets /\ EditSets
BY DEF TypeOK, ListTypeOK, BoardTypeOK, TabBools, RowSets, ShownSets, FileSets, EditSets

LEMMA TypePartsPrime ==
  TypeOK' <=> (SessionTypeOK /\ TabBools /\ RowSets /\ ShownSets /\ FileSets /\ EditSets)'
BY DEF TypeOK, ListTypeOK, BoardTypeOK, TabBools, RowSets, ShownSets, FileSets, EditSets

-----------------------------------------------------------------------------
(* Whom rows, requests and writes belong to. *)
Mine(k, r) ==
  \/ k = "policy" /\ RowOrg[r] = NoOrg
  \/ user \in Users /\ ( \/ RoleOf[user] = "super_admin"
                         \/ RowOrg[r] = OrgOf[user]
                         \/ k = "user" /\ at = "/admin/case-view"
                         \/ k = "org" /\ at = "/admin" /\ RoleOf[user] = "auditor" )

ListsMine ==
  \A k \in Kinds : \A r \in lists[k] :
    /\ Mine(k, r)
    /\ k \in Tables => Kind[r] = k
    /\ k = "detail" => param \in Rows

AskMine(q) ==
  \/ q.kind = "policy" /\ q.of = NoOrg
  \/ user \in Users /\ ( \/ RoleOf[user] = "super_admin"
                         \/ q.kind \in {"user", "policy", "hold", "case", "stat"}
                              /\ q.of = OrgOf[user]
                         \/ q.kind = "detail"
                         \/ q.kind = "user" /\ at = "/admin/case-view"
                         \/ q.kind = "org" /\ at = "/admin" /\ RoleOf[user] = "auditor" )

FetchesMine ==
  \A f \in fetches : AskMine(f) /\ (f.kind = "detail" => param \in Rows)

Own(r) == RoleOf[user] = "client_admin" => RowOrg[r] = OrgOf[user]

CallMine ==
  call # Idle =>
    /\ call.by = user
    /\ \/ call.op = "release" /\ user \in Users /\ param \in Rows /\ Own(call.row)
       \/ call.op \in {"create", "delete"} /\ Kind[call.row] = "policy"
            /\ (call.op = "create" => RowOrg[call.row] = ScopeOf(user))
       \/ /\ call.op \in {"create", "delete"} /\ user \in Users
          /\ \/ Kind[call.row] \in {"user", "hold", "case"} /\ Own(call.row)
             \/ Kind[call.row] = "org" /\ at = "/admin" /\ RoleOf[user] # "client_admin"
       \/ call.op = "deleteCase" /\ user \in Users /\ Own(call.row)

BoardMine ==
  /\ boardAsk => user \in Users
  /\ info => user \in Users /\ RowOrg[param] = OrgOf[user]

MineInv == ListsMine /\ FetchesMine /\ CallMine /\ BoardMine

-----------------------------------------------------------------------------
(* A page that is mounted: what every move has in common. *)
Turned ==
  \E id \in Rows \cup {NoRow}, l \in BOOLEAN : MountLists(id, user', l) /\ MountBoard(id, user')

(* What else does not come from the pages. *)
Aside ==
  /\ UNCHANGED <<sessionVars, lists, listLoading, fetches, param, copy, info, boardLoading,
                 boardAsk, picked, chosen, modal, edits>>
  /\ call' \in {call, Idle}

LEMMA EffectType ==
  ASSUME RowSets, NEW c \in Calls
  PROVE  Effect(c) \subseteq Rows
BY RowsAssumption DEF RowSets, Effect, Calls

LEMMA WantedMine ==
  ASSUME NEW r, NEW id \in Rows \cup {NoRow}, NEW u \in Users \cup {NoUser},
         NEW q \in Wanted(r, id, u)
  PROVE  /\ q.kind \in Kinds /\ q.of \in Scopes
         /\ q.kind = "detail" => id \in Rows
         /\ \/ q.kind = "policy" /\ q.of = NoOrg
            \/ u \in Users /\ ( \/ RoleOf[u] = "super_admin"
                                \/ q.kind \in {"user", "policy", "hold", "case", "stat"}
                                     /\ q.of = OrgOf[u]
                                \/ q.kind = "detail"
                                \/ q.kind = "user" /\ r = "/admin/case-view" )
BY SessionAssumption
   DEF Wanted, UsersLists, PolicyLists, OwnList, AdminLists, DetailLists, ReviewerLists,
       ScopeOf, Super, Kinds, Tables, Scopes

LEMMA NobodyWants ==
  ASSUME NEW r, NEW id, NEW q \in Wanted(r, id, NoUser)
  PROVE  q.kind = "policy" /\ q.of = NoOrg
BY DEF Wanted, UsersLists, PolicyLists, OwnList, AdminLists, DetailLists, ReviewerLists,
       ScopeOf, Super

LEMMA MountMine ==
  ASSUME Turned, user' \in Users \cup {NoUser}
  PROVE  ListsMine' /\ FetchesMine' /\ CallMine' /\ ShownSets' /\ call' = Idle
<1>1. PICK id \in Rows \cup {NoRow}, l \in BOOLEAN : MountLists(id, user', l)
  BY DEF Turned
<1>2. ListsMine' /\ CallMine' /\ call' = Idle /\ param' = id
  BY <1>1 DEF MountLists, ListsMine, CallMine
<1>3. ASSUME NEW f \in fetches'
      PROVE  f \in Fetches /\ AskMine(f)' /\ (f.kind = "detail" => id \in Rows)
  <2>1. \/ \E q \in Wanted(at', id, user') : f = [n |-> 1, kind |-> q.kind, of |-> q.of]
        \/ \E q \in Wanted(at', id, NoUser) : f = [n |-> 2, kind |-> q.kind, of |-> q.of]
    BY <1>1, <1>3 DEF MountLists
  <2>2. ASSUME NEW q \in Wanted(at', id, user'), f = [n |-> 1, kind |-> q.kind, of |-> q.of]
        PROVE  f \in Fetches /\ AskMine(f)' /\ (f.kind = "detail" => id \in Rows)
    <3>1. 1 \in 1..MaxSame
      BY RowsAssumption
    <3> QED BY <2>2, <3>1, WantedMine DEF Fetches, AskMine
  <2>3. ASSUME NEW q \in Wanted(at', id, NoUser), f = [n |-> 2, kind |-> q.kind, of |-> q.of]
        PROVE  f \in Fetches /\ AskMine(f)' /\ (f.kind = "detail" => id \in Rows)
    <3>1. 2 \in 1..MaxSame
      BY RowsAssumption
    <3> QED BY <2>3, <3>1, NobodyWants DEF Fetches, AskMine, Kinds, Tables, Scopes
  <2> QED BY <2>1, <2>2, <2>3
<1>4. blurred' \subseteq Kinds
  BY <1>1, NobodyWants DEF MountLists, Kinds, Tables
<1>5. ShownSets'
  BY <1>1, <1>3, <1>4 DEF MountLists, ShownSets
<1> QED BY <1>2, <1>3, <1>5 DEF FetchesMine

-----------------------------------------------------------------------------
(* The rows of case_items. *)
LEMMA FilesDef ==
  \A f : f \in Files <=> \E S \in SUBSET Items : f \in [S -> Record]
BY DEF Files

LEMMA AfterType ==
  ASSUME NEW e \in Edits, NEW f \in Files
  PROVE  After(e, f) \in Files
<1>1. PICK S \in SUBSET Items : f \in [S -> Record]
  BY FilesDef
<1>2. CASE e.op = "remove"
  <2>1. After(e, f) \in [S \ {e.item} -> Record]
    BY <1>1, <1>2 DEF After
  <2> QED BY <2>1, FilesDef
<1>3. CASE e.op = "tag"
  <2>1. e.tags \subseteq Tags
    BY <1>3 DEF Edits
  <2>2. After(e, f) \in [S -> Record]
    BY <1>1, <1>3, <2>1 DEF After, Record
  <2> QED BY <2>2, FilesDef
<1>4. CASE e.op = "status"
  <2>1. e.status \in Statuses
    BY <1>4 DEF Edits
  <2>2. After(e, f) \in [S -> Record]
    BY <1>1, <1>4, <2>1 DEF After, Record
  <2> QED BY <2>2, FilesDef
<1>5. CASE e.op = "assign"
  <2>1. e.who \in ClientAdmins
    BY <1>5 DEF Edits
  <2>2. After(e, f) \in [S -> Record]
    BY <1>1, <1>5, <2>1 DEF After, Record
  <2> QED BY <2>2, FilesDef
<1>6. CASE e.op \notin {"remove", "tag", "status", "assign"}
  BY <1>6 DEF After
<1> QED BY <1>2, <1>3, <1>4, <1>5, <1>6

LEMMA FollowsType ==
  ASSUME file \in Files, FileFollows
  PROVE  file' \in Files
<1>1. PICK S \in SUBSET Items : file \in [S -> Record]
  BY FilesDef
<1>2. file' \in [{i \in S : CaseOf[i] \in db'} -> Record]
  BY <1>1 DEF FileFollows, Record
<1> QED BY <1>2, FilesDef

LEMMA EmptyType == Empty \in Files
<1>1. {} \in SUBSET Items /\ Empty \in [{} -> Record]
  BY DEF Empty
<1> QED BY <1>1, FilesDef

LEMMA TouchedType ==
  ASSUME NEW e \in Edits
  PROVE  Touched(e) \subseteq Items
BY DEF Edits, Touched

LEMMA TailOne ==
  /\ Cardinality({}) <= 1
  /\ \A c : Cardinality({c}) <= 1
BY FS_EmptySet, FS_Singleton

-----------------------------------------------------------------------------
(* Moves of the user. *)
Moves ==
  \/ \E u \in Users : SignIn(u)
  \/ SignOut
  \/ \E r \in Routes, id \in Rows \cup {NoRow} : Browse(r, id)
  \/ \E r \in Routes, id \in Rows \cup {NoRow} : Load(r, id)

LEMMA MovesTurn ==
  ASSUME TypeOK, Moves
  PROVE  /\ SessionTypeOK'
         /\ \E id \in Rows \cup {NoRow}, l \in BOOLEAN : Turn(id, user', l)
<1> USE DEF SessionTypeOK
<1>0. SessionTypeOK /\ NoRow \in Rows \cup {NoRow} /\ "/login" \in Routes
  BY SessionAssumption DEF TypeOK
<1>1. ASSUME NEW u \in Users, SignIn(u)
      PROVE  user' = u /\ oaUser' = u /\ at' \in Routes /\ Turn(NoRow, u, FALSE)
  BY <1>1, SessionAssumption DEF SignIn, HandleLogin, Landing
<1>2. CASE SignOut
  BY <1>0, <1>2 DEF SignOut, Logout
<1>3. CASE \E r \in Routes, id \in Rows \cup {NoRow} : Browse(r, id)
  BY <1>0, <1>3 DEF Browse, Follow
<1>4. CASE \E r \in Routes, id \in Rows \cup {NoRow} : Load(r, id)
  BY <1>0, <1>4 DEF Load, FullLoad
<1> QED BY <1>0, <1>1, <1>2, <1>3, <1>4 DEF Moves

LEMMA LeaveType ==
  ASSUME TypeOK, NEW l \in BOOLEAN, LeaveLists(l), LeaveBoard, call' = Idle
  PROVE  RowSets' /\ file' \in Files /\ crossed' \subseteq Items
<1> USE TypeParts
<1>1. RowSets'
  <2>1. tail' \subseteq Calls /\ Cardinality(tail') <= 1
    <3>1. CASE call = Idle
      BY <3>1 DEF LeaveLists, RowSets
    <3>2. CASE call # Idle
      <4>1. call \in Calls /\ [call EXCEPT !.op = "delete"] \in Calls
        BY <3>2 DEF RowSets, Calls
      <4>2. tail' = {call} \/ tail' = {[call EXCEPT !.op = "delete"]}
        BY <3>2 DEF LeaveLists
      <4> QED BY <4>1, <4>2, TailOne
    <3> QED BY <3>1, <3>2
  <2> QED BY <2>1 DEF LeaveLists, RowSets
<1>2. file' \in Files
  <2>1. ASSUME NEW d \in edits, NEW e \in edits PROVE After(d, After(e, file)) \in Files
    BY AfterType DEF FileSets, EditSets
  <2> QED BY <2>1 DEF LeaveBoard, FileSets
<1>3. crossed' \subseteq Items
  BY TouchedType DEF LeaveBoard, EditSets
<1> QED BY <1>1, <1>2, <1>3

(* A page that is mounted is well typed. *)
LEMMA TurnedType ==
  ASSUME Turned, user' \in Users \cup {NoUser}, file' \in Files, crossed' \subseteq Items
  PROVE  TabBools' /\ ShownSets' /\ FileSets' /\ EditSets' /\ BoardMine'
<1>1. PICK id \in Rows \cup {NoRow}, l \in BOOLEAN :
        MountLists(id, user', l) /\ MountBoard(id, user')
  BY DEF Turned
<1>2. TabBools'
  <2>1. (at' \in {"/admin/case-view", "/admin/review"}) \in BOOLEAN /\ Spins(at') \in BOOLEAN
    BY DEF Spins
  <2>2. (user' # NoUser /\ (at' = "/admin/case-view" => id # NoRow) /\
           at' \in {"/admin/review", "/admin/case-view"}) \in BOOLEAN
    BY SMT
  <2> QED BY <1>1, <2>1, <2>2, Zenon DEF MountLists, MountBoard, TabBools
<1>3. FileSets' /\ EditSets'
  BY <1>1, EmptyType DEF MountBoard, FileSets, EditSets
<1>4. BoardMine'
  <2>1. ~ info'
    BY <1>1, Zenon DEF MountBoard
  <2>2. boardAsk' => user' # NoUser
    BY <1>1, Zenon DEF MountBoard
  <2> QED BY <2>1, <2>2 DEF BoardMine
<1> QED BY <1>2, <1>3, <1>4, MountMine

-----------------------------------------------------------------------------
(* Steps on the lists leave the session and the board alone. *)
LEMMA StartsFrame ==
  ASSUME TypeOK, NEW op \in {"create", "delete", "release", "deleteCase"}, NEW r \in Rows,
         Starts(op, r)
  PROVE  /\ call' \in Calls /\ call' = [op |-> op, row |-> r, by |-> user]
         /\ UNCHANGED <<sessionVars, db, tail, lists, listLoading, fetches, param, blurred>>
BY DEF Starts, Calls, TypeOK, SessionTypeOK

(* Whatever a user asks for on a page belongs to that user. *)
LEMMA UserCalls ==
  ASSUME TypeOK, MineInv, NEW r \in Rows,
         \/ CreateUser(r) \/ CreatePolicy(r) \/ CreateHold(r) \/ CreateCase(r) \/ CreateOrg(r)
         \/ DeleteUser(r) \/ DeletePolicy(r) \/ DeleteOrg(r) \/ ReleaseHold(r)
  PROVE  CallMine' /\ call' \in Calls
         /\ UNCHANGED <<sessionVars, db, tail, lists, listLoading, fetches, param, blurred>>
<1> USE DEF sessionVars, Idle
<1>0. /\ user \in Users \cup {NoUser} /\ NoUser \notin Users
      /\ \A k \in Kinds : \A x \in lists[k] :
           /\ Mine(k, x) /\ (k \in Tables => Kind[x] = k)
           /\ (k = "detail" => param \in Rows)
      /\ "super_admin" # "client_admin" /\ "auditor" # "client_admin"
  BY SessionAssumption DEF TypeOK, SessionTypeOK, MineInv, ListsMine
<1>k. {"user", "policy", "org", "hold", "case", "detail"} \subseteq Kinds
      /\ {"user", "policy", "org", "hold", "case"} \subseteq Tables
  BY DEF Kinds, Tables
<1>1. CASE CreateUser(r)
  <2>1. Starts("create", r) /\ user \in Users /\ r \in NewUsers
    BY <1>0, <1>1 DEF CreateUser, SignedIn
  <2>2. Own(r)
    BY <1>0, <2>1 DEF NewUsers, Super, Own
  <2>3. Kind[r] = "user"
    BY <2>1, RowsAssumption DEF NewUsers
  <2> QED BY <2>1, <2>2, <2>3, StartsFrame DEF CallMine, Own
<1>2. CASE CreatePolicy(r)
  BY <1>2, StartsFrame DEF CreatePolicy, NewPolicies, CallMine, ScopeOf, Super
<1>3. CASE CreateHold(r)
  BY <1>0, <1>3, StartsFrame DEF CreateHold, SignedIn, NewHolds, CallMine, Own
<1>4. CASE CreateCase(r)
  BY <1>0, <1>4, StartsFrame DEF CreateCase, SignedIn, NewCases, CallMine, Own
<1>5. CASE CreateOrg(r)
  BY <1>0, <1>5, StartsFrame DEF CreateOrg, OrgForm, SignedIn, NewOrgs, CallMine
<1>6. CASE DeleteUser(r)
  <2>1. Mine("user", r) /\ Kind[r] = "user" /\ at # "/admin/case-view"
    BY <1>0, <1>6, <1>k DEF DeleteUser
  <2> QED BY <1>0, <1>6, <2>1, StartsFrame DEF DeleteUser, CallMine, Own, Mine
<1>7. CASE DeletePolicy(r)
  <2>1. Kind[r] = "policy"
    BY <1>0, <1>7, <1>k DEF DeletePolicy
  <2> QED BY <1>7, <2>1, StartsFrame DEF DeletePolicy, CallMine
<1>8. CASE DeleteOrg(r)
  <2>1. Kind[r] = "org"
    BY <1>0, <1>8, <1>k DEF DeleteOrg
  <2> QED BY <1>0, <1>8, <2>1, StartsFrame DEF DeleteOrg, OrgForm, SignedIn, CallMine
<1>9. CASE ReleaseHold(r)
  <2>1. Mine("detail", r) /\ param \in Rows
    BY <1>0, <1>9, <1>k DEF ReleaseHold
  <2> QED BY <1>0, <1>9, <2>1, StartsFrame DEF ReleaseHold, CallMine, Own, Mine
<1> QED BY <1>1, <1>2, <1>3, <1>4, <1>5, <1>6, <1>7, <1>8, <1>9

(* What the core answers belongs to whoever asked. *)
LEMMA AnswerMine ==
  ASSUME TypeOK, MineInv, NEW f \in fetches
  PROVE  /\ Answer(f, user) \subseteq Rows
         /\ \A r \in Answer(f, user) :
              Mine(f.kind, r) /\ (f.kind \in Tables => Kind[r] = f.kind)
<1>1. AskMine(f) /\ f.kind \in Kinds /\ NoOrg \notin Orgs
  BY RowsAssumption DEF MineInv, FetchesMine, TypeOK, ListTypeOK, Fetches
<1>2. user \in Users => OrgOf[user] \in Orgs
  BY SessionAssumption
<1>3. \A r \in ClientAdmins : Kind[r] = "user"
  BY RowsAssumption
<1>4. db \subseteq Rows
  BY DEF TypeOK, ListTypeOK
<1>5. Answer(f, user) \subseteq Rows
  BY <1>4 DEF Answer, RowsOf
<1> SUFFICES ASSUME NEW r \in Answer(f, user)
             PROVE  Mine(f.kind, r) /\ (f.kind \in Tables => Kind[r] = f.kind)
  BY <1>5
<1>6. CASE f.kind = "org" \/ f.kind = "agent"
  BY <1>1, <1>6 DEF Answer, AskMine, Mine
<1>7. CASE f.kind = "user" /\ f.of = NoOrg
  BY <1>1, <1>2, <1>3, <1>7 DEF Answer, AskMine, Mine
<1>8. CASE f.kind = "stat"
  BY <1>1, <1>8 DEF Answer, AskMine, Mine, Tables
<1>9. CASE f.kind = "detail"
  BY <1>1, <1>9 DEF Answer, AskMine, Mine, Tables
<1>10. CASE f.kind \in {"user", "policy", "hold", "case"} /\ ~(f.kind = "user" /\ f.of = NoOrg)
  <2>1. Answer(f, user) = RowsOf(f.kind, f.of)
    BY <1>10 DEF Answer
  <2>2. CASE f.kind = "user" /\ at = "/admin/case-view"
    BY <1>1, <2>1, <2>2 DEF AskMine, Mine, RowsOf
  <2>3. CASE ~(f.kind = "user" /\ at = "/admin/case-view")
    BY <1>1, <1>10, <2>1, <2>3 DEF AskMine, Mine, RowsOf
  <2> QED BY <2>2, <2>3
<1> QED BY <1>1, <1>6, <1>7, <1>8, <1>9, <1>10 DEF Kinds, Tables

(* The list that is asked for again after a write is one of the page. *)
LEMMA ListOfMine ==
  ASSUME TypeOK, MineInv, call # Idle, call.op # "deleteCase"
  PROVE  LET q == ListOf(call) IN
         /\ q.kind \in Kinds /\ q.of \in Scopes /\ AskMine(q)
         /\ q.kind = "detail" => param \in Rows
<1>1. CallMine /\ call \in Calls
  BY DEF MineInv, TypeOK, ListTypeOK
<1>2. call.by \in Users => OrgOf[call.by] \in Orgs /\ call.by # NoUser
                            /\ RoleOf[call.by] \in {"super_admin", "client_admin", "auditor"}
  BY SessionAssumption
<1>3. CASE call.op = "release"
  BY <1>1, <1>3 DEF CallMine, ListOf, AskMine, Kinds, Scopes
<1>4. CASE call.op \in {"create", "delete"} /\ Kind[call.row] = "policy"
  <2>1. ListOf(call) = [kind |-> "policy", of |-> ScopeOf(user)]
    BY <1>1, <1>4 DEF CallMine, ListOf
  <2>2. user \in Users \cup {NoUser}
    BY DEF TypeOK, SessionTypeOK
  <2> QED
    BY <1>1, <1>2, <2>1, <2>2 DEF CallMine, AskMine, ScopeOf, Super, Kinds, Tables, Scopes
<1>5. CASE /\ call.op \in {"create", "delete"} /\ user \in Users
           /\ Kind[call.row] \in {"user", "hold", "case"}
  <2>1. ListOf(call) = [kind |-> Kind[call.row],
                        of |-> IF Kind[call.row] \in {"hold", "case"} THEN OrgOf[user]
                               ELSE ScopeOf(user)]
    BY <1>1, <1>5 DEF CallMine, ListOf
  <2> QED
    BY <1>1, <1>2, <1>5, <2>1 DEF CallMine, AskMine, ScopeOf, Super, Kinds, Tables, Scopes
<1>6. CASE /\ call.op \in {"create", "delete"} /\ user \in Users
           /\ Kind[call.row] = "org" /\ at = "/admin" /\ RoleOf[user] # "client_admin"
  <2>1. ListOf(call) = [kind |-> "org", of |-> ScopeOf(user)]
    BY <1>1, <1>6 DEF CallMine, ListOf
  <2> QED
    BY <1>1, <1>2, <1>6, <2>1 DEF CallMine, AskMine, ScopeOf, Super, Kinds, Tables, Scopes
<1> QED BY <1>1, <1>3, <1>4, <1>5, <1>6 DEF CallMine

LEMMA ListCoreStep ==
  ASSUME TypeOK, MineInv, ListCore
  PROVE  /\ RowSets' /\ ShownSets' /\ listLoading' \in BOOLEAN /\ UNCHANGED sessionVars
         /\ ListsMine' /\ FetchesMine' /\ CallMine' /\ UNCHANGED param
<1> USE TypeParts DEF sessionVars
<1>0. RowSets /\ ShownSets /\ ListsMine /\ FetchesMine /\ CallMine
  BY DEF MineInv
<1>1. listLoading' \in BOOLEAN
  BY TypeParts, Zenon
     DEF ListCore, ListSettles, ListArrives, ListFails, CallAnswered, CallFails, LateWrite,
         OtherAdmin, TabBools
<1>2. ASSUME NEW f \in fetches, ListArrives(f)
      PROVE  /\ RowSets' /\ ShownSets' /\ UNCHANGED <<sessionVars, param>>
             /\ ListsMine' /\ FetchesMine' /\ CallMine'
  <2>1. f.kind \in Kinds /\ (f.kind = "detail" => param \in Rows)
    BY <1>0 DEF ShownSets, Fetches, FetchesMine
  <2>2. /\ Answer(f, user) \subseteq Rows
        /\ \A r \in Answer(f, user) :
              Mine(f.kind, r) /\ (f.kind \in Tables => Kind[r] = f.kind)
    BY AnswerMine
  <2>3. /\ lists' \in [Kinds -> SUBSET Rows]
        /\ \A k \in Kinds : lists'[k] = IF k = f.kind THEN Answer(f, user) ELSE lists[k]
    BY <1>0, <1>2, <2>1, <2>2 DEF ListArrives, ShownSets
  <2>4. UNCHANGED <<at, user, oaUser, db, tail, call, param, blurred>> /\ fetches' \subseteq fetches
    BY <1>2 DEF ListArrives
  <2>5. ListsMine'
    BY <1>0, <2>1, <2>2, <2>3, <2>4 DEF ListsMine, Mine
  <2>6. FetchesMine' /\ CallMine'
    BY <1>0, <2>4 DEF FetchesMine, AskMine, CallMine, Own, ScopeOf, Super
  <2> QED BY <1>0, <2>3, <2>4, <2>5, <2>6 DEF RowSets, ShownSets
<1>3. ASSUME NEW f \in fetches, ListFails(f)
      PROVE  /\ RowSets' /\ ShownSets' /\ UNCHANGED <<sessionVars, param>>
             /\ ListsMine' /\ FetchesMine' /\ CallMine'
  <2>1. /\ UNCHANGED <<at, user, oaUser, db, tail, call, param, lists>>
        /\ fetches' \subseteq fetches /\ blurred' \subseteq Kinds
    BY <1>0, <1>3 DEF ListFails, ShownSets, Fetches
  <2> QED
    BY <1>0, <2>1
       DEF RowSets, ShownSets, ListsMine, FetchesMine, CallMine, Mine, AskMine, Own, ScopeOf,
           Super
<1>4. CASE CallAnswered
  <2>1. /\ UNCHANGED <<at, user, oaUser, tail, lists, param>> /\ call' = Idle
        /\ db' = Effect(call) /\ call # Idle /\ call.op # "deleteCase"
    BY <1>4 DEF CallAnswered
  <2>2. Effect(call) \subseteq Rows
    BY <1>0, <2>1, EffectType DEF RowSets
  <2>3. RowSets' /\ ListsMine' /\ CallMine'
    BY <1>0, <2>1, <2>2 DEF RowSets, ListsMine, CallMine, Mine
  <2>4. ShownSets' /\ FetchesMine'
    <3>1. CASE UNCHANGED <<fetches, blurred>>
      BY <1>0, <2>1, <3>1 DEF ShownSets, FetchesMine, AskMine
    <3>2. CASE Refetch(ListOf(call).kind, ListOf(call).of,
                       IF call.op = "delete" THEN {"agent"} ELSE {})
      <4> DEFINE q == ListOf(call)
      <4>1. q.kind \in Kinds /\ q.of \in Scopes /\ AskMine(q)
            /\ (q.kind = "detail" => param \in Rows)
        BY <2>1, ListOfMine
      <4>2. PICK n \in 1..MaxSame :
              fetches' = fetches \cup {[n |-> n, kind |-> q.kind, of |-> q.of]}
        BY <3>2 DEF Refetch
      <4>3. blurred' \subseteq Kinds
        BY <1>0, <3>2, <4>1 DEF Refetch, ShownSets, Kinds, Tables
      <4>4. FetchesMine'
        BY <1>0, <2>1, <4>1, <4>2 DEF FetchesMine, AskMine
      <4>5. fetches' \subseteq Fetches
        BY <1>0, <4>1, <4>2 DEF Fetches, ShownSets
      <4> QED BY <1>0, <2>1, <4>3, <4>4, <4>5 DEF ShownSets
    <3> QED BY <1>4, <3>1, <3>2 DEF CallAnswered
  <2> QED BY <1>1, <2>1, <2>3, <2>4
<1>5. CASE CallFails \/ (\E c \in tail : LateWrite(c)) \/ (\E r \in OtherRows : OtherAdmin(r))
  <2>1. /\ UNCHANGED <<at, user, oaUser, lists, fetches, param>> /\ call' \in {call, Idle}
        /\ tail' \in {tail, {}} /\ blurred' = Kinds
    BY <1>5 DEF CallFails, LateWrite, OtherAdmin
  <2>2. db' \subseteq Rows
    <3>1. \A c \in tail : Effect(c) \subseteq Rows
      BY <1>0, EffectType DEF RowSets
    <3>2. call # Idle => Effect(call) \subseteq Rows
      BY <1>0, EffectType DEF RowSets
    <3> QED
      BY <1>0, <1>5, <3>1, <3>2, RowsAssumption DEF CallFails, LateWrite, OtherAdmin, RowSets
  <2>3. RowSets'
    BY <1>0, <2>1, <2>2, TailOne DEF RowSets
  <2>4. ShownSets' /\ ListsMine' /\ FetchesMine'
    BY <1>0, <2>1 DEF ShownSets, ListsMine, FetchesMine, Mine, AskMine
  <2>5. CallMine'
    BY <1>0, <2>1 DEF CallMine, Own, ScopeOf, Super
  <2> QED BY <1>1, <2>1, <2>3, <2>4, <2>5
<1> QED BY <1>1, <1>2, <1>3, <1>4, <1>5 DEF ListCore, ListSettles

LEMMA ListsStep ==
  ASSUME TypeOK, MineInv, OnLists
  PROVE  TypeOK' /\ MineInv'
<1> USE TypeParts DEF sessionVars
<1>1. UNCHANGED <<copy, info, boardLoading, boardAsk, picked, chosen, modal, edits>>
  BY DEF OnLists
<1>2. FileSets' /\ EditSets'
  <2>1. file' \in Files
    BY FollowsType DEF OnLists, FileSets
  <2>2. DOMAIN file \subseteq Items
    BY FilesDef DEF FileSets
  <2> QED BY <1>1, <2>1, <2>2 DEF OnLists, FileSets, EditSets
<1>3. CASE ListCore
  <2>1. /\ RowSets' /\ ShownSets' /\ listLoading' \in BOOLEAN /\ UNCHANGED sessionVars
        /\ ListsMine' /\ FetchesMine' /\ CallMine' /\ UNCHANGED param
    BY <1>3, ListCoreStep
  <2>2. TabBools'
    BY <1>1, <2>1, Zenon DEF TabBools
  <2>3. BoardMine'
    BY <1>1, <2>1, Zenon DEF MineInv, BoardMine
  <2>4. SessionTypeOK'
    BY <2>1 DEF SessionTypeOK
  <2> QED BY <1>2, <2>1, <2>2, <2>3, <2>4, TypePartsPrime DEF MineInv
<1>4. CASE ListUser
  <2>1. CallMine' /\ call' \in Calls
        /\ UNCHANGED <<sessionVars, db, tail, lists, listLoading, fetches, param, blurred>>
    BY <1>4, UserCalls DEF ListUser
  <2>2. TabBools'
    BY <1>1, <2>1, Zenon DEF TabBools
  <2>3. BoardMine'
    BY <1>1, <2>1, Zenon DEF MineInv, BoardMine
  <2>4. SessionTypeOK' /\ RowSets' /\ ShownSets'
    BY <2>1 DEF SessionTypeOK, RowSets, ShownSets
  <2>5. ListsMine' /\ FetchesMine'
    BY <2>1 DEF MineInv, ListsMine, FetchesMine, Mine, AskMine
  <2> QED BY <1>2, <2>1, <2>2, <2>3, <2>4, <2>5, TypePartsPrime DEF MineInv
<1> QED BY <1>3, <1>4 DEF OnLists

-----------------------------------------------------------------------------
(* Steps on the board leave the lists alone, but for the deletion of the   *)
(* case of the page.                                                       *)
LEMMA BoardBools ==
  ASSUME TabBools, BoardMine, OnBoard
  PROVE  /\ info' \in BOOLEAN /\ boardLoading' \in BOOLEAN /\ boardAsk' \in BOOLEAN
         /\ boardAsk' => boardAsk
         /\ info' => info \/ (boardAsk /\ param \in RowsOf("case", OrgOf[user]))
<1>0. CASE UNCHANGED <<info, boardLoading, boardAsk>>
  BY <1>0, Zenon DEF TabBools
<1>1. CASE BoardUser
  <2>1. UNCHANGED <<info, boardLoading, boardAsk>>
    BY <1>1
       DEF BoardUser, SelectAll, HandleBatchAssign, HandleExport, HandleDeleteCase, OpenModal,
           Choose, Select, HandleRemoveItem, HandleTagUpdate, UpdateStatus, Begin, boardVars
  <2> QED BY <1>0, <2>1
<1>2. CASE BoardArrives
  <2>1. (at = "/admin/case-view") \in BOOLEAN
    BY SMT
  <2>2. at = "/admin/review" => at # "/admin/case-view"
    BY SMT
  <2> QED BY <1>2, <2>1, <2>2, Zenon DEF BoardArrives, TabBools
<1>3. CASE BoardFails
  BY <1>3, Zenon DEF BoardFails, TabBools
<1>4. CASE (\E e \in edits : EditSettles(e)) \/ (\E i \in Items, t \in Tags : OtherReviewer(i, t))
  <2>1. UNCHANGED <<info, boardLoading, boardAsk>>
    BY <1>4 DEF EditSettles, EditAnswered, EditFails, OtherReviewer
  <2> QED BY <1>0, <2>1
<1> QED BY <1>1, <1>2, <1>3, <1>4, Zenon DEF OnBoard, BoardCore

(* A write that begins. *)
LEMMA BeginType ==
  ASSUME TypeOK, NEW e \in Edits, Begin(e)
  PROVE  /\ EditSets' /\ FileSets' /\ UNCHANGED <<sessionVars, listVars, file, copy>>
         /\ edits' = edits \cup {e} /\ crossed \subseteq crossed'
<1>1. EditSets /\ FileSets
  BY TypeParts
<1>2. \A d \in edits : Touched(e) \cap Touched(d) \subseteq Items
  BY TouchedType
<1>3. crossed' \subseteq Items
  BY <1>1, <1>2 DEF Begin, EditSets
<1> QED BY <1>1, <1>3 DEF Begin, EditSets, FileSets

(* The edits a page begins. *)
LEMMA BeginsEdit ==
  ASSUME TypeOK,
         \/ HandleBatchAssign \/ HandleExport
         \/ \E i \in Items : HandleRemoveItem(i)
         \/ \E i \in Items, t \in Tags : HandleTagUpdate(i, t)
         \/ \E i \in Items, s \in Statuses : UpdateStatus(i, s)
  PROVE  \E e \in Edits : Begin(e) /\ (e.op = "tag" => e.item \in DOMAIN copy
                                                     /\ copy[e.item].tags \subseteq e.tags)
<1>0. EditSets /\ FileSets
  BY TypeParts
<1>1. CASE HandleBatchAssign
  <2>1. [op |-> "assign", items |-> picked, who |-> chosen] \in Edits
    BY <1>0, <1>1 DEF HandleBatchAssign, EditSets, Edits
  <2> QED BY <1>1, <2>1 DEF HandleBatchAssign
<1>2. CASE HandleExport
  BY <1>2 DEF HandleExport, Edits
<1>3. CASE \E i \in Items : HandleRemoveItem(i)
  BY <1>3 DEF HandleRemoveItem, Edits
<1>4. ASSUME NEW i \in Items, NEW t \in Tags, HandleTagUpdate(i, t)
      PROVE  \E e \in Edits : Begin(e) /\ (e.op = "tag" => e.item \in DOMAIN copy
                                                     /\ copy[e.item].tags \subseteq e.tags)
  <2> DEFINE e == [op |-> "tag", item |-> i, tags |-> copy[i].tags \cup {t}]
  <2>1. i \in DOMAIN copy /\ copy[i] \in Record
    BY <1>0, <1>4, FilesDef DEF HandleTagUpdate, FileSets
  <2>2. e \in Edits
    BY <2>1 DEF Record, Edits
  <2> QED BY <1>4, <2>1, <2>2 DEF HandleTagUpdate
<1>5. CASE \E i \in Items, s \in Statuses : UpdateStatus(i, s)
  BY <1>5 DEF UpdateStatus, Edits
<1> QED BY <1>1, <1>2, <1>3, <1>4, <1>5

LEMMA BoardSetsStep ==
  ASSUME TypeOK, BoardUser \/ BoardCore, ~HandleDeleteCase
  PROVE  FileSets' /\ EditSets' /\ UNCHANGED <<sessionVars, listVars>>
<1>0. EditSets /\ FileSets
  BY TypeParts
<1>1. CASE (\E i \in Items : Select(i)) \/ SelectAll
           \/ (\E w \in {"none", "assign", "export"} : OpenModal(w))
           \/ (\E r \in ClientAdmins : Choose(r))
  <2>1. DOMAIN copy \subseteq Items
    BY <1>0, FilesDef DEF FileSets
  <2> QED BY <1>0, <1>1, <2>1 DEF Select, SelectAll, OpenModal, Choose, FileSets, EditSets
<1>2. CASE \/ HandleBatchAssign \/ HandleExport
           \/ \E i \in Items : HandleRemoveItem(i)
           \/ \E i \in Items, t \in Tags : HandleTagUpdate(i, t)
           \/ \E i \in Items, s \in Statuses : UpdateStatus(i, s)
  BY <1>2, BeginsEdit, BeginType
<1>3. CASE BoardArrives
  <2>1. PICK S \in SUBSET Items : file \in [S -> Record]
    BY <1>0, FilesDef DEF FileSets
  <2>2. Shown \subseteq S
    BY <2>1 DEF Shown, Assigned, ItemsOfCase
  <2>3. [i \in Shown |-> file[i]] \in [Shown -> Record] /\ Shown \in SUBSET Items
    BY <2>1, <2>2
  <2>4. copy' \in Files
    BY <1>0, <1>3, <2>3, FilesDef DEF BoardArrives, FileSets
  <2> QED BY <1>0, <1>3, <2>4 DEF BoardArrives, FileSets, EditSets
<1>4. CASE BoardFails
  BY <1>0, <1>4 DEF BoardFails, FileSets, EditSets
<1>5. ASSUME NEW e \in edits, EditAnswered(e)
      PROVE  FileSets' /\ EditSets' /\ UNCHANGED <<sessionVars, listVars>>
  <2>1. After(e, file) \in Files /\ After(e, copy) \in Files
    BY <1>0, AfterType DEF FileSets, EditSets
  <2> QED BY <1>0, <1>5, <2>1 DEF EditAnswered, FileSets, EditSets
<1>6. ASSUME NEW e \in edits, EditFails(e)
      PROVE  FileSets' /\ EditSets' /\ UNCHANGED <<sessionVars, listVars>>
  <2>1. After(e, file) \in Files /\ Touched(e) \subseteq Items
    BY <1>0, AfterType, TouchedType DEF FileSets, EditSets
  <2> QED BY <1>0, <1>6, <2>1 DEF EditFails, FileSets, EditSets
<1>7. ASSUME NEW i \in Items, NEW t \in Tags, OtherReviewer(i, t)
      PROVE  FileSets' /\ EditSets' /\ UNCHANGED <<sessionVars, listVars>>
  <2>1. PICK S \in SUBSET Items : file \in [S -> Record]
    BY <1>0, FilesDef DEF FileSets
  <2>2. file' \in [S -> Record]
    BY <1>7, <2>1 DEF OtherReviewer, Record
  <2>3. file' \in Files
    BY <2>2, FilesDef
  <2> QED BY <1>0, <1>7, <2>3 DEF OtherReviewer, FileSets, EditSets
<1> QED
  BY <1>1, <1>2, <1>3, <1>4, <1>5, <1>6, <1>7 DEF BoardUser, BoardCore, EditSettles

LEMMA BoardStep ==
  ASSUME TypeOK, MineInv, OnBoard
  PROVE  TypeOK' /\ MineInv'
<1> USE TypeParts
<1>0. TabBools /\ BoardMine
  BY DEF MineInv
<1>1. SUFFICES ASSUME TRUE
               PROVE  /\ UNCHANGED <<sessionVars, db, tail, lists, listLoading, fetches, param,
                                     blurred>>
                      /\ RowSets' /\ FileSets' /\ EditSets' /\ CallMine'
  <2>1. TabBools'
    BY <1>0, <1>1, BoardBools, Zenon DEF TabBools
  <2>2. BoardMine'
    <3>1. /\ boardAsk' => user \in Users
          /\ info' => user \in Users /\ RowOrg[param] = OrgOf[user]
      <4>1. param \in RowsOf("case", OrgOf[user]) => RowOrg[param] = OrgOf[user]
        BY DEF RowsOf
      <4> QED BY <1>0, <4>1, BoardBools, Zenon DEF BoardMine
    <3>2. user' = user /\ param' = param
      BY <1>1 DEF sessionVars
    <3> QED BY <3>1, <3>2, Zenon DEF BoardMine
  <2>3. SessionTypeOK' /\ ShownSets'
    BY <1>1 DEF SessionTypeOK, sessionVars, ShownSets
  <2>4. ListsMine' /\ FetchesMine'
    BY <1>1 DEF MineInv, ListsMine, FetchesMine, Mine, AskMine, sessionVars
  <2> QED BY <1>1, <2>1, <2>2, <2>3, <2>4, TypePartsPrime DEF MineInv
<1>2. CASE HandleDeleteCase
  <2>1. param \in Rows /\ Starts("deleteCase", param) /\ UNCHANGED boardVars
    BY <1>2 DEF HandleDeleteCase
  <2>2. info
    BY <1>2, Zenon DEF HandleDeleteCase, OnCase
  <2>3. user \in Users /\ RowOrg[param] = OrgOf[user]
    BY <1>0, <2>2, Zenon DEF BoardMine
  <2>4. /\ call' \in Calls /\ call' = [op |-> "deleteCase", row |-> param, by |-> user]
        /\ UNCHANGED <<sessionVars, db, tail, lists, listLoading, fetches, param, blurred>>
    BY <2>1, StartsFrame
  <2>5. CallMine'
    BY <2>3, <2>4 DEF CallMine, Own, sessionVars
  <2> QED BY <2>1, <2>4, <2>5 DEF RowSets, FileSets, EditSets, boardVars
<1>3. CASE ~HandleDeleteCase
  <2>1. FileSets' /\ EditSets' /\ UNCHANGED <<sessionVars, listVars>>
    BY <1>3, BoardSetsStep DEF OnBoard
  <2> QED
    BY <2>1 DEF RowSets, listVars, listPageVars, sessionVars, MineInv, CallMine, Own, ScopeOf,
                Super
<1> QED BY <1>2, <1>3

-----------------------------------------------------------------------------
(* A mounted page belongs to its user. *)
LEMMA TurnedStep ==
  ASSUME Turned, SessionTypeOK', RowSets', file' \in Files, crossed' \subseteq Items
  PROVE  TypeOK' /\ MineInv'
<1>1. user' \in Users \cup {NoUser}
  BY DEF SessionTypeOK
<1>2. ListsMine' /\ FetchesMine' /\ CallMine'
  BY <1>1, MountMine
<1>3. TabBools' /\ ShownSets' /\ FileSets' /\ EditSets' /\ BoardMine'
  BY <1>1, TurnedType
<1> QED BY <1>2, <1>3, TypePartsPrime DEF MineInv

LEMMA MovesStep ==
  ASSUME TypeOK, Moves
  PROVE  Turned /\ TypeOK' /\ MineInv'
<1>1. PICK id \in Rows \cup {NoRow}, l \in BOOLEAN : Turn(id, user', l)
  BY MovesTurn
<1>2. Turned /\ call' = Idle
  BY <1>1 DEF Turn, Turned, MountLists
<1>3. RowSets' /\ file' \in Files /\ crossed' \subseteq Items
  BY <1>1, <1>2, LeaveType DEF Turn
<1> QED BY <1>2, <1>3, MovesTurn, TurnedStep

(* What a deletion whose answer comes late does, or one that fails, keeps  *)
(* the pages as they are or mounts the list of cases.                      *)
Deletion == CaseDeleted \/ \E c \in tail : LateDeletion(c)

LEMMA DeletionCases ==
  ASSUME TypeOK, Deletion
  PROVE  /\ SessionTypeOK' /\ RowSets' /\ file' \in Files /\ crossed' \subseteq Items
         /\ blurred' \subseteq Kinds
         /\ Turned \/ Aside
<1> USE TypeParts
<1>0. /\ SessionTypeOK /\ RowSets /\ ShownSets /\ FileSets /\ EditSets
      /\ NoRow \in Rows \cup {NoRow} /\ FALSE \in BOOLEAN
  OBVIOUS
<1>1. CASE CaseDeleted
  <2>1. db' \subseteq Rows /\ file' \in Files
    BY <1>0, <1>1, EffectType, FollowsType DEF CaseDeleted, RowSets, FileSets
  <2>2. CASE Ok(call)
    <3>1. /\ Follow("/admin/cases") /\ MountLists(NoRow, user, FALSE) /\ MountBoard(NoRow, user)
          /\ crossed' = {} /\ UNCHANGED tail
      BY <1>1, <2>2 DEF CaseDeleted
    <3>2. user' = user /\ SessionTypeOK'
      BY <1>0, <3>1 DEF Follow, SessionTypeOK
    <3>3. Turned
      BY <1>0, <3>1, <3>2 DEF Turned
    <3>4. call' = Idle /\ blurred' \subseteq Kinds
      BY <3>1, <3>2, <3>3, MountMine DEF SessionTypeOK, ShownSets
    <3> QED BY <1>0, <2>1, <3>1, <3>2, <3>3, <3>4 DEF RowSets
  <2>3. CASE ~Ok(call)
    <3>1. /\ call' = Idle
          /\ UNCHANGED <<sessionVars, tail, lists, listLoading, fetches, param, blurred,
                         copy, info, boardLoading, boardAsk, picked, chosen, modal, edits,
                         crossed>>
      BY <1>1, <2>3 DEF CaseDeleted
    <3> QED
      BY <1>0, <2>1, <3>1
         DEF RowSets, ShownSets, EditSets, SessionTypeOK, sessionVars, Aside
  <2> QED BY <2>2, <2>3
<1>2. ASSUME NEW c \in tail, LateDeletion(c)
      PROVE  /\ SessionTypeOK' /\ RowSets' /\ file' \in Files /\ crossed' \subseteq Items
             /\ blurred' \subseteq Kinds
             /\ Turned \/ Aside
  <2>1. tail' = {} /\ UNCHANGED <<user, oaUser>>
    BY <1>2 DEF LateDeletion
  <2>2. Effect(c) \subseteq Rows
    BY <1>0, EffectType DEF RowSets
  <2>3. CASE /\ Ok(c) /\ at # "/admin/cases"
             /\ db' = Effect(c) /\ FileFollows
             /\ at' = "/admin/cases" /\ call = Idle /\ edits = {}
             /\ MountLists(NoRow, user, FALSE) /\ MountBoard(NoRow, user) /\ crossed' = {}
    <3>1. Turned
      BY <1>0, <2>1, <2>3 DEF Turned
    <3>2. call' = Idle /\ blurred' \subseteq Kinds
      BY <1>0, <2>1, <3>1, MountMine DEF SessionTypeOK, ShownSets
    <3>3. file' \in Files
      BY <1>0, <2>3, FollowsType DEF FileSets
    <3>4. at' \in Routes
      BY <2>3, RowsAssumption
    <3> QED BY <1>0, <2>1, <2>2, <2>3, <3>1, <3>2, <3>3, <3>4, TailOne DEF RowSets, SessionTypeOK
  <2>4. CASE /\ db' = Effect(c) /\ FileFollows /\ blurred' = Kinds /\ crossed' = Items
             /\ UNCHANGED <<at, lists, listLoading, fetches, call, param, copy, info,
                            boardLoading, boardAsk, picked, chosen, modal, edits>>
    <3>1. file' \in Files
      BY <1>0, <2>4, FollowsType DEF FileSets
    <3> QED BY <1>0, <2>1, <2>2, <2>4, <3>1, TailOne
            DEF RowSets, SessionTypeOK, sessionVars, Aside
  <2>5. CASE UNCHANGED <<at, db, listPageVars, boardVars>>
    BY <1>0, <2>1, <2>5, TailOne
       DEF listPageVars, boardVars, RowSets, ShownSets, FileSets, EditSets, SessionTypeOK,
           sessionVars, Aside
  <2> QED BY <1>2, <2>3, <2>4, <2>5 DEF LateDeletion
<1> QED BY <1>1, <1>2 DEF Deletion

LEMMA AsideStep ==
  ASSUME TypeOK, MineInv, Aside, RowSets', file' \in Files, crossed' \subseteq Items,
         blurred' \subseteq Kinds
  PROVE  TypeOK' /\ MineInv'
<1> USE TypeParts DEF Aside
<1>1. TabBools'
  BY TypeParts, Zenon DEF TabBools
<1>2. SessionTypeOK' /\ ShownSets' /\ FileSets' /\ EditSets'
  BY DEF SessionTypeOK, sessionVars, ShownSets, FileSets, EditSets
<1>3. ListsMine' /\ FetchesMine'
  BY DEF MineInv, ListsMine, FetchesMine, Mine, AskMine, sessionVars
<1>4. CallMine'
  BY DEF MineInv, CallMine, Own, ScopeOf, Super, sessionVars
<1>5. BoardMine'
  <2>1. user' = user /\ param' = param /\ info' = info /\ boardAsk' = boardAsk
    BY DEF sessionVars
  <2>2. BoardMine
    BY DEF MineInv
  <2> HIDE DEF Aside
  <2> QED BY <2>1, <2>2, Zenon DEF BoardMine
<1> QED BY <1>1, <1>2, <1>3, <1>4, <1>5, TypePartsPrime DEF MineInv

LEMMA TabStep == TypeOK /\ MineInv /\ [Next]_vars => TypeOK' /\ MineInv'
<1> SUFFICES ASSUME TypeOK, MineInv, [Next]_vars PROVE TypeOK' /\ MineInv'
  OBVIOUS
<1>1. CASE Moves
  BY <1>1, MovesStep
<1>2. CASE Deletion
  BY <1>2, DeletionCases, TurnedStep, AsideStep
<1>3. CASE OnLists
  BY <1>3, ListsStep
<1>4. CASE OnBoard
  BY <1>4, BoardStep
<1>5. CASE UNCHANGED vars
  <2>1. Aside
    BY <1>5 DEF vars, listVars, listPageVars, boardVars, Aside
  <2>2. RowSets' /\ file' \in Files /\ crossed' \subseteq Items /\ blurred' \subseteq Kinds
    BY <1>5, TypeParts
       DEF vars, listVars, listPageVars, boardVars, RowSets, FileSets, EditSets, ShownSets
  <2> QED BY <2>1, <2>2, AsideStep
<1> QED BY <1>1, <1>2, <1>3, <1>4, <1>5 DEF Next, Moves, Deletion

LEMMA TabInit == Init => TypeOK /\ MineInv
<1> SUFFICES ASSUME Init PROVE TypeOK /\ MineInv
  OBVIOUS
<1>1. SessionTypeOK
  BY SessionAssumption DEF Init, SessionInit, SessionTypeOK
<1>2. TabBools /\ ~info /\ ~boardAsk
  BY Zenon DEF Init, ListInit, BoardInit, TabBools
<1>3. RowSets /\ ShownSets
  BY RowsAssumption, TailOne DEF Init, ListInit, RowSets, ShownSets
<1>4. FileSets /\ EditSets
  BY BoardAssumption, EmptyType DEF Init, BoardInit, FileSets, EditSets
<1>5. ListsMine /\ FetchesMine /\ CallMine
  BY DEF Init, ListInit, ListsMine, FetchesMine, CallMine
<1>6. BoardMine
  BY <1>2, Zenon DEF BoardMine
<1> QED BY <1>1, <1>2, <1>3, <1>4, <1>5, <1>6, TypeParts DEF MineInv

(* Every variable of the tab keeps its type, and lists, requests, writes   *)
(* and the case on display belong to the user.                             *)
THEOREM TypeCorrect == Spec => [](TypeOK /\ MineInv)
BY TabInit, TabStep, PTL DEF Spec

(* A page shows a user rows of the own organisation, for any number of     *)
(* users, organisations, rows and requests in flight (the scopes of the    *)
(* fetches of the administration pages).                                   *)
THEOREM RowsStayMine == Spec => []RowsAreMine
<1>1. TypeOK /\ MineInv => RowsAreMine
  BY SessionAssumption
     DEF TypeOK, ListTypeOK, MineInv, ListsMine, Mine, SignedIn, RowsAreMine
<1> QED BY <1>1, TypeCorrect, PTL

-----------------------------------------------------------------------------
(* As long as nothing has crossed on an item, the copy of the page and the *)
(* update that is under way hold every tag of it.                          *)
TagInv ==
  /\ \A i \in (DOMAIN file \cap DOMAIN copy) \ crossed : file[i].tags \subseteq copy[i].tags
  /\ \A e \in edits : e.op = "tag" /\ e.item \in DOMAIN file \ crossed =>
                        file[e.item].tags \subseteq e.tags
  /\ \A d, e \in edits : d.op = "tag" /\ e.op = "tag" /\ d # e /\ d.item = e.item =>
                         d.item \in crossed

TagsKept ==
  \A i \in DOMAIN file \cap DOMAIN file' : file[i].tags \subseteq file'[i].tags \/ i \in crossed'

LEMMA AfterTags ==
  ASSUME NEW e \in Edits, NEW f \in Files, NEW i \in DOMAIN After(e, f)
  PROVE  /\ i \in DOMAIN f
         /\ After(e, f)[i].tags = IF e.op = "tag" /\ e.item = i THEN e.tags ELSE f[i].tags
<1>1. PICK S \in SUBSET Items : f \in [S -> Record]
  BY FilesDef
<1>2. CASE e.op = "remove"
  BY <1>1, <1>2 DEF After
<1>3. CASE e.op = "tag"
  BY <1>1, <1>3 DEF After, Record
<1>4. CASE e.op = "status"
  BY <1>1, <1>4 DEF After, Record
<1>5. CASE e.op = "assign"
  BY <1>1, <1>5 DEF After, Record
<1>6. CASE e.op \notin {"remove", "tag", "status", "assign"}
  BY <1>6 DEF After
<1> QED BY <1>2, <1>3, <1>4, <1>5, <1>6

LEMMA FollowsTags ==
  ASSUME file \in Files, FileFollows, NEW i \in DOMAIN file'
  PROVE  i \in DOMAIN file /\ file'[i].tags = file[i].tags
<1>1. PICK S \in SUBSET Items : file \in [S -> Record]
  BY FilesDef
<1> QED BY <1>1 DEF FileFollows, Record

(* Tags that do not change, and a history that only grows. *)
LEMMA TagsFollow ==
  ASSUME TagInv, crossed \subseteq crossed' \/ crossed' = Items, TypeOK,
         UNCHANGED <<copy, edits>>,
         \A i \in DOMAIN file' : i \in DOMAIN file /\ file'[i].tags = file[i].tags
  PROVE  TagInv' /\ TagsKept
<1>1. crossed \subseteq Items
  BY DEF TypeOK, BoardTypeOK
<1>2. TagInv'
  BY <1>1 DEF TagInv
<1> QED BY <1>2 DEF TagsKept

LEMMA TagsTurn ==
  ASSUME Turned
  PROVE  TagInv'
BY DEF Turned, MountBoard, Empty, TagInv

LEMMA TagsMove ==
  ASSUME TypeOK, Moves
  PROVE  TagInv' /\ TagsKept
<1>1. TagInv'
  BY MovesStep, TagsTurn
<1>2. LeaveBoard
  BY DEF Moves, SignIn, SignOut, Browse, Load, Turn
<1>3. file \in Files /\ edits \subseteq Edits
  BY DEF TypeOK, BoardTypeOK
<1>4. SUFFICES ASSUME NEW i \in DOMAIN file \cap DOMAIN file', i \notin crossed'
               PROVE  file[i].tags \subseteq file'[i].tags
  BY <1>1 DEF TagsKept
<1>5. \A e \in edits : ~(e.op = "tag" /\ e.item = i)
  BY <1>2, <1>4 DEF LeaveBoard, Touched
<1>6. ASSUME NEW d \in edits, NEW e \in edits, file' = After(d, After(e, file))
      PROVE  file[i].tags \subseteq file'[i].tags
  <2>1. After(e, file) \in Files
    BY <1>3, AfterType
  <2>2. i \in DOMAIN After(e, file) /\ file'[i].tags = After(e, file)[i].tags
    BY <1>3, <1>4, <1>5, <1>6, <2>1, AfterTags
  <2> QED BY <1>3, <1>5, <2>2, AfterTags
<1> QED BY <1>2, <1>6 DEF LeaveBoard

LEMMA TagsDelete ==
  ASSUME TypeOK, TagInv, Deletion
  PROVE  TagInv' /\ TagsKept
<1>0. file \in Files
  BY DEF TypeOK, BoardTypeOK
<1>1. CASE FileFollows
  <2>1. TagsKept
    BY <1>0, <1>1, FollowsTags DEF TagsKept
  <2>2. TagInv'
    <3>1. CASE Turned
      BY <3>1, TagsTurn
    <3>2. CASE Aside /\ (crossed' = crossed \/ crossed' = Items)
      BY <1>0, <1>1, <3>2, FollowsTags, TagsFollow DEF Aside
    <3>3. Turned \/ (crossed' = crossed \/ crossed' = Items)
      <4>1. NoRow \in Rows \cup {NoRow} /\ FALSE \in BOOLEAN
        OBVIOUS
      <4> QED
        BY <4>1 DEF Deletion, CaseDeleted, LateDeletion, Follow, Turned, boardVars
    <3>4. Turned \/ Aside
      BY DeletionCases
    <3> QED BY <3>1, <3>2, <3>3, <3>4
  <2> QED BY <2>1, <2>2
<1>2. CASE UNCHANGED boardVars
  BY <1>2, TagsFollow DEF boardVars
<1> QED BY <1>1, <1>2 DEF Deletion, CaseDeleted, LateDeletion

LEMMA TagsBegin ==
  ASSUME TypeOK, TagInv, NEW e \in Edits, Begin(e),
         e.op = "tag" => e.item \in DOMAIN copy /\ copy[e.item].tags \subseteq e.tags
  PROVE  TagInv' /\ TagsKept
<1>1. UNCHANGED <<file, copy>> /\ edits' = edits \cup {e} /\ crossed \subseteq crossed'
  BY DEF Begin
<1>2. \A d \in edits : d.op = "tag" /\ e.op = "tag" /\ d.item = e.item => e.item \in crossed'
  <2>1. ASSUME NEW d \in edits, d.op = "tag", e.op = "tag", d.item = e.item
        PROVE  e.item \in crossed'
    <3>1. e.item \in Touched(e) \cap Touched(d)
      BY <2>1 DEF Touched
    <3> QED BY <2>1, <3>1 DEF Begin
  <2> QED BY <2>1
<1>3. \A d \in edits' : d.op = "tag" /\ d.item \in DOMAIN file \ crossed' =>
                        file[d.item].tags \subseteq d.tags
  BY <1>1 DEF TagInv
<1>4. TagInv'
  BY <1>1, <1>2, <1>3 DEF TagInv
<1> QED BY <1>1, <1>4 DEF TagsKept

LEMMA TagsEdit ==
  ASSUME TypeOK, TagInv, NEW e \in edits, EditSettles(e)
  PROVE  TagInv' /\ TagsKept
<1>0. e \in Edits /\ file \in Files /\ copy \in Files
  BY DEF TypeOK, BoardTypeOK
<1>1. \/ /\ UNCHANGED <<file, copy>> /\ edits' \subseteq edits /\ crossed \subseteq crossed'
      \/ /\ file' = After(e, file) /\ edits' = edits \ {e}
         /\ \/ copy' = After(e, copy) /\ crossed' = crossed
            \/ copy' = copy /\ crossed' = crossed \cup Touched(e)
  BY DEF EditSettles, EditAnswered, EditFails
<1>2. CASE UNCHANGED <<file, copy>> /\ edits' \subseteq edits /\ crossed \subseteq crossed'
  BY <1>2 DEF TagInv, TagsKept
<1>3. CASE /\ file' = After(e, file) /\ edits' = edits \ {e}
           /\ \/ copy' = After(e, copy) /\ crossed' = crossed
              \/ copy' = copy /\ crossed' = crossed \cup Touched(e)
  <2>1. \A i \in DOMAIN file' :
          /\ i \in DOMAIN file
          /\ file'[i].tags = IF e.op = "tag" /\ e.item = i THEN e.tags ELSE file[i].tags
    BY <1>0, <1>3, AfterTags
  <2>2. copy' = After(e, copy) =>
          \A i \in DOMAIN copy' :
            /\ i \in DOMAIN copy
            /\ copy'[i].tags = IF e.op = "tag" /\ e.item = i THEN e.tags ELSE copy[i].tags
    BY <1>0, AfterTags
  <2>3. e.op = "tag" => e.item \in Touched(e)
    BY DEF Touched
  <2>4. TagsKept
    BY <1>3, <2>1 DEF TagInv, TagsKept
  <2>5. \A i \in (DOMAIN file' \cap DOMAIN copy') \ crossed' : file'[i].tags \subseteq copy'[i].tags
    BY <1>3, <2>1, <2>2, <2>3 DEF TagInv
  <2>6. \A d \in edits' : d.op = "tag" /\ d.item \in DOMAIN file' \ crossed' =>
                          file'[d.item].tags \subseteq d.tags
    BY <1>3, <2>1 DEF TagInv
  <2>7. \A c, d \in edits' : c.op = "tag" /\ d.op = "tag" /\ c # d /\ c.item = d.item =>
                             c.item \in crossed'
    BY <1>3 DEF TagInv
  <2> QED BY <2>4, <2>5, <2>6, <2>7 DEF TagInv
<1> QED BY <1>1, <1>2, <1>3

LEMMA TagsBoard ==
  ASSUME TypeOK, TagInv, OnBoard
  PROVE  TagInv' /\ TagsKept
<1>0. file \in Files /\ copy \in Files /\ edits \subseteq Edits /\ crossed \subseteq Items
  BY DEF TypeOK, BoardTypeOK
<1>1. CASE \/ HandleBatchAssign \/ HandleExport
           \/ \E i \in Items : HandleRemoveItem(i)
           \/ \E i \in Items, t \in Tags : HandleTagUpdate(i, t)
           \/ \E i \in Items, s \in Statuses : UpdateStatus(i, s)
  BY <1>1, BeginsEdit, TagsBegin
<1>2. CASE \/ \E i \in Items : Select(i)
           \/ SelectAll \/ HandleDeleteCase
           \/ \E w \in {"none", "assign", "export"} : OpenModal(w)
           \/ \E r \in ClientAdmins : Choose(r)
  <2>1. UNCHANGED <<file, copy, edits, crossed>>
    BY <1>2 DEF Select, SelectAll, HandleDeleteCase, OpenModal, Choose, boardVars
  <2> QED BY <2>1, TagsFollow
<1>3. CASE BoardArrives
  <2>1. UNCHANGED <<file, edits, crossed>>
        /\ \A i \in DOMAIN copy' : (i \in DOMAIN copy /\ copy'[i] = copy[i]) \/ copy'[i] = file[i]
    BY <1>3 DEF BoardArrives
  <2> QED BY <2>1 DEF TagInv, TagsKept
<1>4. CASE BoardFails
  BY <1>4, TagsFollow DEF BoardFails
<1>5. ASSUME NEW e \in edits, EditSettles(e) PROVE TagInv' /\ TagsKept
  BY <1>5, TagsEdit
<1>6. ASSUME NEW i \in Items, NEW t \in Tags, OtherReviewer(i, t) PROVE TagInv' /\ TagsKept
  <2>1. PICK S \in SUBSET Items : file \in [S -> Record]
    BY <1>0, FilesDef
  <2>2. /\ UNCHANGED <<copy, edits>> /\ crossed' = crossed \cup {i} /\ DOMAIN file' = DOMAIN file
        /\ \A j \in DOMAIN file \ {i} : file'[j] = file[j]
    BY <1>6, <2>1 DEF OtherReviewer
  <2> QED BY <2>2 DEF TagInv, TagsKept
<1> QED BY <1>1, <1>2, <1>3, <1>4, <1>5, <1>6 DEF OnBoard, BoardUser, BoardCore

LEMMA TagStep == TypeOK /\ TagInv /\ [Next]_vars => TagInv' /\ TagsKept
<1> SUFFICES ASSUME TypeOK, TagInv, [Next]_vars PROVE TagInv' /\ TagsKept
  OBVIOUS
<1>1. CASE Moves
  BY <1>1, TagsMove
<1>2. CASE Deletion
  BY <1>2, TagsDelete
<1>3. CASE OnLists
  <2>1. file \in Files /\ FileFollows /\ crossed \subseteq crossed' /\ UNCHANGED <<copy, edits>>
    BY <1>3 DEF OnLists, TypeOK, BoardTypeOK
  <2> QED BY <2>1, FollowsTags, TagsFollow
<1>4. CASE OnBoard
  BY <1>4, TagsBoard
<1>5. CASE UNCHANGED vars
  BY <1>5, TagsFollow DEF vars, boardVars
<1> QED BY <1>1, <1>2, <1>3, <1>4, <1>5 DEF Next, Moves, Deletion

(* A tag of an item that stays is only lost when updates of its tags have  *)
(* crossed, for any items, tags and number of updates in flight            *)
(* (handleTagUpdate, case-view/client-page.tsx 114-130, cases.py 126-136). *)
THEOREM TagsStayKept == Spec => TagsAreKept
<1>1. Init => TagInv
  BY DEF Init, BoardInit, Empty, TagInv
<1>2. TypeOK /\ TagInv /\ [Next]_vars =>
        [\A i \in DOMAIN file \cap DOMAIN file' :
           file[i].tags \subseteq file'[i].tags \/ i \in crossed']_boardVars
  BY TagStep DEF TagsKept
<1> QED BY <1>1, <1>2, TagStep, TypeCorrect, PTL DEF Spec, TagsAreKept

-----------------------------------------------------------------------------
(* Lists.  A list that is not blurred is asked for with the scope of the   *)
(* page or, with no request in flight, is what the core would answer.  The *)
(* write under way changes only a list the page will ask for again, except *)
(* that the agents of an organisation go with it.                          *)
ListRight ==
  \A q \in Wanted(at, param, user) : q.kind \notin blurred =>
    /\ \A f \in InFlight(q.kind) : f.of = q.of
    /\ InFlight(q.kind) = {} => lists[q.kind] = Answer(q, user)

CallFits ==
  call # Idle /\ call.op # "deleteCase" =>
    \A q \in Wanted(at, param, user) :
      \/ q.kind = ListOf(call).kind /\ q.of = ListOf(call).of
      \/ q.kind \in {"org", "agent"} \ {Kind[call.row]}

ListInv == ListRight /\ CallFits

(* A page has at most one list of a kind. *)
LEMMA WantedOne ==
  ASSUME NEW r, NEW id, NEW u, NEW p \in Wanted(r, id, u), NEW q \in Wanted(r, id, u),
         p.kind = q.kind
  PROVE  p.of = q.of
BY DEF Wanted, UsersLists, PolicyLists, OwnList, AdminLists, DetailLists, ReviewerLists

LEMMA WantedKind ==
  ASSUME NEW r, NEW id, NEW u, NEW q \in Wanted(r, id, u)
  PROVE  q.kind \in Kinds
BY DEF Wanted, UsersLists, PolicyLists, OwnList, AdminLists, DetailLists, ReviewerLists,
       Kinds, Tables

LEMMA ListTurned ==
  ASSUME Turned
  PROVE  ListInv'
<1>1. PICK id \in Rows \cup {NoRow}, l \in BOOLEAN : MountLists(id, user', l)
  BY DEF Turned
<1>2. call' = Idle /\ param' = id
  BY <1>1 DEF MountLists
<1>3. ASSUME NEW q \in Wanted(at', id, user'), q.kind \notin blurred'
      PROVE  /\ \A f \in fetches' : f.kind = q.kind => f.of = q.of
             /\ \E f \in fetches' : f.kind = q.kind
  <2>1. [n |-> 1, kind |-> q.kind, of |-> q.of] \in fetches'
    BY <1>1 DEF MountLists
  <2>2. ASSUME NEW f \in fetches', f.kind = q.kind
        PROVE  f.of = q.of
    <3>1. \/ \E p \in Wanted(at', id, user') : f = [n |-> 1, kind |-> p.kind, of |-> p.of]
          \/ f.kind \in blurred'
      BY <1>1 DEF MountLists
    <3>2. PICK p \in Wanted(at', id, user') : f = [n |-> 1, kind |-> p.kind, of |-> p.of]
      BY <1>3, <2>2, <3>1
    <3> QED BY <2>2, <3>2, WantedOne
  <2> QED BY <2>1, <2>2
<1>4. ListRight'
  BY <1>2, <1>3 DEF ListRight, InFlight
<1> QED BY <1>2, <1>4 DEF ListInv, CallFits

(* Nothing changes for the lists, or all of them are blurred. *)
LEMMA ListFrame ==
  ASSUME ListInv, UNCHANGED <<at, user, param>>, call' \in {call, Idle},
         \/ UNCHANGED <<db, lists, fetches>> /\ blurred \subseteq blurred'
         \/ blurred' = Kinds
  PROVE  ListInv'
<1>1. CallFits'
  BY DEF ListInv, CallFits, ListOf, ScopeOf, Super
<1>2. ListRight'
  <2>1. CASE UNCHANGED <<db, lists, fetches>> /\ blurred \subseteq blurred'
    <3>1. \A q : Answer(q, user)' = Answer(q, user)
      BY <2>1 DEF Answer, RowsOf
    <3>2. \A k : InFlight(k)' = InFlight(k)
      BY <2>1 DEF InFlight
    <3>3. /\ Wanted(at', param', user') = Wanted(at, param, user)
          /\ lists' = lists
      BY <2>1
    <3> QED BY <2>1, <3>1, <3>2, <3>3 DEF ListInv, ListRight
  <2>2. CASE blurred' = Kinds
    BY <2>2, WantedKind DEF ListRight
  <2> QED BY <2>1, <2>2
<1> QED BY <1>1, <1>2 DEF ListInv

(* A reply that is refused has changed nothing. *)
LEMMA RefusedKeeps ==
  ASSUME NEW c \in Calls, ~Ok(c)
  PROVE  Effect(c) = db
<1>1. CASE c.op = "create"
  BY <1>1 DEF Ok, Effect
<1>2. CASE c.op = "delete"
  BY <1>2 DEF Ok, Effect
<1>3. CASE c.op \in {"release", "deleteCase"}
  BY <1>3 DEF Ok, Effect
<1> QED BY <1>1, <1>2, <1>3 DEF Calls

(* Only the removal of an organisation changes rows of other tables. *)
LEMMA EffectOfTable ==
  ASSUME NEW c \in Calls, NEW k, k # Kind[c.row], ~(c.op = "delete" /\ Kind[c.row] = "org")
  PROVE  {r \in Effect(c) : Kind[r] = k} = {r \in db : Kind[r] = k}
<1>1. c.row \in Rows /\ Kind[Released[c.row]] = Kind[c.row]
  BY RowsAssumption DEF Calls
<1>2. CASE c.op = "create"
  BY <1>1, <1>2 DEF Effect
<1>3. CASE c.op = "release"
  BY <1>1, <1>3 DEF Effect
<1>4. CASE c.op = "delete" /\ Kind[c.row] # "org"
  BY <1>1, <1>4 DEF Effect
<1>5. CASE c.op = "deleteCase"
  BY <1>1, <1>5 DEF Effect
<1> QED BY <1>2, <1>3, <1>4, <1>5 DEF Calls

(* The page asks again for what its write changes. *)
LEMMA CallFitsPage ==
  ASSUME TypeOK, MineInv, NEW r \in Rows,
         \/ CreateUser(r) \/ CreatePolicy(r) \/ CreateHold(r) \/ CreateCase(r) \/ CreateOrg(r)
         \/ DeleteUser(r) \/ DeletePolicy(r) \/ DeleteOrg(r) \/ ReleaseHold(r)
  PROVE  CallFits'
<1>0. /\ \A k \in {"user", "policy", "org"} : \A x \in lists[k] : Kind[x] = k
      /\ user \in Users => RoleOf[user] \in {"super_admin", "client_admin", "auditor"}
      /\ user \in Users \cup {NoUser}
  BY SessionAssumption DEF MineInv, ListsMine, Kinds, Tables, TypeOK, SessionTypeOK
<1>1. ASSUME NEW op \in {"create", "delete", "release"}, Starts(op, r),
             \A q \in Wanted(at, param, user) :
               \/ /\ op # "release" /\ q.kind = Kind[r]
                  /\ q.of = IF Kind[r] \in {"hold", "case"} THEN OrgOf[user] ELSE ScopeOf(user)
               \/ op = "release" /\ q.kind = "detail" /\ q.of = param
               \/ q.kind \in {"org", "agent"} \ {Kind[r]}
      PROVE  CallFits'
  <2>1. /\ UNCHANGED <<at, user, oaUser, param>>
        /\ call' = [op |-> op, row |-> r, by |-> user]
    BY <1>1 DEF Starts, sessionVars
  <2> QED BY <1>1, <2>1 DEF CallFits, ListOf, ScopeOf, Super
<1>2. CASE CreateUser(r) \/ DeleteUser(r)
  <2>1. Kind[r] = "user" /\ at = "/admin/users" /\ (Starts("create", r) \/ Starts("delete", r))
    BY <1>0, <1>2, RowsAssumption DEF CreateUser, DeleteUser, NewUsers
  <2>2. \A q \in Wanted(at, param, user) :
          (q.kind = "user" /\ q.of = ScopeOf(user)) \/ q.kind = "org"
    BY <2>1 DEF Wanted, UsersLists, ScopeOf
  <2> QED BY <1>1, <2>1, <2>2
<1>3. CASE CreatePolicy(r) \/ DeletePolicy(r)
  <2>1. /\ Kind[r] = "policy" /\ at = "/admin/retention"
        /\ Starts("create", r) \/ Starts("delete", r)
    BY <1>0, <1>3 DEF CreatePolicy, DeletePolicy, NewPolicies
  <2>2. \A q \in Wanted(at, param, user) : q.kind = "policy" /\ q.of = ScopeOf(user)
    BY <2>1 DEF Wanted, PolicyLists
  <2> QED BY <1>1, <2>1, <2>2
<1>4. CASE CreateHold(r)
  <2>1. Kind[r] = "hold" /\ at = "/admin/holds" /\ Starts("create", r)
    BY <1>4 DEF CreateHold, NewHolds
  <2>2. \A q \in Wanted(at, param, user) : q.kind = "hold" /\ q.of = OrgOf[user]
    BY <2>1 DEF Wanted, OwnList
  <2> QED BY <1>1, <2>1, <2>2
<1>5. CASE CreateCase(r)
  <2>1. Kind[r] = "case" /\ at = "/admin/cases" /\ Starts("create", r)
    BY <1>5 DEF CreateCase, NewCases
  <2>2. \A q \in Wanted(at, param, user) : q.kind = "case" /\ q.of = OrgOf[user]
    BY <2>1 DEF Wanted, OwnList
  <2> QED BY <1>1, <2>1, <2>2
<1>6. CASE CreateOrg(r) \/ DeleteOrg(r)
  <2>1. Kind[r] = "org" /\ OrgForm /\ (Starts("create", r) \/ Starts("delete", r))
    BY <1>0, <1>6 DEF CreateOrg, DeleteOrg, NewOrgs
  <2>2. \A q \in Wanted(at, param, user) :
          (q.kind = "org" /\ q.of = ScopeOf(user)) \/ q.kind = "agent"
    BY <2>1 DEF Wanted, AdminLists, OrgForm, ScopeOf
  <2> QED BY <1>1, <2>1, <2>2
<1>7. CASE ReleaseHold(r)
  <2>1. at = "/admin/hold-view" /\ Starts("release", r)
    BY <1>7 DEF ReleaseHold
  <2>2. \A q \in Wanted(at, param, user) : q.kind = "detail" /\ q.of = param
    BY <2>1 DEF Wanted, DetailLists
  <2> QED BY <1>1, <2>1, <2>2
<1> QED BY <1>2, <1>3, <1>4, <1>5, <1>6, <1>7

LEMMA ListAnswered ==
  ASSUME TypeOK, ListInv, CallAnswered
  PROVE  ListInv'
<1> DEFINE k == ListOf(call).kind
           W == Wanted(at, param, user)
<1>0. /\ UNCHANGED <<at, user, oaUser, lists, param>> /\ call' = Idle
      /\ db' = Effect(call) /\ call # Idle /\ call.op # "deleteCase"
  BY DEF CallAnswered, sessionVars
<1>1. call \in Calls
  BY <1>0 DEF TypeOK, ListTypeOK
<1>2. CASE ~Ok(call)
  <2>1. UNCHANGED <<db, fetches, blurred>>
    BY <1>0, <1>1, <1>2, RefusedKeeps DEF CallAnswered
  <2> QED BY <1>0, <2>1, ListFrame
<1>3. CASE Ok(call)
  <2>1. PICK n \in 1..MaxSame :
          fetches' = fetches \cup {[n |-> n, kind |-> k, of |-> ListOf(call).of]}
    BY <1>3 DEF CallAnswered, Refetch
  <2>2. /\ blurred' = (IF InFlight(k) = {} THEN blurred \ {k} ELSE blurred \cup {k})
                        \cup (IF call.op = "delete" THEN {"agent"} ELSE {})
    BY <1>3 DEF CallAnswered, Refetch
  <2>3. ASSUME NEW q \in W, q.kind \notin blurred'
        PROVE  /\ \A f \in fetches' : f.kind = q.kind => f.of = q.of
               /\ (\A f \in fetches' : f.kind # q.kind) => lists[q.kind] = Answer(q, user)'
    <3>1. CASE q.kind = k
      <4>1. InFlight(k) = {}
        BY <2>2, <2>3, <3>1
      <4>2. k \notin {"org", "agent"} \ {Kind[call.row]}
        BY DEF ListOf
      <4>3. q.of = ListOf(call).of
        BY <1>0, <3>1, <4>2 DEF ListInv, CallFits
      <4>4. \A f \in fetches : f.kind # k
        BY <4>1 DEF InFlight
      <4>5. \A f \in fetches' : f \in fetches \/ (f.kind = k /\ f.of = ListOf(call).of)
        BY <2>1
      <4>6. \E f \in fetches' : f.kind = k
        <5> DEFINE g == [n |-> n, kind |-> k, of |-> ListOf(call).of]
        <5>1. g \in fetches' /\ g.kind = k
          BY <2>1
        <5> QED BY <5>1
      <4> QED BY <3>1, <4>3, <4>4, <4>5, <4>6
    <3>2. CASE q.kind # k
      <4>1. q.kind \in {"org", "agent"} \ {Kind[call.row]} /\ q.kind \notin blurred
        BY <1>0, <2>2, <2>3, <3>2 DEF ListInv, CallFits
      <4>2. ~(call.op = "delete" /\ Kind[call.row] = "org")
        BY <2>2, <2>3, <4>1
      <4>3. {r \in db' : Kind[r] = q.kind} = {r \in db : Kind[r] = q.kind}
        BY <1>0, <1>1, <4>1, <4>2, EffectOfTable
      <4>4. Answer(q, user)' = Answer(q, user)
        BY <4>1, <4>3 DEF Answer
      <4>5. /\ \A f \in fetches : f.kind = q.kind => f.of = q.of
            /\ (\A f \in fetches : f.kind # q.kind) => lists[q.kind] = Answer(q, user)
        BY <2>3, <4>1 DEF ListInv, ListRight, InFlight
      <4> QED BY <2>1, <3>2, <4>4, <4>5
    <3> QED BY <3>1, <3>2
  <2>4. ListRight'
    BY <1>0, <2>3 DEF ListRight, InFlight
  <2> QED BY <1>0, <2>4 DEF ListInv, CallFits
<1> QED BY <1>2, <1>3

LEMMA ListArrived ==
  ASSUME TypeOK, ListInv, NEW f \in fetches, ListSettles(f)
  PROVE  ListInv'
<1>0. /\ UNCHANGED <<at, user, param, call, db>> /\ fetches' = fetches \ {f}
      /\ f.kind \in Kinds /\ lists \in [Kinds -> SUBSET Rows]
  BY DEF ListSettles, ListArrives, ListFails, sessionVars, TypeOK, ListTypeOK, Fetches
<1>1. \/ lists' = [lists EXCEPT ![f.kind] = Answer(f, user)] /\ blurred' = blurred
      \/ lists' = lists /\ blurred' = blurred \cup {f.kind}
  BY DEF ListSettles, ListArrives, ListFails
<1>2. ASSUME NEW q \in Wanted(at, param, user), q.kind \notin blurred'
      PROVE  /\ \A g \in fetches' : g.kind = q.kind => g.of = q.of
             /\ (\A g \in fetches' : g.kind # q.kind) => lists'[q.kind] = Answer(q, user)
  <2>1. /\ \A g \in fetches : g.kind = q.kind => g.of = q.of
        /\ (\A g \in fetches : g.kind # q.kind) => lists[q.kind] = Answer(q, user)
    BY <1>1, <1>2 DEF ListInv, ListRight, InFlight
  <2>2. CASE f.kind = q.kind
    <3>1. Answer(f, user) = Answer(q, user)
      BY <2>1, <2>2 DEF Answer, RowsOf
    <3>2. lists'[q.kind] = Answer(f, user)
      BY <1>0, <1>1, <1>2, <2>2
    <3> QED BY <1>0, <2>1, <3>1, <3>2
  <2>3. CASE f.kind # q.kind
    <3>1. lists'[q.kind] = lists[q.kind]
      BY <1>0, <1>1, <2>3, WantedKind
    <3> QED BY <1>0, <2>1, <2>3, <3>1
  <2> QED BY <2>2, <2>3
<1>3. \A q : Answer(q, user)' = Answer(q, user)
  BY <1>0 DEF Answer, RowsOf
<1>4. ListRight'
  BY <1>0, <1>2, <1>3 DEF ListRight, InFlight
<1>5. CallFits'
  BY <1>0 DEF ListInv, CallFits, ListOf, ScopeOf, Super
<1> QED BY <1>4, <1>5 DEF ListInv

LEMMA ListStep == TypeOK /\ MineInv /\ ListInv /\ [Next]_vars => ListInv'
<1> SUFFICES ASSUME TypeOK, MineInv, ListInv, [Next]_vars PROVE ListInv'
  OBVIOUS
<1>1. CASE Moves
  BY <1>1, MovesStep, ListTurned
<1>2. CASE CaseDeleted
  <2>1. call \in Calls
    BY <1>2 DEF CaseDeleted, TypeOK, ListTypeOK
  <2>2. CASE Ok(call)
    <3>1. Turned
      <4>1. NoRow \in Rows \cup {NoRow} /\ FALSE \in BOOLEAN
        OBVIOUS
      <4> QED BY <1>2, <2>2, <4>1 DEF CaseDeleted, Follow, Turned
    <3> QED BY <3>1, ListTurned
  <2>3. CASE ~Ok(call)
    <3>1. /\ UNCHANGED <<at, user, param, lists, fetches, blurred>> /\ call' = Idle
          /\ db' = db
      BY <1>2, <2>1, <2>3, RefusedKeeps DEF CaseDeleted, sessionVars
    <3> QED BY <3>1, ListFrame
  <2> QED BY <2>2, <2>3
<1>3. ASSUME NEW c \in tail, LateDeletion(c)
      PROVE  ListInv'
  <2>1. CASE MountLists(NoRow, user, FALSE) /\ MountBoard(NoRow, user)
    <3>1. Turned
      <4>1. NoRow \in Rows \cup {NoRow} /\ FALSE \in BOOLEAN /\ user' = user
        BY <1>3 DEF LateDeletion
      <4> QED BY <2>1, <4>1 DEF Turned
    <3> QED BY <3>1, ListTurned
  <2>2. CASE blurred' = Kinds /\ UNCHANGED <<at, user, call, param>>
    BY <2>2, ListFrame
  <2>3. CASE UNCHANGED <<at, user, db, listPageVars>>
    BY <2>3, ListFrame DEF listPageVars
  <2> QED BY <1>3, <2>1, <2>2, <2>3 DEF LateDeletion
<1>4. CASE OnLists
  <2>1. CASE ListUser
    <3>1. PICK r \in Rows :
            \/ CreateUser(r) \/ CreatePolicy(r) \/ CreateHold(r) \/ CreateCase(r)
            \/ CreateOrg(r) \/ DeleteUser(r) \/ DeletePolicy(r) \/ DeleteOrg(r)
            \/ ReleaseHold(r)
      BY <2>1 DEF ListUser
    <3>2. CallFits'
      BY <3>1, CallFitsPage
    <3>3. UNCHANGED <<at, user, param, db, lists, fetches, blurred>>
      BY <3>1, UserCalls DEF sessionVars
    <3>4. ListRight'
      <4>1. \A q : Answer(q, user)' = Answer(q, user)
        BY <3>3 DEF Answer, RowsOf
      <4>2. \A k : InFlight(k)' = InFlight(k)
        BY <3>3 DEF InFlight
      <4> QED BY <3>3, <4>1, <4>2 DEF ListInv, ListRight
    <3> QED BY <3>2, <3>4 DEF ListInv
  <2>2. ASSUME NEW f \in fetches, ListSettles(f) PROVE ListInv'
    BY <2>2, ListArrived
  <2>3. CASE CallAnswered
    BY <2>3, ListAnswered
  <2>4. CASE CallFails \/ (\E c \in tail : LateWrite(c)) \/ (\E r \in OtherRows : OtherAdmin(r))
    BY <2>4, ListFrame DEF CallFails, LateWrite, OtherAdmin, sessionVars
  <2> QED BY <1>4, <2>1, <2>2, <2>3, <2>4 DEF OnLists, ListCore
<1>5. CASE OnBoard
  <2>1. CASE HandleDeleteCase
    <3>1. /\ UNCHANGED <<at, user, param, db, lists, fetches, blurred>>
          /\ call'.op = "deleteCase"
      BY <2>1 DEF HandleDeleteCase, Starts, sessionVars
    <3>2. ListRight'
      <4>1. \A q : Answer(q, user)' = Answer(q, user)
        BY <3>1 DEF Answer, RowsOf
      <4>2. \A k : InFlight(k)' = InFlight(k)
        BY <3>1 DEF InFlight
      <4> QED BY <3>1, <4>1, <4>2 DEF ListInv, ListRight
    <3> QED BY <3>1, <3>2 DEF ListInv, CallFits
  <2>2. CASE ~HandleDeleteCase
    <3>1. UNCHANGED <<sessionVars, listVars>>
      BY <1>5, <2>2, BoardSetsStep DEF OnBoard
    <3> QED BY <3>1, ListFrame DEF sessionVars, listVars, listPageVars
  <2> QED BY <2>1, <2>2
<1>6. CASE UNCHANGED vars
  BY <1>6, ListFrame DEF vars, sessionVars, listVars, listPageVars
<1> QED BY <1>1, <1>2, <1>3, <1>4, <1>5, <1>6 DEF Next, Moves

(* A list that has settled shows what the core has, for any users, rows    *)
(* and number of requests in flight, as long as no reply for it may have   *)
(* been passed by another, lost or outdated by somebody else: every write  *)
(* of a page is followed by a request for each list it changes.            *)
THEOREM QuietListsAreRight == Spec => []QuietListIsRight
<1>1. Init => ListInv
  BY DEF Init, SessionInit, ListInit, ListInv, ListRight, CallFits, Wanted
<1>2. ListInv => QuietListIsRight
  BY DEF ListInv, ListRight, InFlight, QuietListIsRight
<1> QED BY <1>1, <1>2, ListStep, TypeCorrect, PTL DEF Spec

-----------------------------------------------------------------------------
(* Boards.  An item on which nothing has crossed is on the page as it is   *)
(* in the core, with writes in flight too: each of them changes the item   *)
(* in both places in the step in which it is answered.  That needs three   *)
(* facts besides: no page is shown before its items are asked for, nothing *)
(* on the page of one's assignments takes an item from somebody, and what  *)
(* the items refer to exists.                                              *)
AgreesOn(i) ==
  /\ i \in DOMAIN copy <=> i \in Shown
  /\ i \in DOMAIN copy => copy[i] = file[i]

BoardRight == OnCase \/ OnReview => \A i \in Items \ crossed : AgreesOn(i)

AskInv == boardAsk => boardLoading /\ ~info

ReviewInv == at = "/admin/review" => \A e \in edits : e.op # "assign"

FileSound == \A i \in DOMAIN file : CaseOf[i] \in db /\ file[i].who \in db \cup {NoRow}

BoardInv == BoardRight /\ AskInv /\ ReviewInv /\ FileSound

(* What a write makes of an item. *)
Revised(e, i, r) ==
  CASE e.op = "tag" /\ i = e.item      -> [r EXCEPT !.tags = e.tags]
    [] e.op = "status" /\ i = e.item   -> [r EXCEPT !.status = e.status]
    [] e.op = "assign" /\ i \in e.items -> [r EXCEPT !.who = e.who]
    [] OTHER                           -> r

LEMMA AfterAt ==
  ASSUME NEW e \in Edits, NEW f \in Files, NEW i
  PROVE  /\ i \in DOMAIN After(e, f) <=> i \in DOMAIN f /\ ~(e.op = "remove" /\ i = e.item)
         /\ i \in DOMAIN After(e, f) => After(e, f)[i] = Revised(e, i, f[i])
<1>1. CASE e.op = "remove"
  BY <1>1 DEF After, Revised
<1>2. CASE e.op = "tag"
  BY <1>2 DEF After, Revised
<1>3. CASE e.op = "status"
  BY <1>3 DEF After, Revised
<1>4. CASE e.op = "assign"
  BY <1>4 DEF After, Revised
<1>5. CASE e.op \notin {"remove", "tag", "status", "assign"}
  BY <1>5 DEF After, Revised
<1> QED BY <1>1, <1>2, <1>3, <1>4, <1>5

LEMMA RevisedWho ==
  ASSUME NEW e \in Edits, NEW i, NEW r \in Record
  PROVE  Revised(e, i, r).who = IF e.op = "assign" /\ i \in e.items THEN e.who ELSE r.who
BY DEF Revised, Record

LEMMA UntouchedStays ==
  ASSUME NEW e \in Edits, NEW f \in Files, NEW i, i \notin Touched(e)
  PROVE  /\ i \in DOMAIN After(e, f) <=> i \in DOMAIN f
         /\ i \in DOMAIN f => After(e, f)[i] = f[i]
<1>1. /\ e.op \in {"remove", "tag", "status"} => i # e.item
      /\ e.op = "assign" => i \notin e.items
  BY DEF Touched
<1>2. Revised(e, i, f[i]) = f[i]
  BY <1>1 DEF Revised
<1> QED BY <1>1, <1>2, AfterAt

(* The references of the items stay good. *)
LEMMA AfterSound ==
  ASSUME NEW e \in Edits, NEW f \in Files, e.op = "assign" => e.who \in db,
         \A i \in DOMAIN f : CaseOf[i] \in db /\ f[i].who \in db \cup {NoRow}
  PROVE  \A i \in DOMAIN After(e, f) :
           CaseOf[i] \in db /\ After(e, f)[i].who \in db \cup {NoRow}
<1> SUFFICES ASSUME NEW i \in DOMAIN After(e, f)
             PROVE  CaseOf[i] \in db /\ After(e, f)[i].who \in db \cup {NoRow}
  OBVIOUS
<1>1. i \in DOMAIN f /\ After(e, f)[i] = Revised(e, i, f[i])
  BY AfterAt
<1>2. f[i] \in Record
  BY <1>1, FilesDef
<1> QED BY <1>1, <1>2, RevisedWho

LEMMA FollowsSound ==
  ASSUME file \in Files, FileFollows
  PROVE  FileSound'
<1> SUFFICES ASSUME NEW i \in DOMAIN file'
             PROVE  CaseOf[i] \in db' /\ file'[i].who \in db' \cup {NoRow}
  BY DEF FileSound
<1>1. i \in DOMAIN file /\ CaseOf[i] \in db'
      /\ file'[i] = IF file[i].who \in db' THEN file[i] ELSE [file[i] EXCEPT !.who = NoRow]
  BY DEF FileFollows
<1>2. file[i] \in Record
  BY <1>1, FilesDef
<1> QED BY <1>1, <1>2 DEF Record

(* No row has gone: the items stay as they are. *)
LEMMA FollowsSame ==
  ASSUME file \in Files, FileSound, FileFollows, db' = db
  PROVE  file' = file
<1>1. PICK S \in SUBSET Items : file \in [S -> Record]
  BY FilesDef
<1>2. {i \in DOMAIN file : CaseOf[i] \in db'} = S
  BY <1>1 DEF FileSound
<1>3. ASSUME NEW i \in S
      PROVE  (IF file[i].who \in db' THEN file[i] ELSE [file[i] EXCEPT !.who = NoRow]) = file[i]
  BY <1>1, <1>3 DEF FileSound, Record
<1> QED BY <1>1, <1>2, <1>3 DEF FileFollows

-----------------------------------------------------------------------------
LEMMA BoardTurned ==
  ASSUME Turned
  PROVE  BoardRight' /\ AskInv' /\ ReviewInv'
<1>1. PICK id \in Rows \cup {NoRow} : MountBoard(id, user')
  BY DEF Turned
<1>2. /\ ~info' /\ edits' = {}
      /\ boardAsk' => boardLoading'
      /\ at' = "/admin/review" => boardLoading'
  BY <1>1, Zenon DEF MountBoard
<1>3. BoardRight' /\ AskInv'
  BY <1>2, Zenon DEF BoardRight, AskInv, OnCase, OnReview
<1> QED BY <1>2, <1>3 DEF ReviewInv

(* Steps after which the page is the same and every item that changes in   *)
(* the core counts as crossed.                                             *)
LEMMA BoardFrame ==
  ASSUME BoardRight, AskInv,
         UNCHANGED <<at, user, param, copy, info, boardLoading, boardAsk>>,
         \A i \in Items \ crossed' :
           /\ i \notin crossed
           /\ i \in DOMAIN file' <=> i \in DOMAIN file
           /\ i \in DOMAIN file => file'[i] = file[i]
  PROVE  BoardRight' /\ AskInv'
<1>1. AskInv'
  BY Zenon DEF AskInv
<1>2. OnCase' \/ OnReview' => OnCase \/ OnReview
  BY Zenon DEF OnCase, OnReview
<1>3. ASSUME NEW i \in Items \ crossed', AgreesOn(i)
      PROVE  AgreesOn(i)'
  <2>1. i \in Shown' <=> i \in Shown
    BY <1>3 DEF Shown, Assigned, ItemsOfCase
  <2>2. i \in Shown => i \in DOMAIN file
    BY DEF Shown, Assigned, ItemsOfCase
  <2> QED BY <1>3, <2>1, <2>2 DEF AgreesOn
<1>4. BoardRight'
  BY <1>2, <1>3 DEF BoardRight
<1> QED BY <1>1, <1>4

(* Every step keeps what the items refer to. *)
LEMMA LeaveSound ==
  ASSUME TypeOK, FileSound, Moves
  PROVE  FileSound'
<1>1. LeaveBoard /\ db' = db
  BY DEF Moves, SignIn, SignOut, Browse, Load, Turn, LeaveLists
<1>2. file \in Files /\ edits \subseteq Edits
  BY DEF TypeOK, BoardTypeOK
<1>3. CASE file' = file
  BY <1>1, <1>3 DEF FileSound
<1>4. ASSUME NEW d \in edits, NEW e \in edits, EditOk(d), EditOk(e),
             file' = After(d, After(e, file))
      PROVE  FileSound'
  <2>1. (d.op = "assign" => d.who \in db) /\ (e.op = "assign" => e.who \in db)
    BY <1>4 DEF EditOk
  <2>2. \A i \in DOMAIN After(e, file) :
          CaseOf[i] \in db /\ After(e, file)[i].who \in db \cup {NoRow}
    BY <1>2, <2>1, AfterSound DEF FileSound
  <2>3. After(e, file) \in Files
    BY <1>2, AfterType
  <2>4. \A i \in DOMAIN file' : CaseOf[i] \in db /\ file'[i].who \in db \cup {NoRow}
    BY <1>2, <1>4, <2>1, <2>2, <2>3, AfterSound
  <2> QED BY <1>1, <2>4 DEF FileSound
<1> QED BY <1>1, <1>3, <1>4 DEF LeaveBoard

LEMMA EditSound ==
  ASSUME TypeOK, FileSound, NEW e \in edits, EditSettles(e)
  PROVE  FileSound'
<1>1. e \in Edits /\ file \in Files
  BY DEF TypeOK, BoardTypeOK
<1>2. db' = db /\ (file' = file \/ (EditOk(e) /\ file' = After(e, file)))
  BY DEF EditSettles, EditAnswered, EditFails, listVars
<1>3. CASE file' = file
  BY <1>2, <1>3 DEF FileSound
<1>4. CASE EditOk(e) /\ file' = After(e, file)
  <2>1. e.op = "assign" => e.who \in db
    BY <1>4 DEF EditOk
  <2>2. \A i \in DOMAIN file' : CaseOf[i] \in db /\ file'[i].who \in db \cup {NoRow}
    BY <1>1, <1>4, <2>1, AfterSound DEF FileSound
  <2> QED BY <1>2, <2>2 DEF FileSound
<1> QED BY <1>2, <1>3, <1>4

LEMMA SoundStep == TypeOK /\ FileSound /\ [Next]_vars => FileSound'
<1> SUFFICES ASSUME TypeOK, FileSound, [Next]_vars PROVE FileSound'
  OBVIOUS
<1>0. file \in Files
  BY DEF TypeOK, BoardTypeOK
<1>1. CASE Moves
  BY <1>1, LeaveSound
<1>2. CASE Deletion \/ OnLists
  <2>1. FileFollows \/ UNCHANGED <<db, file>>
    BY <1>2 DEF Deletion, CaseDeleted, LateDeletion, OnLists, boardVars
  <2> QED BY <1>0, <2>1, FollowsSound DEF FileSound
<1>3. CASE OnBoard
  <2>1. ASSUME NEW e \in edits, EditSettles(e) PROVE FileSound'
    BY <2>1, EditSound
  <2>2. ASSUME NEW i \in Items, NEW t \in Tags, OtherReviewer(i, t) PROVE FileSound'
    <3>1. PICK S \in SUBSET Items : file \in [S -> Record]
      BY <1>0, FilesDef
    <3>2. /\ db' = db /\ DOMAIN file' = DOMAIN file
          /\ \A j \in DOMAIN file : file'[j].who = file[j].who
      BY <2>2, <3>1 DEF OtherReviewer, listVars, Record
    <3> QED BY <3>2 DEF FileSound
  <2>3. CASE BoardUser \/ BoardArrives \/ BoardFails
    <3>1. UNCHANGED <<db, file>>
      BY <2>3
         DEF BoardUser, SelectAll, HandleBatchAssign, HandleExport, HandleDeleteCase, OpenModal,
             Choose, Select, HandleRemoveItem, HandleTagUpdate, UpdateStatus, Begin, Starts,
             BoardArrives, BoardFails, boardVars, listVars
    <3> QED BY <3>1 DEF FileSound
  <2> QED BY <1>3, <2>1, <2>2, <2>3 DEF OnBoard, BoardCore
<1>4. CASE UNCHANGED vars
  BY <1>4 DEF vars, listVars, boardVars, FileSound
<1> QED BY <1>1, <1>2, <1>3, <1>4 DEF Next, Moves, Deletion

-----------------------------------------------------------------------------
(* The reply to a write changes an item on the page as it did in the core. *)
LEMMA BoardAnswered ==
  ASSUME TypeOK, BoardRight, AskInv, ReviewInv, NEW e \in edits, EditAnswered(e)
  PROVE  BoardRight' /\ AskInv'
<1>0. e \in Edits /\ file \in Files /\ copy \in Files
  BY DEF TypeOK, BoardTypeOK
<1>1. UNCHANGED <<at, user, param, info, boardLoading, boardAsk, crossed>>
  BY DEF EditAnswered, sessionVars, listVars, listPageVars
<1>2. CASE ~EditOk(e)
  <2>1. UNCHANGED <<file, copy>>
    BY <1>2 DEF EditAnswered
  <2> QED BY <1>1, <2>1, BoardFrame
<1>3. CASE EditOk(e)
  <2>1. file' = After(e, file) /\ copy' = After(e, copy)
    BY <1>3 DEF EditAnswered
  <2>2. AskInv'
    BY <1>1, Zenon DEF AskInv
  <2>3. ASSUME NEW i \in Items, AgreesOn(i) PROVE AgreesOn(i)'
    <3> DEFINE gone == e.op = "remove" /\ i = e.item
    <3>1. /\ i \in DOMAIN file' <=> i \in DOMAIN file /\ ~gone
          /\ i \in DOMAIN file' => file'[i] = Revised(e, i, file[i])
          /\ i \in DOMAIN copy' <=> i \in DOMAIN copy /\ ~gone
          /\ i \in DOMAIN copy' => copy'[i] = Revised(e, i, copy[i])
      BY <1>0, <2>1, AfterAt
    <3>2. i \in Shown' <=> i \in Shown /\ ~gone
      <4>1. CASE at = "/admin/review"
        <5>1. e.op # "assign"
          BY <4>1 DEF ReviewInv
        <5>2. i \in DOMAIN file' => file'[i].who = file[i].who
          <6>1. i \in DOMAIN file => file[i] \in Record
            BY <1>0, FilesDef
          <6>2. i \in DOMAIN file => Revised(e, i, file[i]).who = file[i].who
            BY <1>0, <5>1, <6>1, RevisedWho
          <6> QED BY <3>1, <6>2
        <5> HIDE DEF gone
        <5> QED BY <1>1, <3>1, <4>1, <5>2 DEF Shown, Assigned
      <4>2. CASE at # "/admin/review"
        <5> HIDE DEF gone
        <5> QED BY <1>1, <3>1, <4>2 DEF Shown, ItemsOfCase
      <4> QED BY <4>1, <4>2
    <3>3. i \in Shown => i \in DOMAIN file
      BY DEF Shown, Assigned, ItemsOfCase
    <3> HIDE DEF gone
    <3> QED BY <2>3, <3>1, <3>2, <3>3 DEF AgreesOn
  <2>4. OnCase' \/ OnReview' => OnCase \/ OnReview
    BY <1>1, Zenon DEF OnCase, OnReview
  <2> QED BY <1>1, <2>2, <2>3, <2>4 DEF BoardRight
<1> QED BY <1>2, <1>3

(* The items arrive. *)
LEMMA BoardArrived ==
  ASSUME AskInv, BoardArrives
  PROVE  BoardRight' /\ AskInv'
<1>1. AskInv'
  BY Zenon DEF AskInv, BoardArrives
<1>2. UNCHANGED <<at, user, param, file>> /\ Shown' = Shown
  BY DEF BoardArrives, sessionVars, listVars, listPageVars, Shown, Assigned, ItemsOfCase
<1>3. CASE at = "/admin/review" \/ param \in RowsOf("case", OrgOf[user])
  <2>1. copy' = [i \in Shown |-> file[i]]
    BY <1>3, Zenon DEF BoardArrives
  <2> QED BY <1>1, <1>2, <2>1 DEF BoardRight, AgreesOn
<1>4. CASE ~(at = "/admin/review" \/ param \in RowsOf("case", OrgOf[user]))
  <2>1. ~info' /\ at' # "/admin/review"
    BY <1>2, <1>4, Zenon DEF BoardArrives, AskInv
  <2> QED BY <1>1, <2>1, Zenon DEF BoardRight, OnCase, OnReview
<1> QED BY <1>3, <1>4

LEMMA BoardKept ==
  ASSUME TypeOK, BoardRight, AskInv, ReviewInv, OnBoard
  PROVE  BoardRight' /\ AskInv'
<1>0. file \in Files /\ edits \subseteq Edits
  BY DEF TypeOK, BoardTypeOK
<1>1. CASE BoardUser
  <2>1. CASE \/ HandleBatchAssign \/ HandleExport
             \/ \E i \in Items : HandleRemoveItem(i)
             \/ \E i \in Items, t \in Tags : HandleTagUpdate(i, t)
             \/ \E i \in Items, s \in Statuses : UpdateStatus(i, s)
    <3>1. PICK e \in Edits : Begin(e)
      BY <2>1, BeginsEdit
    <3>2. /\ UNCHANGED <<at, user, param, copy, info, boardLoading, boardAsk, file>>
          /\ crossed \subseteq crossed'
      BY <3>1 DEF Begin, sessionVars, listVars, listPageVars
    <3> QED BY <3>2, BoardFrame
  <2>2. CASE \/ \E i \in Items : Select(i)
             \/ SelectAll \/ HandleDeleteCase
             \/ \E w \in {"none", "assign", "export"} : OpenModal(w)
             \/ \E r \in ClientAdmins : Choose(r)
    <3>1. UNCHANGED <<at, user, param, copy, info, boardLoading, boardAsk, file, crossed>>
      BY <2>2 DEF Select, SelectAll, HandleDeleteCase, OpenModal, Choose, Starts, boardVars,
                  sessionVars, listVars, listPageVars
    <3> QED BY <3>1, BoardFrame
  <2> QED BY <1>1, <2>1, <2>2 DEF BoardUser
<1>2. CASE BoardArrives
  BY <1>2, BoardArrived
<1>3. CASE BoardFails
  <2>1. AskInv'
    BY <1>3, Zenon DEF BoardFails, AskInv
  <2> QED BY <1>3, <2>1 DEF BoardFails, BoardRight
<1>4. ASSUME NEW e \in edits, EditSettles(e) PROVE BoardRight' /\ AskInv'
  <2>1. CASE EditAnswered(e)
    BY <2>1, BoardAnswered
  <2>2. CASE EditFails(e)
    <3>1. /\ UNCHANGED <<at, user, param, copy, info, boardLoading, boardAsk>>
          /\ crossed' = crossed \cup Touched(e)
          /\ file' = file \/ file' = After(e, file)
      BY <2>2 DEF EditFails, sessionVars, listVars, listPageVars
    <3>2. \A i \in Items \ crossed' :
            /\ i \notin crossed
            /\ i \in DOMAIN file' <=> i \in DOMAIN file
            /\ i \in DOMAIN file => file'[i] = file[i]
      BY <1>0, <3>1, UntouchedStays
    <3> QED BY <3>1, <3>2, BoardFrame
  <2> QED BY <1>4, <2>1, <2>2 DEF EditSettles
<1>5. ASSUME NEW i \in Items, NEW t \in Tags, OtherReviewer(i, t) PROVE BoardRight' /\ AskInv'
  <2>1. /\ UNCHANGED <<at, user, param, copy, info, boardLoading, boardAsk>>
        /\ crossed' = crossed \cup {i}
    BY <1>5 DEF OtherReviewer, sessionVars, listVars, listPageVars
  <2>2. PICK S \in SUBSET Items : file \in [S -> Record]
    BY <1>0, FilesDef
  <2>3. DOMAIN file' = DOMAIN file /\ \A j \in DOMAIN file \ {i} : file'[j] = file[j]
    BY <1>5, <2>2 DEF OtherReviewer
  <2> QED BY <2>1, <2>3, BoardFrame
<1> QED BY <1>1, <1>2, <1>3, <1>4, <1>5 DEF OnBoard, BoardCore

(* Only the page of a case assigns items to somebody. *)
LEMMA ReviewKept ==
  ASSUME TypeOK, ReviewInv, OnBoard
  PROVE  ReviewInv'
<1>1. CASE HandleBatchAssign
  <2>1. at' = "/admin/case-view"
    BY <1>1, Zenon DEF HandleBatchAssign, OnCase, Begin, sessionVars
  <2> QED BY <2>1 DEF ReviewInv
<1>2. CASE \/ HandleExport
           \/ \E i \in Items : HandleRemoveItem(i)
           \/ \E i \in Items, t \in Tags : HandleTagUpdate(i, t)
           \/ \E i \in Items, s \in Statuses : UpdateStatus(i, s)
  <2>1. \E e : e.op # "assign" /\ Begin(e)
    <3>1. CASE HandleExport
      BY <3>1 DEF HandleExport
    <3>2. CASE \E i \in Items : HandleRemoveItem(i)
      BY <3>2 DEF HandleRemoveItem
    <3>3. CASE \E i \in Items, t \in Tags : HandleTagUpdate(i, t)
      BY <3>3 DEF HandleTagUpdate
    <3>4. CASE \E i \in Items, s \in Statuses : UpdateStatus(i, s)
      BY <3>4 DEF UpdateStatus
    <3> QED BY <1>2, <3>1, <3>2, <3>3, <3>4
  <2>2. at' = at /\ \A e \in edits' : e \in edits \/ e.op # "assign"
    BY <2>1 DEF Begin, sessionVars
  <2> QED BY <2>2 DEF ReviewInv
<1>3. CASE \/ \E i \in Items : Select(i)
           \/ SelectAll \/ HandleDeleteCase
           \/ \E w \in {"none", "assign", "export"} : OpenModal(w)
           \/ \E r \in ClientAdmins : Choose(r)
           \/ BoardCore
  <2>1. at' = at /\ edits' \subseteq edits
    BY <1>3 DEF Select, SelectAll, HandleDeleteCase, OpenModal, Choose, Starts, boardVars,
                sessionVars, BoardCore, BoardArrives, BoardFails, EditSettles, EditAnswered,
                EditFails, OtherReviewer
  <2> QED BY <2>1 DEF ReviewInv
<1> QED BY <1>1, <1>2, <1>3 DEF OnBoard, BoardUser

(* A deletion keeps the page and its items, or shows another page. *)
LEMMA BoardDeleted ==
  ASSUME TypeOK, BoardInv, Deletion
  PROVE  BoardRight' /\ AskInv' /\ ReviewInv'
<1>0. file \in Files /\ NoRow \in Rows \cup {NoRow} /\ FALSE \in BOOLEAN
  BY DEF TypeOK, BoardTypeOK
<1>1. CASE CaseDeleted
  <2>1. call \in Calls /\ db' = Effect(call) /\ FileFollows
    BY <1>1 DEF CaseDeleted, TypeOK, ListTypeOK
  <2>2. CASE Ok(call)
    <3>1. Turned
      BY <1>0, <1>1, <2>2 DEF CaseDeleted, Follow, Turned
    <3> QED BY <3>1, BoardTurned
  <2>3. CASE ~Ok(call)
    <3>1. file' = file
      BY <1>0, <2>1, <2>3, RefusedKeeps, FollowsSame DEF BoardInv
    <3>2. UNCHANGED <<at, user, param, copy, info, boardLoading, boardAsk, edits, crossed>>
      BY <1>1, <2>3 DEF CaseDeleted, sessionVars
    <3>3. BoardRight' /\ AskInv'
      BY <3>1, <3>2, BoardFrame DEF BoardInv
    <3> QED BY <3>2, <3>3 DEF BoardInv, ReviewInv
  <2> QED BY <2>2, <2>3
<1>2. ASSUME NEW c \in tail, LateDeletion(c)
      PROVE  BoardRight' /\ AskInv' /\ ReviewInv'
  <2>1. CASE MountLists(NoRow, user, FALSE) /\ MountBoard(NoRow, user)
    <3>1. Turned
      <4>1. user' = user
        BY <1>2 DEF LateDeletion
      <4> QED BY <1>0, <2>1, <4>1 DEF Turned
    <3> QED BY <3>1, BoardTurned
  <2>2. CASE /\ crossed' = Items
             /\ UNCHANGED <<at, user, param, copy, info, boardLoading, boardAsk, edits>>
    <3>1. BoardRight' /\ AskInv'
      BY <2>2, BoardFrame DEF BoardInv
    <3> QED BY <2>2, <3>1 DEF BoardInv, ReviewInv
  <2>3. CASE UNCHANGED <<at, user, listPageVars, boardVars>>
    <3>1. UNCHANGED <<at, user, param, copy, info, boardLoading, boardAsk, edits, file, crossed>>
      BY <2>3 DEF listPageVars, boardVars
    <3>2. BoardRight' /\ AskInv'
      BY <3>1, BoardFrame DEF BoardInv
    <3> QED BY <3>1, <3>2 DEF BoardInv, ReviewInv
  <2> QED BY <1>2, <2>1, <2>2, <2>3 DEF LateDeletion
<1> QED BY <1>1, <1>2 DEF Deletion

LEMMA BoardInvStep == TypeOK /\ BoardInv /\ [Next]_vars => BoardInv'
<1> SUFFICES ASSUME TypeOK, BoardInv, [Next]_vars
             PROVE  BoardRight' /\ AskInv' /\ ReviewInv'
  BY SoundStep DEF BoardInv
<1>1. CASE Moves
  BY <1>1, MovesStep, BoardTurned
<1>2. CASE Deletion
  BY <1>2, BoardDeleted
<1>3. CASE OnLists
  <2>1. file \in Files
    BY DEF TypeOK, BoardTypeOK
  <2>2. /\ FileFollows
        /\ crossed' = crossed \cup {i \in DOMAIN file : i \notin DOMAIN file' \/ file'[i] # file[i]}
        /\ UNCHANGED <<copy, info, boardLoading, boardAsk, edits>>
    BY <1>3 DEF OnLists
  <2>3. UNCHANGED <<at, user, param>>
    <3>1. CASE ListUser
      BY <3>1 DEF ListUser, CreateUser, CreatePolicy, CreateHold, CreateCase, CreateOrg,
                  DeleteUser, DeletePolicy, DeleteOrg, ReleaseHold, Starts, sessionVars
    <3>2. CASE ListCore
      BY <3>2 DEF ListCore, ListSettles, ListArrives, ListFails, CallAnswered, CallFails,
                  LateWrite, OtherAdmin, sessionVars
    <3> QED BY <1>3, <3>1, <3>2 DEF OnLists
  <2>4. \A i \in DOMAIN file' : i \in DOMAIN file
    BY <2>1, <2>2, FollowsTags
  <2>5. BoardRight' /\ AskInv'
    BY <2>2, <2>3, <2>4, BoardFrame DEF BoardInv
  <2> QED BY <2>2, <2>3, <2>5 DEF BoardInv, ReviewInv
<1>4. CASE OnBoard
  BY <1>4, BoardKept, ReviewKept DEF BoardInv
<1>5. CASE UNCHANGED vars
  <2>1. UNCHANGED <<at, user, param, copy, info, boardLoading, boardAsk, edits, file, crossed>>
    BY <1>5 DEF vars, sessionVars, listVars, listPageVars, boardVars
  <2>2. BoardRight' /\ AskInv'
    BY <2>1, BoardFrame DEF BoardInv
  <2> QED BY <2>1, <2>2 DEF BoardInv, ReviewInv
<1> QED BY <1>1, <1>2, <1>3, <1>4, <1>5 DEF Next, Moves, Deletion

LEMMA BoardInvHolds == Spec => [](TypeOK /\ MineInv /\ BoardInv)
<1>1. Init => BoardInv
  <2> SUFFICES ASSUME Init PROVE BoardInv
    OBVIOUS
  <2>1. AskInv
    BY Zenon DEF Init, BoardInit, AskInv
  <2>2. BoardRight /\ ReviewInv
    BY DEF Init, SessionInit, BoardInit, BoardRight, OnCase, OnReview, ReviewInv
  <2>3. FileSound
    BY BoardAssumption DEF Init, ListInit, BoardInit, FileSound
  <2> QED BY <2>1, <2>2, <2>3 DEF BoardInv
<1> QED BY <1>1, BoardInvStep, TypeCorrect, PTL DEF Spec

(* With nothing under way the page of a case and that of one's assignments *)
(* show every item as the core has it, unless two writes of one kind met   *)
(* on it, one failed or somebody else wrote, for any items, users and      *)
(* number of writes in flight: the page follows each reply in the order in *)
(* which they come (case-view/client-page.tsx 86-143, review/page.tsx      *)
(* 39-52).                                                                 *)
THEOREM QuietBoardsAreRight == Spec => []QuietBoardIsRight
<1>1. BoardInv => QuietBoardIsRight
  BY DEF BoardInv, BoardRight, AgreesOn, QuietBoardIsRight
<1> QED BY <1>1, BoardInvHolds, PTL

-----------------------------------------------------------------------------
(* What a write of a client_admin may change.  A write that goes on when   *)
(* its page is gone is what it was when it was asked for, so whose row it  *)
(* is about is a fact of the write itself.                                 *)
OwnCall(c) ==
  c.by \in Users /\ RoleOf[c.by] = "client_admin" =>
    RowOrg[c.row] = OrgOf[c.by] \/ (c.op = "delete" /\ Kind[c.row] = "policy")

TailOwn == /\ \A c \in tail : OwnCall(c)
           /\ \A c, d \in tail : c = d

LEMMA CallOwn ==
  ASSUME TypeOK, MineInv, call # Idle
  PROVE  call \in Calls /\ call.by = user /\ OwnCall(call)
<1>1. CallMine /\ call \in Calls
  BY DEF MineInv, TypeOK, ListTypeOK
<1>2. user \in Users => ScopeOf(user) = IF RoleOf[user] = "super_admin" THEN NoOrg ELSE OrgOf[user]
  BY SessionAssumption DEF ScopeOf, Super
<1> QED BY <1>1, <1>2 DEF CallMine, Own, OwnCall

LEMMA EffectOwn ==
  ASSUME TypeOK, NEW c \in Calls, OwnCall(c), c.by \in Users, RoleOf[c.by] = "client_admin"
  PROVE  \A r \in (db \ Effect(c)) \cup (Effect(c) \ db) : RowOrg[r] = OrgOf[c.by]
<1>1. c.row \in Rows /\ c.op \in {"create", "delete", "release", "deleteCase"}
  BY DEF Calls
<1>2. ScopeOf(c.by) = OrgOf[c.by]
  BY SessionAssumption DEF ScopeOf, Super
<1>3. CASE c.op = "delete" /\ Kind[c.row] = "policy"
  BY <1>2, <1>3 DEF Effect, OwnRule
<1>4. CASE RowOrg[c.row] = OrgOf[c.by]
  <2>1. RowOrg[Released[c.row]] = OrgOf[c.by]
    BY <1>1, <1>4, RowsAssumption
  <2> QED BY <1>1, <1>4, <2>1 DEF Effect
<1> QED BY <1>3, <1>4 DEF OwnCall

(* The writes that a step leaves behind are those before, or that of the   *)
(* page that goes.                                                         *)
LEMMA TailFrom ==
  ASSUME [Next]_vars
  PROVE  \/ tail' \in {tail, {}}
         \/ call # Idle /\ tail' \in {{call}, {[call EXCEPT !.op = "delete"]}}
<1>1. CASE Moves
  BY <1>1 DEF Moves, SignIn, SignOut, Browse, Load, Turn, LeaveLists
<1>2. CASE Deletion
  BY <1>2 DEF Deletion, CaseDeleted, LateDeletion
<1>3. CASE OnLists
  BY <1>3 DEF OnLists, ListUser, CreateUser, CreatePolicy, CreateHold, CreateCase, CreateOrg,
              DeleteUser, DeletePolicy, DeleteOrg, ReleaseHold, Starts, ListCore, ListSettles,
              ListArrives, ListFails, CallAnswered, CallFails, LateWrite, OtherAdmin
<1>4. CASE OnBoard
  BY <1>4
     DEF OnBoard, BoardUser, BoardCore, SelectAll, HandleBatchAssign, HandleExport,
         HandleDeleteCase, Starts, OpenModal, Choose, Select, HandleRemoveItem,
         HandleTagUpdate, UpdateStatus, Begin, BoardArrives, BoardFails, EditSettles,
         EditAnswered, EditFails, OtherReviewer, listVars
<1>5. CASE UNCHANGED vars
  BY <1>5 DEF vars, listVars
<1> QED BY <1>1, <1>2, <1>3, <1>4, <1>5 DEF Next, Moves, Deletion

LEMMA TailStep == TypeOK /\ MineInv /\ TailOwn /\ [Next]_vars => TailOwn'
<1> SUFFICES ASSUME TypeOK, MineInv, TailOwn, [Next]_vars PROVE TailOwn'
  OBVIOUS
<1>1. CASE tail' \in {tail, {}}
  BY <1>1 DEF TailOwn
<1>2. CASE call # Idle /\ tail' \in {{call}, {[call EXCEPT !.op = "delete"]}}
  <2>1. call \in Calls /\ OwnCall(call)
    BY <1>2, CallOwn
  <2>2. OwnCall([call EXCEPT !.op = "delete"])
    BY <2>1 DEF OwnCall, Calls
  <2> QED BY <1>2, <2>1, <2>2 DEF TailOwn
<1> QED BY <1>1, <1>2, TailFrom

(* Which items the writes of a page are about.                             *)
PageFirst ==
  /\ boardAsk => edits = {}
  /\ edits # {} => at = "/admin/review" \/ (at = "/admin/case-view" /\ info)

ItemsOwn ==
  /\ at = "/admin/case-view" =>
       /\ \A i \in DOMAIN copy \cup picked : CaseOf[i] = param
       /\ \A e \in edits : \A i \in Touched(e) : CaseOf[i] = param
  /\ at = "/admin/review" =>
       /\ \A i \in DOMAIN copy : copy[i].who = Account[user]
       /\ \A e \in edits : e.op = "status" /\ e.item \in DOMAIN copy

(* A write of the page on display. *)
OfPage(e) ==
  \/ at = "/admin/case-view" /\ \A i \in Touched(e) : CaseOf[i] = param
  \/ at = "/admin/review" /\ e.op = "status" /\ e.item \in DOMAIN copy

LEMMA BeginsOwn ==
  ASSUME TypeOK, AskInv, ItemsOwn,
         \/ HandleBatchAssign \/ HandleExport
         \/ \E i \in Items : HandleRemoveItem(i)
         \/ \E i \in Items, t \in Tags : HandleTagUpdate(i, t)
         \/ \E i \in Items, s \in Statuses : UpdateStatus(i, s)
  PROVE  \E e : Begin(e) /\ OfPage(e) /\ ~boardAsk /\ (at = "/admin/case-view" => info)
<1>1. ~boardAsk /\ (OnCase \/ OnReview)
  <2>1. OnCase \/ OnReview
    BY Zenon DEF HandleBatchAssign, HandleExport, HandleRemoveItem, HandleTagUpdate, UpdateStatus
  <2> QED BY <2>1, Zenon DEF OnCase, OnReview, AskInv
<1>2. at = "/admin/case-view" => info
  <2>1. at = "/admin/review" => at # "/admin/case-view"
    OBVIOUS
  <2> QED BY <1>1, <2>1, Zenon DEF OnCase, OnReview
<1>3. OnCase => at = "/admin/case-view"
  BY Zenon DEF OnCase
<1>4. OnReview => at = "/admin/review"
  BY Zenon DEF OnReview
<1>5. \E e : Begin(e) /\ OfPage(e)
  <2>1. CASE HandleBatchAssign
    BY <1>3, <2>1 DEF HandleBatchAssign, OfPage, Touched, ItemsOwn
  <2>2. CASE HandleExport
    BY <1>3, <2>2 DEF HandleExport, OfPage, Touched
  <2>3. CASE \E i \in Items : HandleRemoveItem(i)
    BY <1>3, <2>3 DEF HandleRemoveItem, OfPage, Touched, ItemsOwn
  <2>4. CASE \E i \in Items, t \in Tags : HandleTagUpdate(i, t)
    BY <1>3, <2>4 DEF HandleTagUpdate, OfPage, Touched, ItemsOwn
  <2>5. CASE \E i \in Items, s \in Statuses : UpdateStatus(i, s)
    BY <1>4, <2>5 DEF UpdateStatus, OfPage
  <2> QED BY <2>1, <2>2, <2>3, <2>4, <2>5
<1> QED BY <1>1, <1>2, <1>5

LEMMA OwnTurned ==
  ASSUME Turned
  PROVE  PageFirst' /\ ItemsOwn'
<1>1. edits' = {} /\ copy' = Empty /\ picked' = {}
  BY DEF Turned, MountBoard
<1>2. PageFirst'
  BY <1>1, Zenon DEF PageFirst
<1> QED BY <1>1, <1>2 DEF ItemsOwn, Empty

LEMMA OwnFrame ==
  ASSUME PageFirst, ItemsOwn, UNCHANGED <<at, user, param, copy, info>>,
         boardAsk' => boardAsk, edits' \subseteq edits, picked' \subseteq picked \cup DOMAIN copy
  PROVE  PageFirst' /\ ItemsOwn'
<1>1. edits' # {} => edits # {}
  OBVIOUS
<1>2. PageFirst'
  BY <1>1, Zenon DEF PageFirst
<1> QED BY <1>2 DEF ItemsOwn

(* The reply to a write leaves no item on the page that was not there, and *)
(* no assignment is touched on "/admin/review".                            *)
LEMMA OwnAnswered ==
  ASSUME TypeOK, PageFirst, ItemsOwn, NEW e \in edits, EditAnswered(e)
  PROVE  PageFirst' /\ ItemsOwn'
<1>0. e \in Edits /\ copy \in Files
  BY DEF TypeOK, BoardTypeOK
<1>1. /\ UNCHANGED <<at, user, param, info, boardAsk>>
      /\ edits' = edits \ {e} /\ picked' \subseteq picked
      /\ copy' = copy \/ copy' = After(e, copy)
  BY DEF EditAnswered, sessionVars, listVars, listPageVars
<1>2. CASE copy' = copy
  BY <1>1, <1>2, OwnFrame
<1>3. CASE copy' = After(e, copy)
  <2>1. edits # {}
    OBVIOUS
  <2>2. PageFirst'
    BY <1>1, <2>1, Zenon DEF PageFirst
  <2>3. DOMAIN copy' \subseteq DOMAIN copy
    BY <1>0, <1>3, AfterAt
  <2>4. ASSUME at = "/admin/review"
        PROVE  DOMAIN copy' = DOMAIN copy /\ \A i \in DOMAIN copy : copy'[i].who = copy[i].who
    <3>1. e.op = "status"
      BY <2>4 DEF ItemsOwn
    <3>2. \A i \in DOMAIN copy : copy[i] \in Record
      BY <1>0, FilesDef
    <3>3. \A i \in DOMAIN copy : i \in DOMAIN copy' /\ copy'[i] = Revised(e, i, copy[i])
      BY <1>0, <1>3, <3>1, AfterAt
    <3>4. \A i \in DOMAIN copy : Revised(e, i, copy[i]).who = copy[i].who
      BY <1>0, <3>1, <3>2, RevisedWho
    <3>5. DOMAIN copy' = DOMAIN copy
      BY <2>3, <3>3
    <3> QED BY <3>3, <3>4, <3>5
  <2>5. ItemsOwn'
    BY <1>1, <2>3, <2>4 DEF ItemsOwn
  <2> QED BY <2>2, <2>5
<1> QED BY <1>1, <1>2, <1>3

LEMMA OwnBoard ==
  ASSUME TypeOK, AskInv, PageFirst, ItemsOwn, OnBoard
  PROVE  PageFirst' /\ ItemsOwn'
<1>1. CASE \/ HandleBatchAssign \/ HandleExport
           \/ \E i \in Items : HandleRemoveItem(i)
           \/ \E i \in Items, t \in Tags : HandleTagUpdate(i, t)
           \/ \E i \in Items, s \in Statuses : UpdateStatus(i, s)
  <2>1. PICK e : Begin(e) /\ OfPage(e) /\ ~boardAsk /\ (at = "/admin/case-view" => info)
    BY <1>1, BeginsOwn, Zenon
  <2>2. UNCHANGED <<at, user, param, copy, info, boardAsk, picked>> /\ edits' = edits \cup {e}
    BY <2>1 DEF Begin, sessionVars, listVars, listPageVars
  <2>3. at = "/admin/case-view" \/ at = "/admin/review"
    BY <2>1 DEF OfPage
  <2>4. PageFirst'
    BY <2>1, <2>2, <2>3, Zenon DEF PageFirst
  <2>5. ItemsOwn'
    BY <2>1, <2>2 DEF ItemsOwn, OfPage
  <2> QED BY <2>4, <2>5
<1>2. CASE \/ \E i \in Items : Select(i)
           \/ SelectAll \/ HandleDeleteCase
           \/ \E w \in {"none", "assign", "export"} : OpenModal(w)
           \/ \E r \in ClientAdmins : Choose(r)
           \/ \E e \in edits : EditFails(e)
           \/ \E i \in Items, t \in Tags : OtherReviewer(i, t)
  <2>1. /\ UNCHANGED <<at, user, param, copy, info, boardAsk>>
        /\ edits' \subseteq edits /\ picked' \subseteq picked \cup DOMAIN copy
    BY <1>2 DEF Select, SelectAll, HandleDeleteCase, OpenModal, Choose, Starts, EditFails,
                OtherReviewer, boardVars, sessionVars, listVars, listPageVars
  <2> QED BY <2>1, OwnFrame
<1>3. CASE BoardFails
  <2>1. UNCHANGED <<at, user, param, copy, info, edits, picked>>
    BY <1>3 DEF BoardFails, sessionVars, listVars, listPageVars
  <2>2. boardAsk' => boardAsk
    BY <1>3, Zenon DEF BoardFails
  <2> QED BY <2>1, <2>2, OwnFrame
<1>4. CASE BoardArrives
  <2>1. UNCHANGED <<at, user, param, edits, picked, file>>
    BY <1>4 DEF BoardArrives, sessionVars, listVars, listPageVars
  <2>2. edits = {} /\ ~boardAsk'
    BY <1>4, Zenon DEF BoardArrives, PageFirst
  <2>3. PageFirst'
    BY <2>1, <2>2, Zenon DEF PageFirst
  <2>4. copy' = copy \/ copy' = [i \in Shown |-> file[i]]
    BY <1>4, Zenon DEF BoardArrives
  <2>5. ItemsOwn'
    <3>1. CASE copy' = copy
      BY <2>1, <3>1 DEF ItemsOwn
    <3>2. CASE copy' = [i \in Shown |-> file[i]]
      <4>1. at = "/admin/review" => \A i \in Shown : file[i].who = Account[user]
        BY DEF Shown, Assigned
      <4>2. at = "/admin/case-view" => \A i \in Shown : CaseOf[i] = param
        BY DEF Shown, ItemsOfCase
      <4> QED BY <2>1, <2>2, <3>2, <4>1, <4>2 DEF ItemsOwn
    <3> QED BY <2>4, <3>1, <3>2
  <2> QED BY <2>3, <2>5
<1>5. ASSUME NEW e \in edits, EditAnswered(e) PROVE PageFirst' /\ ItemsOwn'
  BY <1>5, OwnAnswered
<1> QED BY <1>1, <1>2, <1>3, <1>4, <1>5 DEF OnBoard, BoardUser, BoardCore, EditSettles

LEMMA OwnStep ==
  TypeOK /\ BoardInv /\ PageFirst /\ ItemsOwn /\ [Next]_vars => PageFirst' /\ ItemsOwn'
<1> SUFFICES ASSUME TypeOK, BoardInv, PageFirst, ItemsOwn, [Next]_vars
             PROVE  PageFirst' /\ ItemsOwn'
  OBVIOUS
<1>1. CASE Moves
  BY <1>1, MovesStep, OwnTurned
<1>2. CASE Aside
  <2>1. UNCHANGED <<at, user, param, copy, info, boardAsk, edits, picked>>
    BY <1>2 DEF Aside, sessionVars
  <2> QED BY <2>1, OwnFrame
<1>3. CASE Deletion
  BY <1>2, <1>3, DeletionCases, OwnTurned
<1>4. CASE OnLists
  <2>1. UNCHANGED <<copy, info, boardAsk, edits, picked>>
    BY <1>4 DEF OnLists
  <2>2. UNCHANGED <<at, user, param>>
    <3>1. CASE ListUser
      BY <3>1 DEF ListUser, CreateUser, CreatePolicy, CreateHold, CreateCase, CreateOrg,
                  DeleteUser, DeletePolicy, DeleteOrg, ReleaseHold, Starts, sessionVars
    <3>2. CASE ListCore
      BY <3>2 DEF ListCore, ListSettles, ListArrives, ListFails, CallAnswered, CallFails,
                  LateWrite, OtherAdmin, sessionVars
    <3> QED BY <1>4, <3>1, <3>2 DEF OnLists
  <2> QED BY <2>1, <2>2, OwnFrame
<1>5. CASE OnBoard
  BY <1>5, OwnBoard DEF BoardInv
<1>6. CASE UNCHANGED vars
  <2>1. UNCHANGED <<at, user, param, copy, info, boardAsk, edits, picked>>
    BY <1>6 DEF vars, sessionVars, listVars, listPageVars, boardVars
  <2> QED BY <2>1, OwnFrame
<1> QED BY <1>1, <1>3, <1>4, <1>5, <1>6 DEF Next, Moves, Deletion

-----------------------------------------------------------------------------
(* What a step changes, by whom. *)
RowsOwn(u) == \A r \in (db \ db') \cup (db' \ db) : RowOrg[r] = OrgOf[u]
MayItems(u) == \A i \in ItemsChanged : RowOrg[CaseOf[i]] = OrgOf[u] \/ MayChange(i, u)

LEMMA SameItems ==
  ASSUME file' = file
  PROVE  ItemsChanged = {}
BY DEF ItemsChanged

(* The items that follow rows which go. *)
LEMMA FollowsOwn ==
  ASSUME file \in Files, FileSound, FileFollows, NEW u, RowsOwn(u)
  PROVE  MayItems(u)
<1> SUFFICES ASSUME NEW i \in ItemsChanged, RowOrg[CaseOf[i]] # OrgOf[u]
             PROVE  MayChange(i, u)
  BY DEF MayItems
<1>1. PICK S \in SUBSET Items : file \in [S -> Record]
  BY FilesDef
<1>2. i \in DOMAIN file
  BY DEF ItemsChanged, FileFollows
<1>3. CaseOf[i] \in db'
  BY <1>2 DEF FileSound, RowsOwn
<1>4. /\ i \in DOMAIN file'
      /\ file'[i] = IF file[i].who \in db' THEN file[i] ELSE [file[i] EXCEPT !.who = NoRow]
  BY <1>2, <1>3 DEF FileFollows
<1>5. file'[i] # file[i]
  BY <1>2, <1>4 DEF ItemsChanged
<1>6. file[i].who \notin db' /\ file'[i] = [file[i] EXCEPT !.who = NoRow]
  BY <1>4, <1>5
<1>7. file[i].who # NoRow
  BY <1>1, <1>2, <1>5, <1>6 DEF Record
<1>8. file[i].who \in db \ db'
  BY <1>2, <1>6, <1>7 DEF FileSound
<1> QED BY <1>4, <1>6, <1>8 DEF MayChange

(* The items that the writes of the page are about, once or twice over. *)
LEMMA PageWrites ==
  ASSUME TypeOK, MineInv, PageFirst, ItemsOwn, NEW d \in edits, NEW e \in edits,
         file' \in {file, After(e, file), After(d, After(e, file))}
  PROVE  MayItems(user)
<1>0. /\ file \in Files /\ d \in Edits /\ e \in Edits /\ After(e, file) \in Files
      /\ edits # {}
  BY AfterType DEF TypeOK, BoardTypeOK
<1>1. CASE at = "/admin/case-view"
  <2>1. RowOrg[param] = OrgOf[user]
    <3>1. at # "/admin/review"
      BY <1>1
    <3>2. info
      BY <1>0, <1>1, <3>1, Zenon DEF PageFirst
    <3> QED BY <3>2, Zenon DEF MineInv, BoardMine
  <2>2. \A i : i \in Touched(d) \/ i \in Touched(e) => CaseOf[i] = param
    BY <1>1 DEF ItemsOwn
  <2>3. \A i : i \notin Touched(d) /\ i \notin Touched(e) => i \notin ItemsChanged
    <3> SUFFICES ASSUME NEW i, i \notin Touched(d), i \notin Touched(e)
                 PROVE  /\ i \in DOMAIN file' <=> i \in DOMAIN file
                        /\ i \in DOMAIN file => file'[i] = file[i]
      BY DEF ItemsChanged
    <3>1. /\ i \in DOMAIN After(e, file) <=> i \in DOMAIN file
          /\ i \in DOMAIN file => After(e, file)[i] = file[i]
      BY <1>0, UntouchedStays
    <3>2. /\ i \in DOMAIN After(d, After(e, file)) <=> i \in DOMAIN After(e, file)
          /\ i \in DOMAIN After(e, file) => After(d, After(e, file))[i] = After(e, file)[i]
      BY <1>0, UntouchedStays
    <3> QED BY <3>1, <3>2
  <2> QED BY <2>1, <2>2, <2>3 DEF MayItems
<1>2. CASE at = "/admin/review"
  <2>1. d.op = "status" /\ e.op = "status" /\ d.item \in DOMAIN copy /\ e.item \in DOMAIN copy
    BY <1>2 DEF ItemsOwn
  <2>2. \A i \in DOMAIN copy : copy[i].who = Account[user]
    BY <1>2 DEF ItemsOwn
  <2>3. \A i : i \in DOMAIN file' <=> i \in DOMAIN file
    BY <1>0, <2>1, AfterAt
  <2> SUFFICES ASSUME NEW i \in ItemsChanged PROVE MayChange(i, user)
    BY DEF MayItems
  <2>4. i \in DOMAIN file /\ i \in DOMAIN file' /\ file'[i] # file[i]
    BY <2>3 DEF ItemsChanged
  <2>5. file[i] \in Record
    BY <1>0, <2>4, FilesDef
  <2>6. i \in {d.item, e.item} /\ file'[i] = [file[i] EXCEPT !.status = file'[i].status]
    <3>1. i \in DOMAIN After(e, file) /\ After(e, file)[i] = Revised(e, i, file[i])
      BY <1>0, <2>1, <2>4, AfterAt
    <3>2. After(d, After(e, file))[i] = Revised(d, i, After(e, file)[i])
      BY <1>0, <2>1, <3>1, AfterAt
    <3>3. \A r \in Record : /\ Revised(e, i, r) = IF i = e.item THEN [r EXCEPT !.status = e.status] ELSE r
                            /\ Revised(d, i, r) = IF i = d.item THEN [r EXCEPT !.status = d.status] ELSE r
      BY <2>1 DEF Revised
    <3>4. Revised(e, i, file[i]) \in Record
      BY <1>0, <2>1, <2>5, <3>3 DEF Record, Edits
    <3>5. CASE file' = After(e, file)
      BY <2>4, <2>5, <3>1, <3>3, <3>5 DEF Record
    <3>6. CASE file' = After(d, After(e, file))
      <4>1. file'[i] = Revised(d, i, Revised(e, i, file[i]))
        BY <3>1, <3>2, <3>6
      <4> QED BY <2>4, <2>5, <3>3, <3>4, <4>1 DEF Record
    <3> QED BY <2>4, <3>5, <3>6
  <2> QED BY <1>2, <2>1, <2>2, <2>4, <2>6 DEF MayChange
<1> QED BY <1>0, <1>1, <1>2, Zenon DEF PageFirst

(* Writers of the page itself, and of one that is gone. *)
LEMMA PageWriters ==
  ASSUME TypeOK, MineInv, tail \subseteq tail'
  PROVE  Writers \subseteq {user}
<1>1. call # Idle => call.by = user
  BY CallOwn
<1> QED BY <1>1 DEF Writers, Ended

LEMMA NoWriters ==
  ASSUME UNCHANGED <<call, tail, edits>>
  PROVE  Writers = {}
BY DEF Writers, Ended

LEMMA LateWriters ==
  ASSUME TailOwn, NEW c \in tail, tail' = {}, call' = call, edits = {} \/ edits' = edits
  PROVE  Writers = {c.by}
<1>1. tail \ tail' = {c}
  BY DEF TailOwn
<1>2. Ended = {c}
  BY <1>1 DEF Ended
<1> QED BY <1>2 DEF Writers

LEMMA NothingWritten ==
  ASSUME UNCHANGED <<db, file>>
  PROVE  \A u : RowsOwn(u) /\ MayItems(u)
BY SameItems DEF RowsOwn, MayItems

(* The write c, which ends, takes the items along. *)
LEMMA WriteFollows ==
  ASSUME TypeOK, BoardInv, FileFollows, NEW c \in Calls, OwnCall(c),
         db' \in {db, Effect(c)}, c.by \in Users, RoleOf[c.by] = "client_admin"
  PROVE  RowsOwn(c.by) /\ MayItems(c.by)
<1>1. file \in Files
  BY DEF TypeOK, BoardTypeOK
<1>2. RowsOwn(c.by)
  BY EffectOwn DEF RowsOwn
<1> QED BY <1>1, <1>2, FollowsOwn DEF BoardInv

LEMMA WritesOwn ==
  ASSUME TypeOK, MineInv, BoardInv, TailOwn, PageFirst, ItemsOwn, [Next]_vars,
         NEW u \in Writers, u \in Users, RoleOf[u] = "client_admin"
  PROVE  RowsOwn(u) /\ MayItems(u)
<1>0. /\ file \in Files /\ tail \subseteq Calls
      /\ \A c \in tail : OwnCall(c)
  BY DEF TypeOK, BoardTypeOK, TailOwn
<1>1. CASE Moves
  <2>1. db' = db /\ LeaveBoard /\ tail \subseteq tail'
    BY <1>1 DEF Moves, SignIn, SignOut, Browse, Load, Turn, LeaveLists
  <2>2. u = user
    BY <2>1, PageWriters
  <2>3. CASE file' = file
    BY <2>1, <2>3, NothingWritten
  <2>4. ASSUME NEW d \in edits, NEW e \in edits, file' = After(d, After(e, file))
        PROVE  MayItems(u)
    BY <2>2, <2>4, PageWrites
  <2>5. RowsOwn(u)
    BY <2>1 DEF RowsOwn
  <2> QED BY <2>1, <2>3, <2>4, <2>5 DEF LeaveBoard
<1>2. CASE CaseDeleted
  <2>1. call # Idle /\ tail' = tail /\ db' = Effect(call) /\ FileFollows
    BY <1>2 DEF CaseDeleted
  <2>2. call \in Calls /\ call.by = u /\ OwnCall(call)
    BY <2>1, CallOwn, PageWriters
  <2> QED BY <2>1, <2>2, WriteFollows
<1>3. ASSUME NEW c \in tail, LateDeletion(c) PROVE RowsOwn(u) /\ MayItems(u)
  <2>1. u = c.by
    <3>1. tail' = {} /\ call' = call /\ (edits = {} \/ edits' = edits)
      BY <1>3 DEF LateDeletion, MountLists, listPageVars, boardVars
    <3> QED BY <3>1, LateWriters
  <2>2. UNCHANGED <<db, file>> \/ (db' = Effect(c) /\ FileFollows)
    BY <1>3 DEF LateDeletion, boardVars
  <2> QED BY <1>0, <2>1, <2>2, NothingWritten, WriteFollows
<1>4. CASE OnLists
  <2>1. FileFollows /\ edits' = edits
    BY <1>4 DEF OnLists
  <2>2. CASE db' = db
    BY <1>0, <2>1, <2>2, FollowsSame, NothingWritten DEF BoardInv
  <2>3. CASE CallAnswered \/ CallFails
    <3>1. call # Idle /\ tail' = tail /\ db' \in {db, Effect(call)}
      BY <2>3 DEF CallAnswered, CallFails
    <3>2. call \in Calls /\ call.by = u /\ OwnCall(call)
      BY <3>1, CallOwn, PageWriters
    <3> QED BY <2>1, <3>1, <3>2, WriteFollows
  <2>4. ASSUME NEW c \in tail, LateWrite(c) PROVE RowsOwn(u) /\ MayItems(u)
    <3>1. tail' = {} /\ call' = call /\ db' \in {db, Effect(c)}
      BY <2>4 DEF LateWrite
    <3>2. u = c.by
      BY <2>1, <3>1, LateWriters
    <3> QED BY <1>0, <2>1, <3>1, <3>2, WriteFollows
  <2>5. CASE \E r \in OtherRows : OtherAdmin(r)
    BY <2>1, <2>5, NoWriters DEF OtherAdmin
  <2>6. CASE ListUser \/ \E f \in fetches : ListSettles(f)
    <3>1. db' = db
      BY <2>6 DEF ListUser, CreateUser, CreatePolicy, CreateHold, CreateCase, CreateOrg,
                  DeleteUser, DeletePolicy, DeleteOrg, ReleaseHold, Starts, ListSettles,
                  ListArrives, ListFails
    <3> QED BY <2>2, <3>1
  <2> QED BY <1>4, <2>3, <2>4, <2>5, <2>6 DEF OnLists, ListCore
<1>5. CASE OnBoard
  <2>1. ASSUME NEW e \in edits, EditSettles(e) PROVE RowsOwn(u) /\ MayItems(u)
    <3>1. db' = db /\ tail' = tail /\ file' \in {file, After(e, file)}
      BY <2>1 DEF EditSettles, EditAnswered, EditFails, listVars
    <3>2. u = user
      BY <3>1, PageWriters
    <3> QED BY <3>1, <3>2, PageWrites DEF RowsOwn
  <2>2. CASE \E i \in Items, t \in Tags : OtherReviewer(i, t)
    BY <2>2, NoWriters DEF OtherReviewer, listVars, listPageVars
  <2>3. CASE BoardUser \/ BoardArrives \/ BoardFails
    <3>1. UNCHANGED <<db, file>>
      BY <2>3
         DEF BoardUser, SelectAll, HandleBatchAssign, HandleExport, HandleDeleteCase, OpenModal,
             Choose, Select, HandleRemoveItem, HandleTagUpdate, UpdateStatus, Begin, Starts,
             BoardArrives, BoardFails, boardVars, listVars
    <3> QED BY <3>1, NothingWritten
  <2> QED BY <1>5, <2>1, <2>2, <2>3 DEF OnBoard, BoardCore
<1>6. CASE UNCHANGED vars
  BY <1>6, NothingWritten DEF vars, listVars, boardVars
<1> QED BY <1>1, <1>2, <1>3, <1>4, <1>5, <1>6 DEF Next, Moves

(* A write of a client_admin never changes a row of another organisation   *)
(* nor a global rule, whatever the lists on display hold and whenever it   *)
(* comes to pass, and of items of another organisation only the status of  *)
(* those assigned to the user and the assignee that goes with an account:  *)
(* for any rows, items and any number of other administrators (admin.py    *)
(* 496-587, cases.py 116-160, the DELETEs and PUTs of the administration   *)
(* pages).                                                                 *)
THEOREM WritesStayOwn == Spec => WritesStayInOrg
<1>1. Init => TailOwn /\ PageFirst /\ ItemsOwn
  <2> SUFFICES ASSUME Init PROVE TailOwn /\ PageFirst /\ ItemsOwn
    OBVIOUS
  <2>1. edits = {} /\ tail = {} /\ at \notin {"/admin/case-view", "/admin/review"}
    BY DEF Init, SessionInit, ListInit, BoardInit
  <2>2. PageFirst
    BY <2>1, Zenon DEF PageFirst
  <2> QED BY <2>1, <2>2 DEF TailOwn, ItemsOwn
<1>2. TypeOK /\ MineInv /\ BoardInv /\ TailOwn /\ PageFirst /\ ItemsOwn /\ [Next]_vars =>
        (TailOwn /\ PageFirst /\ ItemsOwn)'
  BY TailStep, OwnStep
<1>3. TypeOK /\ MineInv /\ BoardInv /\ TailOwn /\ PageFirst /\ ItemsOwn /\ [Next]_vars =>
        [\A u \in Writers \cap Users : RoleOf[u] = "client_admin" =>
           /\ \A r \in (db \ db') \cup (db' \ db) : RowOrg[r] = OrgOf[u]
           /\ \A i \in ItemsChanged : RowOrg[CaseOf[i]] = OrgOf[u] \/ MayChange(i, u)]_vars
  BY WritesOwn DEF RowsOwn, MayItems
<1> QED BY <1>1, <1>2, <1>3, BoardInvHolds, PTL DEF Spec, WritesStayInOrg

-----------------------------------------------------------------------------
(* Spinners.  A page that is loading for a user has a request under way,   *)
(* or nothing to ask with: the part of SpinnersEnd that does not depend on *)
(* fairness.                                                               *)
ListWaits == listLoading /\ SignedIn => fetches # {} \/ AsksNothing
BoardWaits == boardLoading /\ SignedIn => boardAsk \/ AsksNothing

SomethingIsAwaited == ListWaits /\ BoardWaits

(* A page that spins has asked for a list. *)
LEMMA SpinsForAList ==
  ASSUME NEW r, NEW id, NEW u, u # NoUser, Spins(r), r = "/admin/hold-view" => id # NoRow
  PROVE  Wanted(r, id, u) # {}
BY DEF Spins, Wanted, PolicyLists, OwnList, DetailLists

LEMMA TurnedWaits ==
  ASSUME Turned
  PROVE  SomethingIsAwaited'
<1>1. PICK id \in Rows \cup {NoRow}, l \in BOOLEAN :
        MountLists(id, user', l) /\ MountBoard(id, user')
  BY DEF Turned
<1>2. param' = id
  BY <1>1 DEF MountLists
<1>3. CASE AsksNothing'
  BY <1>3, Zenon DEF SomethingIsAwaited, ListWaits, BoardWaits
<1>4. CASE ~AsksNothing'
  <2>1. at' \in {"/admin/hold-view", "/admin/case-view"} => id # NoRow
    BY <1>2, <1>4 DEF AsksNothing
  <2>2. user' # NoUser /\ Spins(at') => fetches' # {}
    <3> SUFFICES ASSUME user' # NoUser, Spins(at') PROVE fetches' # {}
      OBVIOUS
    <3>1. PICK q \in Wanted(at', id, user') : TRUE
      BY <2>1, SpinsForAList
    <3>2. [n |-> 1, kind |-> q.kind, of |-> q.of] \in fetches'
      BY <1>1 DEF MountLists
    <3> QED BY <3>2
  <2>3. listLoading' = Spins(at')
    BY <1>1 DEF MountLists
  <2>4. boardLoading' = (at' \in {"/admin/case-view", "/admin/review"})
    BY <1>1 DEF MountBoard
  <2>5. boardAsk' = (user' # NoUser /\ (at' = "/admin/case-view" => id # NoRow) /\
                      at' \in {"/admin/review", "/admin/case-view"})
    BY <1>1 DEF MountBoard
  <2>6. at' \in {"/admin/case-view", "/admin/review"} =>
          (at' = "/admin/case-view" => id # NoRow) /\ at' \in {"/admin/review", "/admin/case-view"}
    BY <2>1
  <2>7. ListWaits'
    BY <2>2, <2>3, Zenon DEF ListWaits, SignedIn
  <2>8. BoardWaits'
    BY <2>4, <2>5, <2>6, Zenon DEF BoardWaits, SignedIn
  <2> QED BY <2>7, <2>8 DEF SomethingIsAwaited
<1> QED BY <1>3, <1>4

(* Nothing is waited for that was not, and no request is dropped. *)
LEMMA WaitFrame ==
  ASSUME SomethingIsAwaited, UNCHANGED <<user, at, param>>, ~listLoading' \/ listLoading' = listLoading,
         ~boardLoading' \/ (boardLoading' = boardLoading /\ boardAsk' = boardAsk),
         fetches # {} => fetches' # {} \/ ~listLoading'
  PROVE  SomethingIsAwaited'
<1>0. AsksNothing' <=> AsksNothing
  BY DEF AsksNothing
<1>1. ListWaits'
  BY <1>0, Zenon DEF SomethingIsAwaited, ListWaits, SignedIn
<1>2. BoardWaits'
  BY <1>0, Zenon DEF SomethingIsAwaited, BoardWaits, SignedIn
<1> QED BY <1>1, <1>2 DEF SomethingIsAwaited

LEMMA ListsWait ==
  ASSUME SomethingIsAwaited, OnLists
  PROVE  SomethingIsAwaited'
<1>0. UNCHANGED <<boardLoading, boardAsk>>
  BY DEF OnLists
<1>1. CASE ListUser
  <2>1. UNCHANGED <<user, at, param, listLoading, fetches>>
    BY <1>1 DEF ListUser, CreateUser, CreatePolicy, CreateHold, CreateCase, CreateOrg,
                DeleteUser, DeletePolicy, DeleteOrg, ReleaseHold, Starts, sessionVars
  <2> QED BY <1>0, <2>1, WaitFrame, Zenon
<1>2. ASSUME NEW f \in fetches, ListSettles(f) PROVE SomethingIsAwaited'
  <2>1. ~listLoading' /\ UNCHANGED <<user, at, param>>
    BY <1>2, Zenon DEF ListSettles, ListArrives, ListFails, sessionVars
  <2> QED BY <1>0, <2>1, WaitFrame, Zenon
<1>3. CASE CallAnswered
  <2>1. fetches \subseteq fetches' /\ UNCHANGED <<user, at, param, listLoading>>
    BY <1>3 DEF CallAnswered, Refetch, sessionVars
  <2>2. fetches # {} => fetches' # {}
    BY <2>1
  <2> QED BY <1>0, <2>1, <2>2, WaitFrame, Zenon
<1>4. CASE CallFails \/ (\E c \in tail : LateWrite(c)) \/ (\E r \in OtherRows : OtherAdmin(r))
  <2>1. UNCHANGED <<user, at, param, listLoading, fetches>>
    BY <1>4 DEF CallFails, LateWrite, OtherAdmin, sessionVars
  <2> QED BY <1>0, <2>1, WaitFrame, Zenon
<1> QED BY <1>1, <1>2, <1>3, <1>4 DEF OnLists, ListCore

LEMMA BoardStepWaits ==
  ASSUME SomethingIsAwaited, OnBoard
  PROVE  SomethingIsAwaited'
<1>1. UNCHANGED <<user, at, param, listLoading, fetches>>
  BY DEF OnBoard, BoardUser, BoardCore, SelectAll, HandleBatchAssign, HandleExport,
         HandleDeleteCase, OpenModal, Choose, Select, HandleRemoveItem, HandleTagUpdate,
         UpdateStatus, Begin, Starts, BoardArrives, BoardFails, EditSettles, EditAnswered,
         EditFails, OtherReviewer, sessionVars, listVars, listPageVars
<1>2. CASE BoardArrives \/ BoardFails
  <2>1. ~boardLoading'
    BY <1>2, Zenon DEF BoardArrives, BoardFails
  <2> QED BY <1>1, <2>1, WaitFrame, Zenon
<1>3. CASE ~BoardArrives /\ ~BoardFails
  <2>1. UNCHANGED <<boardLoading, boardAsk>>
    BY <1>3
       DEF OnBoard, BoardUser, BoardCore, SelectAll, HandleBatchAssign, HandleExport,
           HandleDeleteCase, OpenModal, Choose, Select, HandleRemoveItem, HandleTagUpdate,
           UpdateStatus, Begin, EditSettles, EditAnswered, EditFails, OtherReviewer, boardVars
  <2> QED BY <1>1, <2>1, WaitFrame, Zenon
<1> QED BY <1>2, <1>3

LEMMA WaitStep == TypeOK /\ SomethingIsAwaited /\ [Next]_vars => SomethingIsAwaited'
<1> SUFFICES ASSUME TypeOK, SomethingIsAwaited, [Next]_vars PROVE SomethingIsAwaited'
  OBVIOUS
<1>1. CASE Moves
  BY <1>1, MovesStep, TurnedWaits
<1>2. CASE Deletion
  <2>1. CASE Aside
    <3>1. UNCHANGED <<user, at, param, listLoading, fetches, boardLoading, boardAsk>>
      BY <2>1 DEF Aside, sessionVars
    <3> QED BY <3>1, WaitFrame, Zenon
  <2> QED BY <1>2, <2>1, DeletionCases, TurnedWaits
<1>3. CASE OnLists
  BY <1>3, ListsWait
<1>4. CASE OnBoard
  BY <1>4, BoardStepWaits
<1>5. CASE UNCHANGED vars
  <2>1. UNCHANGED <<user, at, param, listLoading, fetches, boardLoading, boardAsk>>
    BY <1>5 DEF vars, sessionVars, listVars, listPageVars, boardVars
  <2> QED BY <2>1, WaitFrame, Zenon
<1> QED BY <1>1, <1>2, <1>3, <1>4, <1>5 DEF Next, Moves, Deletion

(* No page of a user turns its spinner without a request that will end it, *)
(* but that of a hold or of a case loaded without its parameter,           *)
(* however moves, page loads, writes and late deletions follow each other: *)
(* what is left of SpinnersEnd is that a fetch is settled (the finally     *)
(* blocks of the pages under admin/).                                      *)
THEOREM SpinnersHaveRequests == Spec => []SomethingIsAwaited
<1>1. Init => SomethingIsAwaited
  BY Zenon DEF Init, ListInit, BoardInit, SomethingIsAwaited, ListWaits, BoardWaits
<1> QED BY <1>1, WaitStep, TypeCorrect, PTL DEF Spec
=============================================================================
