--------------------------- MODULE CaseReviewProofs ---------------------------
(***************************************************************************)
(* The properties of CaseReview, for every set of organisations, users,    *)
(* cases, items, mails and handlers.                                       *)
(***************************************************************************)
EXTENDS CaseReview, TLAPS

LEMMA CascadeFacts ==
  /\ Len(Cascade) = 5
  /\ Cascade[1] = "case_items" /\ Cascade[2] = "cases" /\ Cascade[3] = "audit_logs"
  /\ Cascade[4] = "users" /\ Cascade[5] = "organizations"
BY DEF Cascade

(* What the requests of each kind look like. *)
LEMMA Requested ==
  ASSUME NEW q \in Request
  PROVE  /\ q.op = "delete" => /\ q.org \in Orgs /\ q.at \in 1..5
                               /\ q = [op |-> "delete", org |-> q.org, at |-> q.at]
         /\ q.op = "add" => q.case \in Cases /\ q.mails \subseteq Mails
         /\ q.op = "assign" => /\ q.org \in Orgs /\ q.user \in Users
                               /\ q.items \subseteq Items /\ q.seen \subseteq Items
         /\ q.op = "export" => q.case \in Cases
         /\ q.op = "pack" => q.case \in Cases /\ q.mails \subseteq Mails
         /\ q.op = "packed" => /\ q.case \in Cases
                               /\ q.zip \subseteq Mails /\ q.out \subseteq Mails
BY CascadeFacts DEF Request, Idle

-----------------------------------------------------------------------------
(* Type correctness. *)

LEMMA EndTypes ==
  ASSUME TypeOK, NEW r \in Requests, End(r)
  PROVE  /\ req' \in [Requests -> Request]
         /\ disturbed' \subseteq Requests
         /\ due' \in [Requests -> SUBSET Mails]
BY DEF TypeOK, End, Request

LEMMA DropTypes ==
  ASSUME TypeOK, NEW gone, Drop(gone)
  PROVE  /\ rows' \subseteq Orgs \cup Users \cup Cases \cup Items
         /\ assignee' \in [Items -> (Users \X (Orgs \cup {NoOrg})) \cup {NoUser}]
BY DEF TypeOK, Drop

LEMMA ForgetTypes ==
  ASSUME TypeOK, NEW cs, NEW ms, Forget(cs, ms)
  PROVE  /\ added' \subseteq Cases \X Mails
         /\ due' \in [Requests -> SUBSET Mails]
BY DEF TypeOK, Forget

LEMMA ListedFacts ==
  ASSUME TypeOK, NEW c
  PROVE  /\ Listed(c) \subseteq Items \cap rows
         /\ \A i \in Listed(c) : place[i] \in {c} \X Mails /\ place[i][1] = c
         /\ Kept(c) \subseteq Mails
         /\ \A m \in Kept(c) : \E i \in Items \cap rows : place[i] = <<c, m>>
         /\ \A i \in Items \cap rows, m \in Mails : place[i] = <<c, m>> => i \in Listed(c) /\ m \in Kept(c)
<1>1. Listed(c) \subseteq Items \cap rows
  BY DEF Listed
<1>2. \A i \in Listed(c) : place[i] \in {c} \X Mails /\ place[i][1] = c /\ place[i][2] \in Mails
  BY DEF Listed
<1>3. Kept(c) \subseteq Mails
  BY <1>2 DEF Kept
<1>4. \A m \in Kept(c) : \E i \in Items \cap rows : place[i] = <<c, m>>
  <2> TAKE m \in Kept(c)
  <2>1. PICK i \in Listed(c) : m = place[i][2]
    BY DEF Kept
  <2>2. place[i] = <<c, m>>
    BY <1>2, <2>1
  <2> QED
    BY <1>1, <2>2
<1>5. \A i \in Items \cap rows, m \in Mails : place[i] = <<c, m>> => i \in Listed(c) /\ m \in Kept(c)
  BY DEF Listed, Kept
<1> QED
  BY <1>1, <1>2, <1>3, <1>4, <1>5

LEMMA TypeInit == Init => TypeOK
BY DEF Init, TypeOK, Request

LEMMA TypeNext == TypeOK /\ [Next]_vars => TypeOK'
<1> SUFFICES ASSUME TypeOK, [Next]_vars PROVE TypeOK'
  OBVIOUS
<1> USE DEF TypeOK
<1>1. ASSUME NEW x \in Users \cup Cases, NEW o \in Orgs, InsertMember(x, o) PROVE TypeOK'
  BY <1>1 DEF InsertMember, Disturb
<1>2. ASSUME NEW o \in Orgs, InsertLog(o) PROVE TypeOK'
  BY <1>2 DEF InsertLog, Disturb
<1>3. ASSUME NEW u \in Users, DeleteUser(u) PROVE TypeOK'
  BY <1>3, DropTypes DEF DeleteUser, history
<1>4. ASSUME NEW c \in Cases, DeleteCase(c) PROVE TypeOK'
  BY <1>4, DropTypes, ForgetTypes DEF DeleteCase
<1>5. ASSUME NEW i \in Items, RemoveItem(i) PROVE TypeOK'
  BY <1>5, DropTypes, ForgetTypes DEF RemoveItem
<1>6. ASSUME NEW m \in Mails, Purge(m) PROVE TypeOK'
  BY <1>6 DEF Purge, tables, history
<1>7. ASSUME NEW r \in Requests, NEW o \in Orgs, BeginDelete(r, o) PROVE TypeOK'
  <2>1. [op |-> "delete", org |-> o, at |-> 1] \in Request
    BY CascadeFacts DEF Request
  <2> QED
    BY <1>7, <2>1 DEF BeginDelete, tables, history
<1>8. ASSUME NEW r \in Requests, NEW c \in Cases, BeginExport(r, c) PROVE TypeOK'
  <2>1. [op |-> "export", case |-> c] \in Request
    BY DEF Request
  <2> QED
    BY <1>8, <2>1 DEF BeginExport, tables
<1>9. ASSUME NEW r \in Requests, NEW c \in Cases, NEW ms \in SUBSET Mails, CheckAdd(r, c, ms)
      PROVE  TypeOK'
  <2>1. [op |-> "add", case |-> c, mails |-> ms] \in Request
    BY DEF Request
  <2> QED
    BY <1>9, <2>1 DEF CheckAdd, tables, history
<1>10. ASSUME NEW r \in Requests, NEW o \in Orgs, NEW its \in SUBSET Items, NEW u \in Users,
              CheckAssign(r, o, its, u)
       PROVE  TypeOK'
  <2>1. [op |-> "assign", org |-> o, items |-> its, seen |-> its \cap rows, user |-> u] \in Request
    BY DEF Request
  <2> QED
    BY <1>10, <2>1 DEF CheckAssign, tables, history
<1>11. ASSUME NEW r \in Requests, DeleteStep(r) PROVE TypeOK'
  <2> DEFINE o == req[r].org  t == Cascade[req[r].at]
  <2>1. req[r] \in Request /\ req[r].op = "delete" /\ t # "organizations"
    BY <1>11 DEF DeleteStep
  <2>2. o \in Orgs /\ req[r].at \in 1..4
    BY <2>1, Requested, CascadeFacts
  <2>3. [req[r] EXCEPT !.at = @ + 1] \in Request
    <3>1. [req[r] EXCEPT !.at = @ + 1] = [op |-> "delete", org |-> o, at |-> req[r].at + 1]
      BY <2>1, Requested
    <3> QED
      BY <3>1, <2>2, CascadeFacts DEF Request
  <2>4. req' = [req EXCEPT ![r] = [req[r] EXCEPT !.at = @ + 1]]
    BY <1>11 DEF DeleteStep
  <2>5. req' \in [Requests -> Request]
    BY <2>3, <2>4
  <2>6. added' \subseteq Cases \X Mails /\ due' \in [Requests -> SUBSET Mails]
    BY <1>11, ForgetTypes DEF DeleteStep
  <2>7. /\ rows' \subseteq Orgs \cup Users \cup Cases \cup Items
        /\ assignee' \in [Items -> (Users \X (Orgs \cup {NoOrg})) \cup {NoUser}]
    BY <1>11, DropTypes DEF DeleteStep
  <2> QED
    BY <1>11, <2>5, <2>6, <2>7 DEF DeleteStep
<1>12. ASSUME NEW r \in Requests, DeleteOrg(r) PROVE TypeOK'
  BY <1>12, EndTypes DEF DeleteOrg
<1>13. ASSUME NEW r \in Requests, InsertItems(r) PROVE TypeOK'
  <2> DEFINE c == req[r].case  new == req[r].mails \ Kept(c)
  <2>1. c \in Cases /\ req[r].mails \subseteq Mails
    BY <1>13, Requested DEF InsertItems
  <2>2. CASE c \notin rows
    BY <1>13, <2>2, EndTypes DEF InsertItems
  <2>3. CASE c \in rows
    <3>1. PICK drawn \in [new -> {i \in Items : place[i] = NoPlace}] :
            /\ rows' = rows \cup {drawn[m] : m \in new}
            /\ place' = [i \in Items |-> IF \E m \in new : drawn[m] = i
                           THEN <<c, CHOOSE m \in new : drawn[m] = i>> ELSE place[i]]
            /\ added' = added \cup ({c} \X req[r].mails)
      BY <1>13, <2>3 DEF InsertItems
    <3>2. rows' \subseteq Orgs \cup Users \cup Cases \cup Items
      BY <3>1
    <3>3. \A i \in Items : (\E m \in new : drawn[m] = i) =>
            (CHOOSE m \in new : drawn[m] = i) \in Mails
      BY <2>1
    <3>4. place' \in [Items -> (Cases \X Mails) \cup {NoPlace}]
      BY <3>1, <3>3, <2>1
    <3>5. added' \subseteq Cases \X Mails
      BY <3>1, <2>1
    <3> QED
      BY <1>13, <3>2, <3>4, <3>5, EndTypes DEF InsertItems
  <2> QED
    BY <2>2, <2>3
<1>14. ASSUME NEW r \in Requests, UpdateAssignee(r) PROVE TypeOK'
  <2>1. req[r].org \in Orgs /\ req[r].user \in Users
    BY <1>14, Requested DEF UpdateAssignee
  <2> QED
    BY <1>14, <2>1, EndTypes DEF UpdateAssignee
<1>15. ASSUME NEW r \in Requests, ReadItems(r) PROVE TypeOK'
  <2>1. req[r].case \in Cases /\ Kept(req[r].case) \subseteq Mails
    BY <1>15, Requested, ListedFacts DEF ReadItems
  <2>2. [op |-> "pack", case |-> req[r].case, mails |-> Kept(req[r].case)] \in Request
    BY <2>1 DEF Request
  <2> QED
    BY <1>15, <2>2, EndTypes DEF ReadItems, tables
<1>16. ASSUME NEW r \in Requests, CreateExportJob(r) PROVE TypeOK'
  <2>1. req[r].case \in Cases /\ req[r].mails \subseteq Mails
    BY <1>16, Requested DEF CreateExportJob
  <2>2. PICK missed \in SUBSET req[r].mails :
          req' = [req EXCEPT ![r] = [op |-> "packed", case |-> req[r].case,
                                     zip |-> Packed(req[r].mails, missed),
                                     out |-> missed \cup (Mails \ archived)]]
    BY <1>16 DEF CreateExportJob
  <2>3. [op |-> "packed", case |-> req[r].case, zip |-> Packed(req[r].mails, missed),
         out |-> missed \cup (Mails \ archived)] \in Request
    <3>1. Packed(req[r].mails, missed) \in SUBSET Mails
      BY <2>1 DEF Packed
    <3>2. missed \cup (Mails \ archived) \in SUBSET Mails
      BY <2>1
    <3> QED
      BY <2>1, <3>1, <3>2 DEF Request
  <2> QED
    BY <1>16, <2>2, <2>3 DEF CreateExportJob, tables, history
<1>17. ASSUME NEW r \in Requests, Abort(r) PROVE TypeOK'
  BY <1>17, EndTypes DEF Abort, tables
<1>18. CASE UNCHANGED vars
  BY <1>18 DEF vars, tables, history
<1> QED
  BY <1>1, <1>2, <1>3, <1>4, <1>5, <1>6, <1>7, <1>8, <1>9, <1>10, <1>11, <1>12,
     <1>13, <1>14, <1>15, <1>16, <1>17, <1>18 DEF Next

(* The state of the case file is always of its type. *)
THEOREM ReviewTypeCorrect == Spec => []TypeOK
BY TypeInit, TypeNext, PTL DEF Spec
-----------------------------------------------------------------------------
(* The foreign keys, and what is never undone. *)

Schema ==
  /\ \A x \in (Users \cup Cases) \cap rows : home[x] \in Orgs \cap rows
  /\ \A i \in Items \cap rows : place[i] \in (Cases \cap rows) \X Mails
  /\ logged \subseteq rows

(* A column once written keeps its value, also when its row is gone. *)
Columns ==
  /\ \A x \in Users \cup Cases : home[x] # NoOrg => home'[x] = home[x]
  /\ \A i \in Items : place[i] # NoPlace => place'[i] = place[i]

LEMMA WithItemsFacts ==
  ASSUME TypeOK, NEW cs \in SUBSET Cases
  PROVE  /\ WithItems(cs) \cap Cases = cs
         /\ WithItems(cs) \subseteq Cases \cup Items
         /\ \A i \in Items \cap rows : i \in WithItems(cs) <=> place[i] \in cs \X Mails
BY ReviewAssumption DEF WithItems, Listed

(* The rows that a statement of a deletion deletes. *)
LEMMA DoomedFacts ==
  ASSUME TypeOK, Schema, NEW o \in Orgs
  PROVE  /\ Doomed("case_items", o) \subseteq Items
         /\ \A i \in Items \cap rows :
              i \in Doomed("case_items", o) <=> place[i] \in CasesOf(o) \X Mails
         /\ Doomed("cases", o) = WithItems(CasesOf(o)) /\ CasesOf(o) \subseteq Cases
         /\ Doomed("users", o) = UsersOf(o) /\ UsersOf(o) \subseteq Users
         /\ Doomed("audit_logs", o) = {}
BY DEF Doomed, ItemsOf, CasesOf, UsersOf, Listed

LEMMA SchemaInit == Init => Schema
BY ReviewAssumption DEF Init, Schema

LEMMA SchemaNext == TypeOK /\ Schema /\ [Next]_vars => Schema' /\ Columns
<1> SUFFICES ASSUME TypeOK, Schema, [Next]_vars PROVE Schema' /\ Columns
  OBVIOUS
<1> USE ReviewAssumption DEF Schema
<1>1. ASSUME NEW x \in Users \cup Cases, NEW o \in Orgs, InsertMember(x, o)
      PROVE  Schema' /\ Columns
  BY <1>1 DEF InsertMember, TypeOK, Columns
<1>2. ASSUME NEW o \in Orgs, InsertLog(o) PROVE Schema' /\ Columns
  BY <1>2 DEF InsertLog, TypeOK, Columns
<1>3. ASSUME NEW u \in Users, DeleteUser(u) PROVE Schema' /\ Columns
  BY <1>3 DEF DeleteUser, Drop, TypeOK, Columns
<1>4. ASSUME NEW c \in Cases, DeleteCase(c) PROVE Schema' /\ Columns
  BY <1>4, WithItemsFacts DEF DeleteCase, Drop, TypeOK, Columns
<1>5. ASSUME NEW i \in Items, RemoveItem(i) PROVE Schema' /\ Columns
  BY <1>5 DEF RemoveItem, Drop, TypeOK, Columns
<1>6. ASSUME NEW r \in Requests, DeleteStep(r) PROVE Schema' /\ Columns
  <2> DEFINE o == req[r].org  t == Cascade[req[r].at]
  <2>1. req[r] \in Request /\ req[r].op = "delete" /\ t # "organizations" /\ Drop(Doomed(t, o))
    BY <1>6 DEF DeleteStep, TypeOK
  <2>2. o \in Orgs /\ t \in {"case_items", "cases", "audit_logs", "users"}
    BY <2>1, Requested, CascadeFacts
  <2>3. UNCHANGED <<home, place>> /\ logged' \subseteq logged /\ rows' = rows \ Doomed(t, o)
    BY <1>6, <2>1 DEF DeleteStep, Drop
  <2>4. CASE t = "case_items"
    BY <2>2, <2>3, <2>4, DoomedFacts DEF TypeOK, Columns
  <2>5. CASE t = "cases"
    <3>1. rows' = rows \ WithItems(CasesOf(o)) /\ CasesOf(o) \in SUBSET Cases
      BY <2>2, <2>3, <2>5, DoomedFacts
    <3> QED
      BY <2>3, <3>1, WithItemsFacts DEF TypeOK, Columns
  <2>6. CASE t \in {"users", "audit_logs"}
    BY <2>2, <2>3, <2>6, DoomedFacts DEF TypeOK, Columns
  <2> QED
    BY <2>2, <2>4, <2>5, <2>6
<1>7. ASSUME NEW r \in Requests, DeleteOrg(r) PROVE Schema' /\ Columns
  <2> DEFINE o == req[r].org
  <2>1. o \in Orgs
    BY <1>7, Requested DEF DeleteOrg, TypeOK
  <2>2. Referred(o) \/ \A x \in (Users \cup Cases) \cap rows : home[x] # o
    BY DEF Referred, CasesOf, UsersOf
  <2> QED
    BY <1>7, <2>1, <2>2 DEF DeleteOrg, Referred, TypeOK, Columns
<1>8. ASSUME NEW r \in Requests, InsertItems(r) PROVE Schema' /\ Columns
  <2> DEFINE c == req[r].case  new == req[r].mails \ Kept(c)
  <2>1. c \in Cases /\ req[r].mails \subseteq Mails
    BY <1>8, Requested DEF InsertItems, TypeOK
  <2>2. CASE c \notin rows
    BY <1>8, <2>2 DEF InsertItems, TypeOK, Columns
  <2>3. CASE c \in rows
    <3>1. PICK drawn \in [new -> {i \in Items : place[i] = NoPlace}] :
            /\ rows' = rows \cup {drawn[m] : m \in new}
            /\ place' = [i \in Items |-> IF \E m \in new : drawn[m] = i
                           THEN <<c, CHOOSE m \in new : drawn[m] = i>> ELSE place[i]]
      BY <1>8, <2>3 DEF InsertItems
    <3>2. \A i \in Items : (\E m \in new : drawn[m] = i) => place'[i] \in {c} \X Mails
      BY <3>1, <2>1
    <3>3. \A i \in Items : (~ \E m \in new : drawn[m] = i) => place'[i] = place[i]
      BY <3>1
    <3>4. \A m \in new : drawn[m] \in Items /\ place[drawn[m]] = NoPlace
      BY <3>1
    <3>5. UNCHANGED <<home, logged>>
      BY <1>8 DEF InsertItems
    <3> QED
      BY <2>1, <2>3, <3>1, <3>2, <3>3, <3>4, <3>5 DEF TypeOK, Columns
  <2> QED
    BY <2>2, <2>3
<1>9. ASSUME UNCHANGED tables PROVE Schema' /\ Columns
  BY <1>9 DEF tables, Columns
<1>10. ASSUME NEW r \in Requests, UpdateAssignee(r) PROVE Schema' /\ Columns
  BY <1>10 DEF UpdateAssignee, Columns
<1> QED
  BY <1>1, <1>2, <1>3, <1>4, <1>5, <1>6, <1>7, <1>8, <1>9, <1>10
     DEF Next, Purge, BeginDelete, BeginExport, CheckAdd, CheckAssign, ReadItems,
         CreateExportJob, Abort, vars

LEMMA SchemaSafe == Schema => DeletedLeavesNothing
BY ReviewAssumption DEF Schema, DeletedLeavesNothing, Referred, CasesOf, UsersOf

(* delete_organization answers "deleted" only when nothing of the          *)
(* organisation is left, and nothing of it comes later.                    *)
THEOREM DeletionLeavesNothing == Spec => []DeletedLeavesNothing
<1>1. Init => TypeOK /\ Schema
  BY TypeInit, SchemaInit
<1>2. TypeOK /\ Schema /\ [Next]_vars => (TypeOK /\ Schema)'
  BY TypeNext, SchemaNext
<1>3. TypeOK /\ Schema => DeletedLeavesNothing
  BY SchemaSafe
<1> QED
  BY <1>1, <1>2, <1>3, PTL DEF Spec

-----------------------------------------------------------------------------
(* A deletion nobody disturbs has emptied the tables it has passed. *)

AloneInv ==
  \A r \in Requests : req[r].op = "delete" /\ r \notin disturbed =>
    /\ req[r].at >= 3 => CasesOf(req[r].org) = {}
    /\ req[r].at >= 4 => req[r].org \notin logged
    /\ req[r].at >= 5 => UsersOf(req[r].org) = {}

LEMMA AloneInit == Init => AloneInv
BY DEF Init, AloneInv, Idle

(* Rows that go disturb no deletion. *)
LEMMA AloneShrinks ==
  ASSUME TypeOK, AloneInv, rows' \subseteq rows, UNCHANGED <<home, req, disturbed>>,
         logged' \subseteq logged
  PROVE  AloneInv'
BY DEF AloneInv, CasesOf, UsersOf

LEMMA AloneNext == TypeOK /\ Schema /\ AloneInv /\ [Next]_vars => AloneInv'
<1> SUFFICES ASSUME TypeOK, Schema, AloneInv, [Next]_vars PROVE AloneInv'
  OBVIOUS
<1> USE ReviewAssumption
<1>1. ASSUME NEW x \in Users \cup Cases, NEW o \in Orgs, InsertMember(x, o) PROVE AloneInv'
  <2>1. /\ home[x] = NoOrg /\ home' = [home EXCEPT ![x] = o] /\ rows' = rows \cup {x}
        /\ UNCHANGED <<req, logged>>
        /\ disturbed' = disturbed \cup {r \in Requests : req[r].op = "delete" /\ req[r].org = o}
    BY <1>1 DEF InsertMember, Disturb
  <2>2. \A p \in Orgs \ {o} : CasesOf(p)' = CasesOf(p) /\ UsersOf(p)' = UsersOf(p)
    BY <2>1 DEF CasesOf, UsersOf, TypeOK
  <2> QED
    BY <2>1, <2>2, Requested DEF AloneInv, TypeOK
<1>2. ASSUME NEW o \in Orgs, InsertLog(o) PROVE AloneInv'
  <2>1. /\ logged' = logged \cup {o} /\ UNCHANGED <<req, rows, home>>
        /\ disturbed' = disturbed \cup {r \in Requests : req[r].op = "delete" /\ req[r].org = o}
    BY <1>2 DEF InsertLog, Disturb
  <2> QED
    BY <2>1 DEF AloneInv, CasesOf, UsersOf
<1>3. ASSUME NEW u \in Users, DeleteUser(u) PROVE AloneInv'
  BY <1>3, AloneShrinks DEF DeleteUser, Drop, history
<1>4. ASSUME NEW c \in Cases, DeleteCase(c) PROVE AloneInv'
  BY <1>4, AloneShrinks DEF DeleteCase, Drop
<1>5. ASSUME NEW i \in Items, RemoveItem(i) PROVE AloneInv'
  BY <1>5, AloneShrinks DEF RemoveItem, Drop
<1>6. ASSUME NEW m \in Mails, Purge(m) PROVE AloneInv'
  BY <1>6, AloneShrinks DEF Purge, tables, history
<1>7. ASSUME NEW r \in Requests, NEW o \in Orgs, BeginDelete(r, o) PROVE AloneInv'
  BY <1>7 DEF BeginDelete, tables, history, AloneInv, TypeOK, CasesOf, UsersOf
<1>8. ASSUME NEW r \in Requests, req' \in [Requests -> Request],
             \A s \in Requests \ {r} : req'[s] = req[s],
             req'[r].op # "delete", disturbed \ {r} \subseteq disturbed',
             rows' \cap (Users \cup Cases) \subseteq rows, UNCHANGED <<home, logged>>
      PROVE  AloneInv'
  BY <1>8 DEF AloneInv, CasesOf, UsersOf
<1>9. ASSUME NEW r \in Requests,
             \/ \E c \in Cases : BeginExport(r, c)
             \/ \E c \in Cases, ms \in SUBSET Mails : CheckAdd(r, c, ms)
             \/ \E o \in Orgs, its \in SUBSET Items, u \in Users : CheckAssign(r, o, its, u)
             \/ UpdateAssignee(r) \/ ReadItems(r) \/ CreateExportJob(r) \/ Abort(r)
      PROVE  AloneInv'
  <2>1. req' \in [Requests -> Request]
    BY TypeNext DEF TypeOK
  <2>2. /\ \A s \in Requests \ {r} : req'[s] = req[s]
        /\ req'[r].op # "delete" /\ disturbed \ {r} \subseteq disturbed'
        /\ UNCHANGED <<rows, home, logged>>
    BY <1>9 DEF BeginExport, CheckAdd, CheckAssign, UpdateAssignee, ReadItems, CreateExportJob,
                Abort, End, Idle, TypeOK, tables, history
  <2> QED
    BY <1>8, <2>1, <2>2
<1>10. ASSUME NEW r \in Requests, DeleteOrg(r) PROVE AloneInv'
  BY <1>8, <1>10, EndTypes DEF DeleteOrg, End, Idle, TypeOK
<1>11. ASSUME NEW r \in Requests, InsertItems(r) PROVE AloneInv'
  <2>1. rows' \cap (Users \cup Cases) \subseteq rows
    BY <1>11 DEF InsertItems
  <2> QED
    BY <1>8, <1>11, <2>1, EndTypes DEF InsertItems, End, Idle, TypeOK
<1>12. ASSUME NEW r \in Requests, DeleteStep(r) PROVE AloneInv'
  <2> DEFINE o == req[r].org  t == Cascade[req[r].at]
  <2>1. /\ req[r] \in Request /\ req[r].op = "delete" /\ t # "organizations"
        /\ rows' = rows \ Doomed(t, o) /\ UNCHANGED <<home, disturbed>>
        /\ logged' = IF t = "audit_logs" THEN logged \ {o} ELSE logged
        /\ req' = [req EXCEPT ![r].at = @ + 1]
    BY <1>12 DEF DeleteStep, Drop, TypeOK
  <2>2. o \in Orgs /\ req[r].at \in 1..4
    BY <2>1, Requested, CascadeFacts
  <2>3. /\ req'[r].op = "delete" /\ req'[r].org = o /\ req'[r].at = req[r].at + 1
        /\ \A s \in Requests \ {r} : req'[s] = req[s]
    BY <2>1 DEF TypeOK
  <2>4. \A p : CasesOf(p)' \subseteq CasesOf(p) /\ UsersOf(p)' \subseteq UsersOf(p)
    BY <2>1 DEF CasesOf, UsersOf
  <2>5. req[r].at = 2 => CasesOf(o)' = {}
    BY <2>1, <2>2, CascadeFacts, DoomedFacts DEF CasesOf, WithItems
  <2>6. req[r].at = 3 => o \notin logged'
    BY <2>1, CascadeFacts
  <2>7. req[r].at = 4 => UsersOf(o)' = {}
    BY <2>1, <2>2, CascadeFacts, DoomedFacts DEF UsersOf
  <2>8. logged' \subseteq logged
    BY <2>1
  <2> QED
    BY <2>1, <2>2, <2>3, <2>4, <2>5, <2>6, <2>7, <2>8 DEF AloneInv
<1>13. CASE UNCHANGED vars
  BY <1>13, AloneShrinks DEF vars, tables, history
<1> QED
  BY <1>1, <1>2, <1>3, <1>4, <1>5, <1>6, <1>7, <1>9, <1>10, <1>11, <1>12, <1>13 DEF Next

LEMMA AloneSafe == TypeOK /\ AloneInv => AloneItSucceeds
<1> SUFFICES ASSUME TypeOK, AloneInv, NEW r \in Requests, req[r].op = "delete", r \notin disturbed,
                    Cascade[req[r].at] = "organizations"
             PROVE  ~Referred(req[r].org)
  BY DEF AloneItSucceeds
<1>1. req[r].at = 5
  BY Requested, CascadeFacts DEF TypeOK
<1> QED
  BY <1>1 DEF AloneInv, Referred

(* Deleting an organisation fails at its last statement only when          *)
(* something was inserted for it meanwhile.                                *)
THEOREM LoneDeletionSucceeds == Spec => []AloneItSucceeds
<1>1. Init => TypeOK /\ Schema /\ AloneInv
  BY TypeInit, SchemaInit, AloneInit
<1>2. TypeOK /\ Schema /\ AloneInv /\ [Next]_vars => (TypeOK /\ Schema /\ AloneInv)'
  BY TypeNext, SchemaNext, AloneNext
<1> QED
  BY <1>1, <1>2, AloneSafe, PTL DEF Spec

-----------------------------------------------------------------------------
(* Assignments: the items a check has seen stay items of the organisation  *)
(* that asked, since neither an item nor a case changes its owner.         *)

Owned(i, o) == place[i] # NoPlace /\ home[place[i][1]] = o

AssignInv ==
  /\ \A i \in Items : place[i] = NoPlace => assignee[i] = NoUser
  /\ \A i \in Items : assignee[i] # NoUser =>
       assignee[i][1] \in rows /\ (assignee[i][2] = NoOrg \/ Owned(i, assignee[i][2]))
  /\ \A r \in Requests : req[r].op = "assign" => \A i \in req[r].seen : Owned(i, req[r].org)

LEMMA OwnedStays ==
  ASSUME TypeOK, Columns, NEW i \in Items, NEW o \in Orgs, Owned(i, o)
  PROVE  place'[i] = place[i] /\ place'[i] # NoPlace /\ home'[place'[i][1]] = o
<1>1. place[i] \in Cases \X Mails /\ place[i][1] \in Users \cup Cases
  BY DEF TypeOK, Owned
<1> QED
  BY <1>1, ReviewAssumption DEF Columns, Owned

LEMMA AssignInit == Init => AssignInv
BY DEF Init, AssignInv, Idle

(* A request that was checked before this step keeps the items it saw. *)
LEMMA CheckedStays ==
  ASSUME TypeOK, AssignInv, Columns, NEW r \in Requests,
         req[r].op = "assign", req'[r] = req[r], NEW i \in req'[r].seen
  PROVE  place'[i] # NoPlace /\ home'[place'[i][1]] = req'[r].org
<1>1. i \in Items /\ req[r].org \in Orgs /\ Owned(i, req[r].org)
  BY Requested DEF AssignInv, TypeOK
<1> QED
  BY <1>1, OwnedStays

(* An assignment that is left alone while its user stays remains right. *)
LEMMA AssignmentStays ==
  ASSUME TypeOK, AssignInv, Columns, NEW i \in Items,
         assignee[i] # NoUser, assignee'[i] = assignee[i], assignee[i][1] \in rows'
  PROVE  /\ assignee'[i][1] \in rows'
         /\ \/ assignee'[i][2] = NoOrg
            \/ place'[i] # NoPlace /\ home'[place'[i][1]] = assignee'[i][2]
<1>1. CASE assignee[i][2] = NoOrg
  BY <1>1
<1>2. CASE assignee[i][2] # NoOrg
  <2>1. assignee[i][2] \in Orgs /\ Owned(i, assignee[i][2])
    BY <1>2 DEF TypeOK, AssignInv
  <2> QED
    BY <2>1, OwnedStays
<1> QED
  BY <1>1, <1>2

LEMMA AssignNext == TypeOK /\ Schema /\ AssignInv /\ [Next]_vars => AssignInv'
<1> SUFFICES ASSUME TypeOK, Schema, AssignInv, [Next]_vars PROVE AssignInv'
  OBVIOUS
<1> USE ReviewAssumption
<1>1. Columns
  BY SchemaNext
<1>2. ASSUME NEW gone, Drop(gone), UNCHANGED place,
             \A r \in Requests : req'[r].op = "assign" => req'[r] = req[r]
      PROVE  AssignInv'
  <2>1. \A i \in Items : assignee'[i] # NoUser =>
          assignee'[i] = assignee[i] /\ assignee[i][1] \in rows'
    BY <1>2 DEF Drop, TypeOK, AssignInv
  <2>2. \A i \in Items : place'[i] = NoPlace => assignee'[i] = NoUser
    BY <1>2 DEF AssignInv, Drop
  <2> QED
    BY <1>1, <1>2, <2>1, <2>2, CheckedStays, AssignmentStays DEF AssignInv, Owned
<1>3. ASSUME UNCHANGED assignee,
             \A i \in Items : assignee[i] # NoUser /\ assignee[i][1] \in rows => assignee[i][1] \in rows',
             \A i \in Items : place'[i] = NoPlace => place[i] = NoPlace,
             \A r \in Requests : req'[r].op = "assign" => req'[r] = req[r]
      PROVE  AssignInv'
  <2>1. \A i \in Items : assignee'[i] # NoUser => assignee[i][1] \in rows'
    BY <1>3 DEF AssignInv
  <2> QED
    BY <1>1, <1>3, <2>1, CheckedStays, AssignmentStays DEF AssignInv, Owned
<1>4. ASSUME NEW r \in Requests, End(r)
      PROVE  \A s \in Requests : req'[s].op = "assign" => req'[s] = req[s]
  BY <1>4 DEF End, Idle, TypeOK
<1>5. ASSUME NEW x \in Users \cup Cases, NEW o \in Orgs, InsertMember(x, o) PROVE AssignInv'
  BY <1>3, <1>5 DEF InsertMember
<1>6. ASSUME NEW o \in Orgs, InsertLog(o) PROVE AssignInv'
  BY <1>3, <1>6 DEF InsertLog
<1>7. ASSUME NEW u \in Users, DeleteUser(u) PROVE AssignInv'
  BY <1>2, <1>7 DEF DeleteUser
<1>8. ASSUME NEW c \in Cases, DeleteCase(c) PROVE AssignInv'
  BY <1>2, <1>8 DEF DeleteCase
<1>9. ASSUME NEW i \in Items, RemoveItem(i) PROVE AssignInv'
  BY <1>2, <1>9 DEF RemoveItem
<1>10. ASSUME NEW m \in Mails, Purge(m) PROVE AssignInv'
  BY <1>3, <1>10 DEF Purge, tables
<1>11. ASSUME NEW r \in Requests,
              \/ \E o \in Orgs : BeginDelete(r, o)
              \/ \E c \in Cases : BeginExport(r, c)
              \/ \E c \in Cases, ms \in SUBSET Mails : CheckAdd(r, c, ms)
              \/ CreateExportJob(r)
       PROVE  AssignInv'
  <2>1. \A s \in Requests : req'[s].op = "assign" => req'[s] = req[s]
    BY <1>11 DEF BeginDelete, BeginExport, CheckAdd, CreateExportJob, TypeOK
  <2>2. UNCHANGED tables
    BY <1>11 DEF BeginDelete, BeginExport, CheckAdd, CreateExportJob
  <2> QED
    BY <1>3, <2>1, <2>2 DEF tables
<1>12. ASSUME NEW r \in Requests, NEW o \in Orgs, NEW its \in SUBSET Items, NEW u \in Users,
              CheckAssign(r, o, its, u)
       PROVE  AssignInv'
  <2>1. \A i \in its \cap rows : place[i] # NoPlace /\ home[place[i][1]] = o
    BY <1>12 DEF CheckAssign, Schema
  <2>2. /\ req'[r].seen = its \cap rows /\ req'[r].org = o /\ UNCHANGED <<rows, place, home, assignee>>
        /\ \A s \in Requests \ {r} : req'[s] = req[s]
    BY <1>12 DEF CheckAssign, tables, TypeOK
  <2> QED
    BY <2>1, <2>2 DEF AssignInv, Owned
<1>13. ASSUME NEW r \in Requests, DeleteStep(r) PROVE AssignInv'
  <2>1. \A s \in Requests : req'[s].op = "assign" => req'[s] = req[s]
    BY <1>13 DEF DeleteStep, TypeOK
  <2> QED
    BY <1>2, <1>13, <2>1 DEF DeleteStep
<1>14. ASSUME NEW r \in Requests, DeleteOrg(r) PROVE AssignInv'
  <2>1. req[r].org \in Orgs
    BY <1>14, Requested DEF DeleteOrg, TypeOK
  <2>2. \A i \in Items : assignee[i] # NoUser => assignee[i][1] \in Users
    BY DEF TypeOK
  <2> QED
    BY <1>3, <1>4, <1>14, <2>1, <2>2 DEF DeleteOrg
<1>15. ASSUME NEW r \in Requests, InsertItems(r) PROVE AssignInv'
  <2>1. \A i \in Items : place'[i] = NoPlace => place[i] = NoPlace
    BY <1>1 DEF Columns
  <2>2. rows \subseteq rows'
    BY <1>15 DEF InsertItems
  <2> QED
    BY <1>3, <1>4, <1>15, <2>1, <2>2 DEF InsertItems
<1>16. ASSUME NEW r \in Requests, UpdateAssignee(r) PROVE AssignInv'
  <2> DEFINE hit == req[r].items \cap rows
  <2>1. /\ req[r].user \in Users /\ req[r].org \in Orgs /\ req[r].op = "assign"
        /\ req[r].items \subseteq Items
    BY <1>16, Requested DEF UpdateAssignee, TypeOK
  <2>2. CASE req[r].user \notin rows
    BY <1>3, <1>4, <1>16, <2>2 DEF UpdateAssignee
  <2>3. CASE req[r].user \in rows
    <3> DEFINE asked(i) == IF i \in req[r].seen THEN req[r].org ELSE NoOrg
    <3>1. /\ assignee' = [i \in Items |-> IF i \in hit THEN <<req[r].user, asked(i)>> ELSE assignee[i]]
          /\ UNCHANGED <<rows, place, home>>
      BY <1>16, <2>3 DEF UpdateAssignee
    <3>2. \A i \in hit : place[i] # NoPlace /\ (asked(i) = NoOrg \/ Owned(i, asked(i)))
      BY <2>1 DEF AssignInv, Schema
    <3>3. \A s \in Requests : req'[s].op = "assign" => req'[s] = req[s]
      BY <1>4, <1>16 DEF UpdateAssignee
    <3>4. \A i \in Items : place'[i] = NoPlace => assignee'[i] = NoUser
      BY <3>1, <3>2 DEF AssignInv, Owned
    <3>5. \A i \in Items : assignee'[i] # NoUser =>
            /\ assignee'[i][1] \in rows'
            /\ \/ assignee'[i][2] = NoOrg
               \/ place'[i] # NoPlace /\ home'[place'[i][1]] = assignee'[i][2]
      BY <2>3, <3>1, <3>2 DEF AssignInv, Owned
    <3> QED
      BY <1>1, <3>3, <3>4, <3>5, CheckedStays DEF AssignInv, Owned
  <2> QED
    BY <2>2, <2>3
<1>17. ASSUME NEW r \in Requests, ReadItems(r) PROVE AssignInv'
  <2>1. \A s \in Requests : req'[s].op = "assign" => req'[s] = req[s]
    BY <1>4, <1>17 DEF ReadItems, TypeOK
  <2> QED
    BY <1>3, <1>17, <2>1 DEF ReadItems, tables
<1>18. ASSUME NEW r \in Requests, Abort(r) PROVE AssignInv'
  BY <1>3, <1>4, <1>18 DEF Abort, tables
<1>19. CASE UNCHANGED vars
  BY <1>3, <1>19 DEF vars, tables
<1> QED
  BY <1>5, <1>6, <1>7, <1>8, <1>9, <1>10, <1>11, <1>12, <1>13, <1>14, <1>15, <1>16, <1>17,
     <1>18, <1>19 DEF Next

LEMMA AssignSafe == TypeOK /\ AssignInv => AssignmentsAreOwn
<1> SUFFICES ASSUME TypeOK, AssignInv, NEW i \in Items, assignee[i] # NoUser
             PROVE  assignee[i] \in rows \X {home[place[i][1]], NoOrg}
  BY DEF AssignmentsAreOwn
<1>1. /\ assignee[i] \in Users \X (Orgs \cup {NoOrg}) /\ assignee[i][1] \in rows
      /\ assignee[i][2] \in {home[place[i][1]], NoOrg}
  BY DEF TypeOK, AssignInv, Owned
<1> QED
  BY <1>1

(* Reviewers exist, and an item that was seen by the check was assigned    *)
(* for the owner of its case.                                              *)
THEOREM OwnersAssign == Spec => []AssignmentsAreOwn
<1>1. Init => TypeOK /\ Schema /\ AssignInv
  BY TypeInit, SchemaInit, AssignInit
<1>2. TypeOK /\ Schema /\ AssignInv /\ [Next]_vars => (TypeOK /\ Schema /\ AssignInv)'
  BY TypeNext, SchemaNext, AssignNext
<1> QED
  BY <1>1, <1>2, AssignSafe, PTL DEF Spec

-----------------------------------------------------------------------------
(* What was added stays listed until it is removed. *)

AddedInv ==
  \A c \in Cases, m \in Mails : <<c, m>> \in added =>
    c \in rows /\ \E i \in Items \cap rows : place[i] = <<c, m>>

LEMMA AddedInit == Init => AddedInv
BY DEF Init, AddedInv

(* A step that takes nothing from any case but what it forgets. *)
LEMMA AddedStays ==
  ASSUME TypeOK, AddedInv, added' \subseteq added,
         \A c \in Cases \cap rows, m \in Mails : <<c, m>> \in added' => c \in rows',
         \A i \in Items \cap rows : place[i] \in added' => i \in rows' /\ place'[i] = place[i]
  PROVE  AddedInv'
<1> SUFFICES ASSUME NEW c \in Cases, NEW m \in Mails, <<c, m>> \in added'
             PROVE  c \in rows' /\ \E i \in Items \cap rows' : place'[i] = <<c, m>>
  BY DEF AddedInv
<1>1. PICK i \in Items \cap rows : place[i] = <<c, m>>
  BY DEF AddedInv
<1>2. c \in rows
  BY DEF AddedInv
<1> QED
  BY <1>1, <1>2

LEMMA AddedNext == TypeOK /\ Schema /\ AddedInv /\ [Next]_vars => AddedInv'
<1> SUFFICES ASSUME TypeOK, Schema, AddedInv, [Next]_vars PROVE AddedInv'
  OBVIOUS
<1> USE ReviewAssumption
<1>1. ASSUME UNCHANGED <<added, place>>, rows \cap (Items \cup Cases) \subseteq rows' PROVE AddedInv'
  BY <1>1, AddedStays
<1>2. ASSUME NEW x \in Users \cup Cases, NEW o \in Orgs, InsertMember(x, o) PROVE AddedInv'
  BY <1>1, <1>2 DEF InsertMember
<1>3. ASSUME NEW o \in Orgs, InsertLog(o) PROVE AddedInv'
  BY <1>1, <1>3 DEF InsertLog
<1>4. ASSUME NEW u \in Users, DeleteUser(u) PROVE AddedInv'
  BY <1>1, <1>4 DEF DeleteUser, Drop, history
<1>5. ASSUME NEW c \in Cases, DeleteCase(c) PROVE AddedInv'
  <2>1. /\ rows' = rows \ WithItems({c}) /\ place' = place
        /\ added' = added \ ({c} \X Mails)
    BY <1>5 DEF DeleteCase, Drop, Forget
  <2>2. \A i \in Items \cap rows : i \in WithItems({c}) <=> place[i] \in {c} \X Mails
    BY WithItemsFacts
  <2>3. \A d \in Cases \cap rows : d \in WithItems({c}) => d = c
    BY WithItemsFacts
  <2> QED
    BY <2>1, <2>2, <2>3, AddedStays
<1>6. ASSUME NEW j \in Items, RemoveItem(j) PROVE AddedInv'
  <2>1. /\ rows' = rows \ {j} /\ place' = place /\ j \in rows
        /\ added' = added \ ({place[j][1]} \X {place[j][2]})
    BY <1>6 DEF RemoveItem, Drop, Forget
  <2>2. place[j] \in Cases \X Mails
    BY <2>1 DEF Schema
  <2>3. place[j] \notin added'
    BY <2>1, <2>2
  <2> QED
    BY <2>1, <2>3, AddedStays
<1>7. ASSUME NEW r \in Requests, DeleteStep(r) PROVE AddedInv'
  <2> DEFINE o == req[r].org  t == Cascade[req[r].at]
  <2>1. /\ req[r] \in Request /\ req[r].op = "delete" /\ t # "organizations"
        /\ rows' = rows \ Doomed(t, o) /\ place' = place
        /\ added' = IF t \in {"case_items", "cases"} THEN added \ (CasesOf(o) \X Mails) ELSE added
    BY <1>7 DEF DeleteStep, Drop, Forget, TypeOK
  <2>2. o \in Orgs /\ t \in {"case_items", "cases", "audit_logs", "users"}
    BY <2>1, Requested, CascadeFacts
  <2>3. CASE t = "case_items"
    BY <2>1, <2>2, <2>3, DoomedFacts, AddedStays
  <2>4. CASE t = "cases"
    <3>1. Doomed("cases", o) = WithItems(CasesOf(o)) /\ CasesOf(o) \in SUBSET Cases
      BY <2>2, DoomedFacts
    <3>2. /\ \A i \in Items \cap rows : i \in WithItems(CasesOf(o)) <=> place[i] \in CasesOf(o) \X Mails
          /\ \A c \in Cases : c \in WithItems(CasesOf(o)) => c \in CasesOf(o)
      BY <3>1, WithItemsFacts
    <3> QED
      BY <2>1, <2>4, <3>1, <3>2, AddedStays
  <2>5. CASE t \in {"users", "audit_logs"}
    BY <1>1, <2>1, <2>2, <2>5, DoomedFacts
  <2> QED
    BY <2>2, <2>3, <2>4, <2>5
<1>8. ASSUME NEW r \in Requests, DeleteOrg(r) PROVE AddedInv'
  <2>1. req[r].org \in Orgs
    BY <1>8, Requested DEF DeleteOrg, TypeOK
  <2> QED
    BY <1>1, <1>8, <2>1 DEF DeleteOrg
<1>9. ASSUME NEW r \in Requests, InsertItems(r) PROVE AddedInv'
  <2> DEFINE c == req[r].case  new == req[r].mails \ Kept(c)
  <2>1. c \in Cases /\ req[r].mails \subseteq Mails
    BY <1>9, Requested DEF InsertItems, TypeOK
  <2>2. CASE c \notin rows
    BY <1>1, <1>9, <2>2 DEF InsertItems
  <2>3. CASE c \in rows
    <3>1. PICK drawn \in [new -> {i \in Items : place[i] = NoPlace}] :
            /\ \A m, n \in new : m # n => drawn[m] # drawn[n]
            /\ rows' = rows \cup {drawn[m] : m \in new}
            /\ place' = [i \in Items |-> IF \E m \in new : drawn[m] = i
                           THEN <<c, CHOOSE m \in new : drawn[m] = i>> ELSE place[i]]
            /\ added' = added \cup ({c} \X req[r].mails)
      BY <1>9, <2>3 DEF InsertItems
    <3>2. /\ rows \subseteq rows'
          /\ \A i \in Items \cap rows : i \in rows' /\ place'[i] = place[i]
      BY <3>1 DEF Schema
    <3>3. \A m \in new : drawn[m] \in Items \cap rows' /\ place'[drawn[m]] = <<c, m>>
      <4> SUFFICES ASSUME NEW m \in new PROVE drawn[m] \in Items \cap rows' /\ place'[drawn[m]] = <<c, m>>
        OBVIOUS
      <4>1. (CHOOSE n \in new : drawn[n] = drawn[m]) = m
        BY <3>1
      <4> QED
        BY <3>1, <4>1
    <3>4. ASSUME NEW m \in Kept(c) PROVE \E i \in Items \cap rows' : place'[i] = <<c, m>>
      BY <3>2, <3>4, ListedFacts
    <3>5. ASSUME NEW d \in Cases, NEW m \in Mails, <<d, m>> \in added
          PROVE  d \in rows' /\ \E i \in Items \cap rows' : place'[i] = <<d, m>>
      <4>1. PICK i \in Items \cap rows : place[i] = <<d, m>>
        BY <3>5 DEF AddedInv
      <4>2. d \in rows
        BY <3>5 DEF AddedInv
      <4> QED
        BY <3>2, <4>1, <4>2
    <3>6. ASSUME NEW d \in Cases, NEW m \in Mails, <<d, m>> \in {c} \X req[r].mails
          PROVE  d \in rows' /\ \E i \in Items \cap rows' : place'[i] = <<d, m>>
      <4>1. d = c /\ m \in req[r].mails /\ d \in rows'
        BY <2>3, <3>2, <3>6
      <4>2. m \in new \/ m \in Kept(c)
        BY <4>1
      <4>3. CASE m \in new
        BY <3>3, <4>1, <4>3
      <4>4. CASE m \in Kept(c)
        BY <3>4, <4>1, <4>4
      <4> QED
        BY <4>2, <4>3, <4>4
    <3> QED
      BY <3>1, <3>5, <3>6 DEF AddedInv
  <2> QED
    BY <2>2, <2>3
<1>10. ASSUME UNCHANGED <<added, place, rows>> PROVE AddedInv'
  BY <1>1, <1>10
<1> QED
  BY <1>2, <1>3, <1>4, <1>5, <1>6, <1>7, <1>8, <1>9, <1>10
     DEF Next, Purge, BeginDelete, BeginExport, CheckAdd, CheckAssign, UpdateAssignee, ReadItems,
         CreateExportJob, Abort, tables, history, vars

LEMMA AddedSafe == TypeOK /\ AddedInv => AddedIsListed
<1> SUFFICES ASSUME TypeOK, AddedInv, NEW p \in added PROVE p[1] \in rows /\ p[2] \in Kept(p[1])
  BY DEF AddedIsListed
<1>1. p \in Cases \X Mails /\ p = <<p[1], p[2]>>
  BY DEF TypeOK
<1>2. p[1] \in rows /\ \E i \in Items \cap rows : place[i] = <<p[1], p[2]>>
  BY <1>1 DEF AddedInv
<1> QED
  BY <1>1, <1>2, ListedFacts

(* A mail that was added is listed until it, its case or its organisation  *)
(* is deleted.                                                             *)
THEOREM AddedStaysListed == Spec => []AddedIsListed
<1>1. Init => TypeOK /\ Schema /\ AddedInv
  BY TypeInit, SchemaInit, AddedInit
<1>2. TypeOK /\ Schema /\ AddedInv /\ [Next]_vars => (TypeOK /\ Schema /\ AddedInv)'
  BY TypeNext, SchemaNext, AddedNext
<1> QED
  BY <1>1, <1>2, AddedSafe, PTL DEF Spec

-----------------------------------------------------------------------------
(* Exports: what is due was added and is still listed when the items are   *)
(* read, and is among the mails of the job from then on.                   *)

WasListed(c, m) == \E i \in Items : place[i] = <<c, m>>

ExportOK(r) ==
  /\ req[r].op = "export" => \A m \in due[r] : <<req[r].case, m>> \in added
  /\ req[r].op = "pack" => /\ due[r] \subseteq req[r].mails
                           /\ \A m \in req[r].mails : WasListed(req[r].case, m)
  /\ req[r].op = "packed" => /\ due[r] \subseteq req[r].zip \cup req[r].out
                             /\ \A m \in req[r].zip : WasListed(req[r].case, m)

ExportInv == \A r \in Requests : ExportOK(r)

LEMMA ExportInit == Init => ExportInv
BY DEF Init, ExportInv, ExportOK, Idle

(* A request that this step leaves alone, or ends. *)
LEMMA ExportStays ==
  ASSUME TypeOK, Columns, NEW r \in Requests, ExportOK(r),
         req'[r] = req[r] \/ req'[r] = Idle, due'[r] \subseteq due[r],
         req[r].op = "export" => \A m \in due'[r] : <<req[r].case, m>> \in added
                                                 => <<req[r].case, m>> \in added'
  PROVE  ExportOK(r)'
<1>1. CASE req'[r] = Idle
  BY <1>1 DEF ExportOK, Idle
<1>2. CASE req'[r] = req[r]
  <2>1. ASSUME NEW c \in Cases, NEW m \in Mails, WasListed(c, m)
        PROVE  \E i \in Items : place'[i] = <<c, m>>
    <3>1. PICK i \in Items : place[i] = <<c, m>>
      BY <2>1 DEF WasListed
    <3>2. place'[i] = place[i]
      BY <3>1, ReviewAssumption DEF Columns
    <3> QED
      BY <3>1, <3>2
  <2>2. req[r] \in Request
    BY DEF TypeOK
  <2> QED
    BY <1>2, <2>1, <2>2, Requested DEF ExportOK, WasListed
<1> QED
  BY <1>1, <1>2

LEMMA ExportNext == TypeOK /\ Schema /\ AddedInv /\ ExportInv /\ [Next]_vars => ExportInv'
<1> SUFFICES ASSUME TypeOK, Schema, AddedInv, ExportInv, [Next]_vars, NEW r \in Requests
             PROVE  ExportOK(r)'
  BY DEF ExportInv
<1>0. Columns /\ ExportOK(r) /\ req[r] \in Request
  BY SchemaNext DEF ExportInv, TypeOK
<1>1. ASSUME added \subseteq added', req'[r] = req[r] \/ req'[r] = Idle, due'[r] \subseteq due[r]
      PROVE  ExportOK(r)'
  BY <1>0, <1>1, ExportStays
<1>2. ASSUME NEW cs, NEW ms, Forget(cs, ms), req'[r] = req[r] PROVE ExportOK(r)'
  <2>1. due'[r] \subseteq due[r]
    BY <1>2 DEF Forget, TypeOK
  <2>2. ASSUME req[r].op = "export", NEW m \in due'[r], <<req[r].case, m>> \in added
        PROVE  <<req[r].case, m>> \in added'
    <3>1. CASE req[r].case \in cs
      <4>1. r \in Exports(req[r].case)
        BY <2>2 DEF Exports
      <4>2. m \notin ms
        BY <1>2, <3>1, <4>1, <2>2 DEF Forget, TypeOK
      <4> QED
        BY <1>2, <2>2, <4>2 DEF Forget
    <3>2. CASE req[r].case \notin cs
      BY <1>2, <2>2, <3>2 DEF Forget
    <3> QED
      BY <3>1, <3>2
  <2> QED
    BY <1>0, <1>2, <2>1, <2>2, ExportStays
<1>3. ASSUME NEW s \in Requests, End(s)
      PROVE  (req'[r] = req[r] \/ req'[r] = Idle) /\ due'[r] \subseteq due[r]
  BY <1>3 DEF End, TypeOK
<1>4. ASSUME NEW x \in Users \cup Cases, NEW o \in Orgs, InsertMember(x, o) PROVE ExportOK(r)'
  BY <1>1, <1>4 DEF InsertMember
<1>5. ASSUME NEW o \in Orgs, InsertLog(o) PROVE ExportOK(r)'
  BY <1>1, <1>5 DEF InsertLog
<1>6. ASSUME NEW u \in Users, DeleteUser(u) PROVE ExportOK(r)'
  BY <1>1, <1>6 DEF DeleteUser, history
<1>7. ASSUME NEW c \in Cases, DeleteCase(c) PROVE ExportOK(r)'
  BY <1>2, <1>7 DEF DeleteCase
<1>8. ASSUME NEW i \in Items, RemoveItem(i) PROVE ExportOK(r)'
  BY <1>2, <1>8 DEF RemoveItem
<1>9. ASSUME NEW m \in Mails, Purge(m) PROVE ExportOK(r)'
  BY <1>1, <1>9 DEF Purge, history
<1>10. ASSUME NEW s \in Requests,
              \/ \E o \in Orgs : BeginDelete(s, o)
              \/ \E c \in Cases, ms \in SUBSET Mails : CheckAdd(s, c, ms)
              \/ \E o \in Orgs, its \in SUBSET Items, u \in Users : CheckAssign(s, o, its, u)
       PROVE  ExportOK(r)'
  <2>1. UNCHANGED <<added, due>> /\ (r # s => req'[r] = req[r])
    BY <1>10 DEF BeginDelete, CheckAdd, CheckAssign, history, TypeOK
  <2>2. r = s => req'[r].op \in {"delete", "add", "assign"}
    BY <1>10 DEF BeginDelete, CheckAdd, CheckAssign, TypeOK
  <2> QED
    BY <1>1, <2>1, <2>2 DEF ExportOK
<1>11. ASSUME NEW s \in Requests, NEW c \in Cases, BeginExport(s, c) PROVE ExportOK(r)'
  <2>1. CASE r = s
    BY <1>11, <2>1 DEF BeginExport, ExportOK, TypeOK
  <2>2. CASE r # s
    BY <1>1, <1>11, <2>2 DEF BeginExport, TypeOK
  <2> QED
    BY <2>1, <2>2
<1>12. ASSUME NEW s \in Requests, DeleteStep(s) PROVE ExportOK(r)'
  <2>1. CASE r = s
    <3>1. req'[r].op = "delete"
      BY <1>12, <2>1, Requested DEF DeleteStep, TypeOK
    <3> QED
      BY <3>1 DEF ExportOK
  <2>2. CASE r # s
    <3>1. req'[r] = req[r]
      BY <1>12, <2>2 DEF DeleteStep, TypeOK
    <3> QED
      BY <1>1, <1>2, <1>12, <3>1 DEF DeleteStep
  <2> QED
    BY <2>1, <2>2
<1>13. ASSUME NEW s \in Requests, DeleteOrg(s) \/ UpdateAssignee(s) \/ Abort(s) PROVE ExportOK(r)'
  BY <1>1, <1>3, <1>13 DEF DeleteOrg, UpdateAssignee, Abort
<1>14. ASSUME NEW s \in Requests, InsertItems(s) PROVE ExportOK(r)'
  <2>1. added \subseteq added'
    BY <1>14 DEF InsertItems
  <2> QED
    BY <1>1, <1>3, <1>14, <2>1 DEF InsertItems
<1>15. ASSUME NEW s \in Requests, ReadItems(s) PROVE ExportOK(r)'
  <2> DEFINE c == req[s].case
  <2>1. CASE r # s \/ Kept(c) = {}
    BY <1>1, <1>3, <1>15, <2>1 DEF ReadItems, TypeOK
  <2>2. CASE r = s /\ Kept(c) # {}
    <3>1. /\ req'[r] = [op |-> "pack", case |-> c, mails |-> Kept(c)]
          /\ due' = due /\ place' = place /\ req[r].op = "export"
      BY <1>15, <2>2 DEF ReadItems, tables, TypeOK
    <3>2. c \in Cases /\ due[r] \subseteq Mails
      BY <1>0, <2>2, <3>1, Requested DEF TypeOK
    <3>3. \A m \in due[r] : m \in Kept(c)
      <4> TAKE m \in due[r]
      <4>1. <<c, m>> \in added
        BY <1>0, <2>2, <3>1 DEF ExportOK
      <4>2. \E i \in Items \cap rows : place[i] = <<c, m>>
        BY <3>2, <4>1 DEF AddedInv
      <4> QED
        BY <3>2, <4>2, ListedFacts
    <3>4. \A m \in Kept(c) : \E i \in Items : place'[i] = <<c, m>>
      <4>1. \A m \in Kept(c) : \E i \in Items : place[i] = <<c, m>>
        BY ListedFacts
      <4> QED
        BY <3>1, <4>1
    <3> QED
      BY <3>1, <3>3, <3>4 DEF ExportOK, WasListed
  <2> QED
    BY <2>1, <2>2
<1>16. ASSUME NEW s \in Requests, CreateExportJob(s) PROVE ExportOK(r)'
  <2>1. CASE r # s
    BY <1>1, <1>16, <2>1 DEF CreateExportJob, history, TypeOK
  <2>2. CASE r = s
    <3>1. PICK missed \in SUBSET req[r].mails :
            req' = [req EXCEPT ![r] = [op |-> "packed", case |-> req[r].case,
                                       zip |-> Packed(req[r].mails, missed),
                                       out |-> missed \cup (Mails \ archived)]]
      BY <1>16, <2>2 DEF CreateExportJob
    <3>2. /\ req'[r].op = "packed" /\ req'[r].case = req[r].case
          /\ req'[r].zip = Packed(req[r].mails, missed)
          /\ req'[r].out = missed \cup (Mails \ archived)
          /\ due' = due /\ place' = place /\ req[r].op = "pack"
      BY <1>16, <2>2, <3>1 DEF CreateExportJob, tables, history, TypeOK
    <3>3. due[r] \subseteq req[r].mails /\ req[r].mails \subseteq Mails
      BY <1>0, <3>2, Requested DEF ExportOK
    <3>4. due'[r] \subseteq req'[r].zip \cup req'[r].out
      BY <3>2, <3>3 DEF Packed
    <3>5. \A m \in req'[r].zip : \E i \in Items : place'[i] = <<req'[r].case, m>>
      <4>1. \A m \in req[r].mails : \E i \in Items : place[i] = <<req[r].case, m>>
        BY <1>0, <3>2 DEF ExportOK, WasListed
      <4> QED
        BY <3>2, <4>1 DEF Packed
    <3> QED
      BY <3>2, <3>4, <3>5 DEF ExportOK, WasListed
  <2> QED
    BY <2>1, <2>2
<1>17. CASE UNCHANGED vars
  BY <1>1, <1>17 DEF vars, history
<1> QED
  BY <1>4, <1>5, <1>6, <1>7, <1>8, <1>9, <1>10, <1>11, <1>12, <1>13, <1>14, <1>15, <1>16, <1>17
     DEF Next

LEMMA ExportSafe == ExportInv => ExportsAreExact
BY DEF ExportInv, ExportOK, ExportsAreExact, WasListed

(* An export has what was due and nothing that was never listed. *)
THEOREM ExportsStayExact == Spec => []ExportsAreExact
<1>1. Init => TypeOK /\ Schema /\ AddedInv /\ ExportInv
  BY TypeInit, SchemaInit, AddedInit, ExportInit
<1>2. TypeOK /\ Schema /\ AddedInv /\ ExportInv /\ [Next]_vars
        => (TypeOK /\ Schema /\ AddedInv /\ ExportInv)'
  BY TypeNext, SchemaNext, AddedNext, ExportNext
<1> QED
  BY <1>1, <1>2, ExportSafe, PTL DEF Spec

=============================================================================
