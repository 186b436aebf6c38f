------------------------------ MODULE CaseReview ------------------------------
(***************************************************************************)
(* Organisations, users, cases and exports: core/admin.py, core/cases.py   *)
(* and core/exports.py on the tables of core/database.py.                  *)
(*                                                                         *)
(* A handler is a coroutine.  Each SQL statement commits by itself and     *)
(* other handlers run at every await, so a handler of several statements   *)
(* is a request with a program counter; one whose statements amount to a   *)
(* single guarded write is one action.  Ids come from sequences: they are  *)
(* never drawn twice, also when their row is gone.                         *)
(***************************************************************************)
EXTENDS Naturals, FiniteSets, Sequences

CONSTANTS
  Orgs, Users, Cases, Items,   \* the ids the sequences can draw
  Mails,
  Requests,     \* handlers that can run at once
  NoOrg, NoUser, NoPlace

(* The statements of delete_organization in their order.  audit_logs       *)
(* stands for the tables whose rows only refer to the organisation:        *)
(* legal_holds with its items, retention_policies and sidecar_agents too.  *)
Cascade == <<"case_items", "cases", "audit_logs", "users", "organizations">>

ASSUME ReviewAssumption ==
  /\ Orgs \cap (Users \cup Cases \cup Items) = {}
  /\ Users \cap (Cases \cup Items) = {} /\ Cases \cap Items = {}
  /\ NoOrg \notin Orgs /\ NoUser \notin Users /\ NoPlace \notin Cases \X Mails

VARIABLES
  rows,       \* the ids with a row
  home,       \* home[x]: the org_id of the user or case x, NoOrg before its INSERT
  place,      \* place[i]: the case and the mail of item i
  assignee,   \* assignee[i]: the reviewer of item i and, as history, the organisation that
              \*   asked for that, NoOrg if no check has seen the item
  logged,     \* the organisations with rows in audit_logs
  archived,   \* the mails with a document that has a key, and a blob
  req,        \* req[r]: the request that handler r works on
  (* history *)
  disturbed,  \* handlers during whose deletion another one inserted something
  added,      \* pairs answered "added" and not removed since
  due         \* due[r]: what was added before export r and not removed during it

tables  == <<rows, home, place, assignee, logged>>
history == <<disturbed, added, due>>
vars == <<tables, archived, req, history>>

Idle == [op |-> "idle"]

Request ==
  {Idle}
    \cup [op : {"delete"}, org : Orgs, at : 1..Len(Cascade)]
    \cup [op : {"add"}, case : Cases, mails : SUBSET Mails]
    \cup [op : {"assign"}, org : Orgs, items : SUBSET Items, seen : SUBSET Items, user : Users]
    \cup [op : {"export"}, case : Cases]
    \cup [op : {"pack"}, case : Cases, mails : SUBSET Mails]
    \cup [op : {"packed"}, case : Cases, zip : SUBSET Mails, out : SUBSET Mails]

TypeOK ==
  /\ rows \subseteq Orgs \cup Users \cup Cases \cup Items
  /\ home \in [Users \cup Cases -> Orgs \cup {NoOrg}]
  /\ place \in [Items -> (Cases \X Mails) \cup {NoPlace}]
  /\ assignee \in [Items -> (Users \X (Orgs \cup {NoOrg})) \cup {NoUser}]
  /\ logged \subseteq Orgs
  /\ archived \subseteq Mails
  /\ req \in [Requests -> Request]
  /\ disturbed \subseteq Requests
  /\ added \subseteq Cases \X Mails
  /\ due \in [Requests -> SUBSET Mails]

Init ==
  /\ rows = Orgs /\ logged = {}
  /\ home = [x \in Users \cup Cases |-> NoOrg]
  /\ place = [i \in Items |-> NoPlace]
  /\ assignee = [i \in Items |-> NoUser]
  /\ archived \in SUBSET Mails   \* central SMTP stores its documents without a key
  /\ req = [r \in Requests |-> Idle]
  /\ disturbed = {} /\ added = {}
  /\ due = [r \in Requests |-> {}]

-----------------------------------------------------------------------------
(* What the tables hold, and what the schema does on DELETE. *)

Listed(c) == {i \in Items \cap rows : place[i] \in {c} \X Mails}
Kept(c)   == {place[i][2] : i \in Listed(c)}
CasesOf(o) == {c \in Cases \cap rows : home[c] = o}
UsersOf(o) == {u \in Users \cap rows : home[u] = o}
ItemsOf(o) == UNION {Listed(c) : c \in CasesOf(o)}

(* A row that refers to organisation o: the last DELETE would fail. *)
Referred(o) == CasesOf(o) \cup UsersOf(o) # {} \/ o \in logged

(* ON DELETE CASCADE *)
WithItems(cs) == cs \cup UNION {Listed(c) : c \in cs}

(* The rows gone go, and the assignments to users among them with          *)
(* ON DELETE SET NULL.                                                     *)
Drop(gone) ==
  /\ rows' = rows \ gone
  /\ assignee' = [i \in Items |->
       IF i \in gone \/ assignee[i] \in gone \X (Orgs \cup {NoOrg}) THEN NoUser ELSE assignee[i]]

Exports(c) == {r \in Requests : req[r].op \in {"export", "pack"} /\ req[r].case = c}

(* What counts as removed when the mails ms are taken out of the cases cs. *)
Forget(cs, ms) ==
  /\ added' = added \ (cs \X ms)
  /\ due' = [r \in Requests |-> IF \E c \in cs : r \in Exports(c)
                                THEN due[r] \ ms ELSE due[r]]

(* The answer, or an exception: with it goes what is known of the request. *)
End(r) ==
  /\ req' = [req EXCEPT ![r] = Idle]
  /\ disturbed' = disturbed \ {r}
  /\ due' = [due EXCEPT ![r] = {}]

Disturb(o) ==
  disturbed' = disturbed \cup {r \in Requests : req[r].op = "delete" /\ req[r].org = o}

-----------------------------------------------------------------------------
(* Handlers of one effective statement *)

(* create_user and create_case: the foreign key is all that ties the row   *)
(* to its organisation when the INSERT runs.                               *)
InsertMember(x, o) ==
  /\ home[x] = NoOrg
  /\ o \in rows
  /\ rows' = rows \cup {x}
  /\ home' = [home EXCEPT ![x] = o]
  /\ Disturb(o)
  /\ UNCHANGED <<place, assignee, logged, archived, req, added, due>>

(* create_audit_log, and what the other tables get. *)
InsertLog(o) ==
  /\ o \in rows
  /\ logged' = logged \cup {o}
  /\ Disturb(o)
  /\ UNCHANGED <<rows, home, place, assignee, archived, req, added, due>>

DeleteUser(u) ==
  /\ u \in rows
  /\ Drop({u})
  /\ UNCHANGED <<home, place, logged, archived, req, history>>

(* delete_case: the DELETE repeats the condition of the check before it. *)
DeleteCase(c) ==
  /\ c \in rows
  /\ Drop(WithItems({c}))
  /\ Forget({c}, Mails)
  /\ UNCHANGED <<home, place, logged, archived, req, disturbed>>

RemoveItem(i) ==
  /\ i \in rows
  /\ Drop({i})
  /\ Forget({place[i][1]}, {place[i][2]})
  /\ UNCHANGED <<home, place, logged, archived, req, disturbed>>

-----------------------------------------------------------------------------
(* delete_organization *)

BeginDelete(r, o) ==
  /\ req[r] = Idle
  /\ o \in rows
  /\ req' = [req EXCEPT ![r] = [op |-> "delete", org |-> o, at |-> 1]]
  /\ UNCHANGED <<tables, archived, history>>

(* Mutants: the statement on users is forgotten; that on case_items has no *)
(* condition on the organisation.                                          *)
DoomedButUsers(t, o) ==
  CASE t = "case_items" -> ItemsOf(o)
    [] t = "cases"      -> WithItems(CasesOf(o))
    [] OTHER            -> {}

DoomedEverywhere(t, o) ==
  CASE t = "case_items" -> Items \cap rows
    [] t = "cases"      -> WithItems(CasesOf(o))
    [] t = "users"      -> UsersOf(o)
    [] OTHER            -> {}

(* The rows of organisation o that statement t deletes. *)
Doomed(t, o) ==
  CASE t = "case_items" -> ItemsOf(o)
    [] t = "cases"      -> WithItems(CasesOf(o))
    [] t = "users"      -> UsersOf(o)
    [] OTHER            -> {}

DeleteStep(r) ==
  LET o == req[r].org  t == Cascade[req[r].at] IN
  /\ req[r].op = "delete"
  /\ t # "organizations"
  /\ Drop(Doomed(t, o))
  /\ logged' = IF t = "audit_logs" THEN logged \ {o} ELSE logged
  /\ IF t \in {"case_items", "cases"} THEN Forget(CasesOf(o), Mails) ELSE UNCHANGED <<added, due>>
  /\ req' = [req EXCEPT ![r].at = @ + 1]
  /\ UNCHANGED <<home, place, archived, disturbed>>

(* Mutant: no foreign key, the last DELETE never fails. *)
DeleteOrgUnchecked(r) ==
  LET o == req[r].org IN
  /\ req[r].op = "delete"
  /\ Cascade[req[r].at] = "organizations"
  /\ rows' = rows \ {o}
  /\ End(r)
  /\ UNCHANGED <<home, place, assignee, logged, archived, added>>

(* The last DELETE fails while a row refers to the organisation. *)
DeleteOrg(r) ==
  LET o == req[r].org IN
  /\ req[r].op = "delete"
  /\ Cascade[req[r].at] = "organizations"
  /\ rows' = IF Referred(o) THEN rows ELSE rows \ {o}
  /\ End(r)
  /\ UNCHANGED <<home, place, assignee, logged, archived, added>>

-----------------------------------------------------------------------------
(* add_items_to_case *)

CheckAdd(r, c, ms) ==
  /\ req[r] = Idle
  /\ c \in rows
  /\ req' = [req EXCEPT ![r] = [op |-> "add", case |-> c, mails |-> ms]]
  /\ UNCHANGED <<tables, archived, history>>

(* executemany is one transaction; what the case lists already stays. *)
InsertItems(r) ==
  LET c == req[r].case  new == req[r].mails \ Kept(c) IN
  /\ req[r].op = "add"
  /\ IF c \in rows
     THEN \E drawn \in [new -> {i \in Items : place[i] = NoPlace}] :
            /\ \A m, n \in new : m # n => drawn[m] # drawn[n]
            /\ rows' = rows \cup {drawn[m] : m \in new}
            /\ place' = [i \in Items |-> IF \E m \in new : drawn[m] = i
                           THEN <<c, CHOOSE m \in new : drawn[m] = i>> ELSE place[i]]
            /\ added' = added \cup ({c} \X req[r].mails)
     ELSE UNCHANGED <<rows, place, added>>
  /\ End(r)
  /\ UNCHANGED <<home, assignee, logged, archived>>

-----------------------------------------------------------------------------
(* batch_assign_items.  The check looks for rows of other organisations    *)
(* among the ids it is given: an id without a row passes it.  Of those     *)
(* only the ids not drawn yet matter, since the id of a deleted item does  *)
(* not come back.  The user is any user, for the page of a case lists      *)
(* users of all organisations.                                             *)

NotDrawn == {i \in Items : place[i] = NoPlace}

(* Mutant: one item of the organisation is enough. *)
CheckAssignAny(r, o, its, u) ==
  /\ req[r] = Idle
  /\ its \subseteq rows \cup NotDrawn
  /\ \E i \in its \cap rows : home[place[i][1]] = o
  /\ req' = [req EXCEPT ![r] = [op |-> "assign", org |-> o, items |-> its, seen |-> its \cap rows,
                           user |-> u]]
  /\ UNCHANGED <<tables, archived, history>>

CheckAssign(r, o, its, u) ==
  /\ req[r] = Idle
  /\ its \subseteq rows \cup NotDrawn
  /\ \A i \in its \cap rows : home[place[i][1]] = o
  /\ req' = [req EXCEPT ![r] = [op |-> "assign", org |-> o, items |-> its, seen |-> its \cap rows,
                           user |-> u]]
  /\ UNCHANGED <<tables, archived, history>>

(* By id alone; who asked is on record for the items the check has seen.   *)
UpdateAssignee(r) ==
  LET hit == req[r].items \cap rows IN
  /\ req[r].op = "assign"
  /\ IF req[r].user \in rows
     THEN assignee' = [i \in Items |->
            IF i \in hit THEN <<req[r].user, IF i \in req[r].seen THEN req[r].org ELSE NoOrg>>
                         ELSE assignee[i]]
     ELSE UNCHANGED assignee
  /\ End(r)
  /\ UNCHANGED <<rows, home, place, logged, archived, added>>

-----------------------------------------------------------------------------
(* export_case *)

BeginExport(r, c) ==
  /\ req[r] = Idle
  /\ c \in rows
  /\ req' = [req EXCEPT ![r] = [op |-> "export", case |-> c]]
  /\ due' = [due EXCEPT ![r] = {m \in Mails : <<c, m>> \in added}]
  /\ UNCHANGED <<tables, archived, disturbed, added>>

(* 400 for a case without items. *)
ReadItems(r) ==
  LET c == req[r].case IN
  /\ req[r].op = "export"
  /\ IF Kept(c) = {} THEN End(r) ELSE
       /\ req' = [req EXCEPT ![r] = [op |-> "pack", case |-> c, mails |-> Kept(c)]]
       /\ UNCHANGED <<disturbed, due>>
  /\ UNCHANGED <<tables, archived, added>>

(* Mutant: one failed lookup drops all the mails looked up with it. *)
PackedAllOrNothing(ms, missed) == IF ms \cap missed = {} THEN ms \cap archived ELSE {}

(* What of the mails ms create_export_job packs: those with a document, a  *)
(* key and a blob.  A search or a download that fails returns nothing, an  *)
(* exception ends the job or the mail, and the zip goes out without those  *)
(* mails: missed.                                                          *)
Packed(ms, missed) == (ms \cap archived) \ missed

(* create_export_job has no await; the answer is 200 whatever is missing. *)
CreateExportJob(r) ==
  /\ req[r].op = "pack"
  /\ \E missed \in SUBSET req[r].mails :
       req' = [req EXCEPT ![r] = [op |-> "packed", case |-> req[r].case,
                                  zip |-> Packed(req[r].mails, missed),
                                  out |-> missed \cup (Mails \ archived)]]
  /\ UNCHANGED <<tables, archived, history>>

-----------------------------------------------------------------------------
(* A statement raises, or the core stops, or an export that is packed is   *)
(* answered: the request ends where it is.                                 *)
Abort(r) ==
  /\ req[r] # Idle
  /\ End(r)
  /\ UNCHANGED <<tables, archived, added>>

(* Retention deletes the document of a mail, then its blob: from the first *)
(* on the mail cannot be exported.                                         *)
Purge(m) ==
  /\ m \in archived
  /\ archived' = archived \ {m}
  /\ UNCHANGED <<tables, req, history>>

Next ==
  \/ \E o \in Orgs :
       \/ \E x \in Users \cup Cases : InsertMember(x, o)
       \/ InsertLog(o)
  \/ \E u \in Users : DeleteUser(u)
  \/ \E c \in Cases : DeleteCase(c)
  \/ \E i \in Items : RemoveItem(i)
  \/ \E m \in Mails : Purge(m)
  \/ \E r \in Requests :
       \/ \E o \in Orgs : BeginDelete(r, o)
       \/ \E c \in Cases : \/ BeginExport(r, c)
                           \/ \E ms \in SUBSET Mails \ {{}} : CheckAdd(r, c, ms)
       \/ \E o \in Orgs, its \in SUBSET Items \ {{}}, u \in Users : CheckAssign(r, o, its, u)
       \/ DeleteStep(r) \/ DeleteOrg(r) \/ InsertItems(r) \/ UpdateAssignee(r)
       \/ ReadItems(r) \/ CreateExportJob(r) \/ Abort(r)

Spec == Init /\ [][Next]_vars
-----------------------------------------------------------------------------
(* An organisation whose deletion was answered "deleted" has left nothing  *)
(* behind, whatever was inserted between the nine statements of            *)
(* delete_organization.                                                    *)
DeletedLeavesNothing ==
  \A o \in Orgs \ rows :
    /\ ~Referred(o)
    /\ \A i \in Items \cap rows : home[place[i][1]] # o

(* When the last statement of a deletion runs and no other handler has     *)
(* inserted anything for the organisation meanwhile, nothing refers to it  *)
(* any more: only an insertion makes delete_organization fail there.       *)
AloneItSucceeds ==
  \A r \in Requests :
    req[r].op = "delete" /\ r \notin disturbed =>
      (Cascade[req[r].at] = "organizations" => ~Referred(req[r].org))

(* An item under review is assigned to a user that exists, and if the      *)
(* check of batch_assign_items saw the item, on a request of the           *)
(* organisation its case belongs to, although the update is a statement of *)
(* its own.  An id the check found no row for is assigned for whoever      *)
(* asked, should an item with that id be inserted in between.              *)
AssignmentsAreOwn ==
  \A i \in Items \cap rows :
    assignee[i] # NoUser => assignee[i] \in rows \X {home[place[i][1]], NoOrg}

(* What add_items_to_case answered "added" is in the case until the item,  *)
(* its case or its organisation is deleted: nothing that is done to        *)
(* another case or organisation takes it away.                             *)
AddedIsListed ==
  \A p \in added : p[1] \in rows /\ p[2] \in Kept(p[1])

(* An export has every mail that was added before it began and was not     *)
(* removed while it ran, but for those without a document, a key or a blob *)
(* and those whose lookup failed; and it has nothing that was never put    *)
(* into that case.                                                         *)
ExportsAreExact ==
  \A r \in Requests : req[r].op = "packed" =>
    /\ due[r] \subseteq req[r].zip \cup req[r].out
    /\ \A m \in req[r].zip : \E i \in Items : place[i] = <<req[r].case, m>>
=============================================================================
