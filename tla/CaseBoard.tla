----------------------------- MODULE CaseBoard -----------------------------
(***************************************************************************)
(* The page of one case, "/admin/case-view" (case-view/client-page.tsx),   *)
(* and the page of one's assignments, "/admin/review" (review/page.tsx).   *)
(*                                                                         *)
(* Both fetch their items once, when they are mounted.  From then on every *)
(* write that succeeds is applied to the core and, by its reply, to the    *)
(* copy of the page.  A tag is written as the whole list of tags, made     *)
(* from the copy at the time of the click.                                 *)
(***************************************************************************)
EXTENDS ListPages

CONSTANTS
  Items,       \* rows of case_items
  CaseOf,      \* CaseOf[i]: the case of an item
  Account,     \* Account[u]: the row of a user
  Tags, Statuses,
  FirstFile,   \* the items at the start
  Labels,      \* bound: Labels[i], the tags an item is given
  OtherTags,   \* bound: the tags somebody else gives
  MaxEdits     \* bound: writes in flight

Record == [tags : SUBSET Tags, who : ClientAdmins \cup {NoRow}, status : Statuses]
Files  == UNION {[S -> Record] : S \in SUBSET Items}

ASSUME BoardAssumption ==
  /\ \A i \in Items : CaseOf[i] \in Rows /\ Kind[CaseOf[i]] = "case"
  /\ Account \in [Users -> Rows] /\ FirstFile \in Files
  /\ \A i \in DOMAIN FirstFile :              \* the foreign keys of case_items
       CaseOf[i] \in FirstRows /\ FirstFile[i].who \in FirstRows \cup {NoRow}
  /\ Labels \in [Items -> SUBSET Tags] /\ OtherTags \subseteq Tags
  /\ MaxEdits \in {1, 2}

VARIABLES
  file,         \* core: the rows of case_items
  copy,         \* the items (or assignments) of the page
  info,         \* caseInfo is set
  boardLoading, \* loading
  boardAsk,     \* the request for the items is in flight
  picked,       \* selectedItems
  chosen,       \* selectedAssignee
  modal,        \* the window that is open
  edits,        \* the writes to items, and the export, in flight
  crossed       \* history: the items that two writes of one kind met on, whose
                \* write failed, or that others have written

boardVars == <<file, copy, info, boardLoading, boardAsk, picked, chosen, modal,
               edits, crossed>>

Edits ==
  [op : {"tag"}, item : Items, tags : SUBSET Tags]
    \cup [op : {"status"}, item : Items, status : Statuses]
    \cup [op : {"remove"}, item : Items]
    \cup [op : {"assign"}, items : SUBSET Items, who : ClientAdmins]
    \cup {[op |-> "export"]}

BoardTypeOK ==
  /\ file \in Files /\ copy \in Files
  /\ info \in BOOLEAN /\ boardLoading \in BOOLEAN /\ boardAsk \in BOOLEAN
  /\ picked \subseteq Items /\ chosen \in ClientAdmins \cup {NoRow}
  /\ modal \in {"none", "assign", "export"}
  /\ edits \subseteq Edits
  /\ crossed \subseteq Items

Empty == [i \in {} |-> {}]

-----------------------------------------------------------------------------
(* Mounted for u. *)
MountBoard(id, u) ==
  /\ copy' = Empty /\ info' = FALSE /\ picked' = {} /\ chosen' = NoRow
  /\ modal' = "none" /\ edits' = {}
  /\ boardLoading' = (at' \in {"/admin/case-view", "/admin/review"})
  /\ boardAsk' = (u # NoUser /\ (at' = "/admin/case-view" => id # NoRow) /\
                 at' \in {"/admin/review", "/admin/case-view"})

OnCase   == at = "/admin/case-view" /\ ~boardLoading /\ info
OnReview == at = "/admin/review" /\ ~boardLoading

ItemsOfCase(c) == {i \in DOMAIN file : CaseOf[i] = c}
Assigned(u)    == {i \in DOMAIN file : file[i].who = Account[u]}

(* The items the page shows. *)
Shown == IF at = "/admin/review" THEN Assigned(user) ELSE ItemsOfCase(param)

(* fetchCaseDetails and fetchAssignments; a case of another organisation   *)
(* is not found.                                                           *)
BoardArrives ==
  /\ boardAsk
  /\ boardAsk' = FALSE /\ boardLoading' = FALSE
  /\ IF at = "/admin/review" \/ param \in RowsOf("case", OrgOf[user])
     THEN /\ copy' = [i \in Shown |-> file[i]]
          /\ info' = (at = "/admin/case-view")
     ELSE UNCHANGED <<copy, info>>
  /\ UNCHANGED <<sessionVars, listVars, file, picked, chosen, modal, edits, crossed>>

(* (Without its assignments the review page says that there are none.) *)
BoardFails ==
  /\ boardAsk
  /\ boardAsk' = FALSE /\ boardLoading' = FALSE
  /\ crossed' = Items
  /\ UNCHANGED <<sessionVars, listVars, file, copy, info, picked, chosen, modal, edits>>

-----------------------------------------------------------------------------
(* Bound: the selection is not changed while a write is in flight. *)
Calm == edits = {} /\ call = Idle

(* The selection, which a removed item stays in.  "All" compares numbers.  *)
Select(i) ==
  /\ OnCase /\ modal = "none" /\ i \in DOMAIN copy /\ Calm
  /\ picked' = IF i \in picked THEN picked \ {i} ELSE picked \cup {i}
  /\ UNCHANGED <<sessionVars, listVars, file, copy, info, boardLoading, boardAsk, chosen,
                 modal, edits, crossed>>

SelectAll ==
  /\ OnCase /\ modal = "none" /\ Calm
  /\ picked' = IF Cardinality(picked) = Cardinality(DOMAIN copy) THEN {} ELSE DOMAIN copy
  /\ UNCHANGED <<sessionVars, listVars, file, copy, info, boardLoading, boardAsk, chosen,
                 modal, edits, crossed>>

(* The two windows, and Cancel. *)
OpenModal(w) ==
  /\ OnCase
  /\ IF modal = "none" THEN w # "none" /\ (w = "assign" => picked # {}) ELSE w = "none"
  /\ modal' = w
  /\ UNCHANGED <<sessionVars, listVars, file, copy, info, boardLoading, boardAsk, picked,
                 chosen, edits, crossed>>

Choose(r) ==
  /\ OnCase /\ modal = "assign" /\ r \in lists["user"] \ {chosen} /\ Calm
  /\ chosen' = r
  /\ UNCHANGED <<sessionVars, listVars, file, copy, info, boardLoading, boardAsk, picked,
                 modal, edits, crossed>>

-----------------------------------------------------------------------------
Touched(e) == CASE e.op = "assign" -> e.items
                [] e.op = "export" -> {}
                [] OTHER           -> {e.item}

(* An items function after e: an UPDATE or DELETE of rows that are there.  *)
After(e, f) ==
  CASE e.op = "remove" -> [i \in DOMAIN f \ {e.item} |-> f[i]]
    [] e.op = "tag"    -> [i \in DOMAIN f |->
         IF i = e.item THEN [f[i] EXCEPT !.tags = e.tags] ELSE f[i]]
    [] e.op = "status" -> [i \in DOMAIN f |->
         IF i = e.item THEN [f[i] EXCEPT !.status = e.status] ELSE f[i]]
    [] e.op = "assign" -> [i \in DOMAIN f |->
         IF i \in e.items THEN [f[i] EXCEPT !.who = e.who] ELSE f[i]]
    [] OTHER           -> f

(* Bound: the fields of items that differ from the start. *)
Drift(f) ==
  {p \in Items \X {"tags", "who", "status"} :
     p[1] \notin DOMAIN f \/ f[p[1]][p[2]] # FirstFile[p[1]][p[2]]}

(* A write begins; two of one kind on one item may end in any order. *)
Begin(e) ==
  /\ e \notin edits /\ Cardinality(edits) < MaxEdits
  /\ fetches = {} /\ call = Idle /\ tail = {} /\ db = FirstRows    \* bound: nothing else under way
  /\ \A d \in edits : Touched(e) \cap Touched(d) # {}   \* bound
  /\ e.op = "assign" \/ chosen = NoRow                 \* bound
  /\ Drift(file) = {} \/ Drift(After(e, file)) \subseteq Drift(file)
  /\ edits' = edits \cup {e}
  /\ crossed' = crossed \cup
       UNION {Touched(e) \cap Touched(d) : d \in {d \in edits : d.op = e.op}}
  /\ UNCHANGED <<sessionVars, listVars, file, copy, info, boardLoading, boardAsk, picked,
                 chosen, modal>>

HandleTagUpdate(i, t) ==
  /\ OnCase /\ modal = "none" /\ i \in DOMAIN copy
  /\ t \in Labels[i]
  /\ Begin([op |-> "tag", item |-> i, tags |-> copy[i].tags \cup {t}])

HandleRemoveItem(i) ==
  /\ OnCase /\ modal = "none" /\ i \in DOMAIN copy
  /\ Begin([op |-> "remove", item |-> i])

HandleBatchAssign ==
  /\ OnCase /\ modal = "assign" /\ chosen # NoRow /\ picked # {}
  /\ Begin([op |-> "assign", items |-> picked, who |-> chosen])

HandleExport ==
  /\ OnCase /\ modal = "export"
  /\ Begin([op |-> "export"])

UpdateStatus(i, s) ==
  /\ OnReview /\ i \in DOMAIN copy /\ s # copy[i].status
  /\ Begin([op |-> "status", item |-> i, status |-> s])

-----------------------------------------------------------------------------
(* The core does e: the item to be removed is there, and so are the        *)
(* assignee and something to export.  Other updates are never refused.     *)
EditOk(e) ==
  CASE e.op = "remove" -> e.item \in DOMAIN file
    [] e.op = "assign" -> e.who \in db
    [] e.op = "export" -> ItemsOfCase(param) # {}
    [] OTHER           -> TRUE

(* Mutant: the reply to a tag does not reach the items of the page. *)
EditAnsweredUnseen(e) ==
  /\ e \in edits
  /\ edits' = edits \ {e}
  /\ IF EditOk(e)
     THEN /\ file' = After(e, file)
          /\ copy' = IF e.op = "tag" THEN copy ELSE After(e, copy)
          /\ picked' = IF e.op = "assign" THEN {} ELSE picked
          /\ chosen' = IF e.op = "assign" THEN NoRow ELSE chosen
          /\ modal' = IF e.op = modal THEN "none" ELSE modal
     ELSE UNCHANGED <<file, copy, picked, chosen, modal>>
  /\ UNCHANGED <<sessionVars, listVars, info, boardLoading, boardAsk, crossed>>

(* Mutant: an assignment does not reach the items of the page either. *)
EditAnsweredUnmarked(e) ==
  /\ e \in edits
  /\ edits' = edits \ {e}
  /\ IF EditOk(e)
     THEN /\ file' = After(e, file)
          /\ copy' = IF e.op = "assign" THEN copy ELSE After(e, copy)
          /\ picked' = IF e.op = "assign" THEN {} ELSE picked
          /\ chosen' = IF e.op = "assign" THEN NoRow ELSE chosen
          /\ modal' = IF e.op = modal THEN "none" ELSE modal
     ELSE UNCHANGED <<file, copy, picked, chosen, modal>>
  /\ UNCHANGED <<sessionVars, listVars, info, boardLoading, boardAsk, crossed>>

(* The reply to e: the copy follows, and an assignment or an export closes *)
(* its window.                                                             *)
EditAnswered(e) ==
  /\ e \in edits
  /\ edits' = edits \ {e}
  /\ IF EditOk(e)
     THEN /\ file' = After(e, file) /\ copy' = After(e, copy)
          /\ picked' = IF e.op = "assign" THEN {} ELSE picked
          /\ chosen' = IF e.op = "assign" THEN NoRow ELSE chosen
          /\ modal' = IF e.op = modal THEN "none" ELSE modal
     ELSE UNCHANGED <<file, copy, picked, chosen, modal>>
  /\ UNCHANGED <<sessionVars, listVars, info, boardLoading, boardAsk, crossed>>

(* Rejected: the core may have done it. *)
EditFails(e) ==
  /\ e \in edits
  /\ edits' = edits \ {e}
  /\ file' \in {file, IF EditOk(e) THEN After(e, file) ELSE file}
  /\ crossed' = crossed \cup Touched(e)
  /\ UNCHANGED <<sessionVars, listVars, copy, info, boardLoading, boardAsk, picked, chosen,
                 modal>>

(* Another reviewer, whose page has just read the item, adds a tag. *)
OtherReviewer(i, t) ==
  /\ i \in DOMAIN file /\ t \in (OtherTags \cap Labels[i]) \ file[i].tags
  /\ call = Idle /\ tail = {} /\ db = FirstRows /\ Drift(file) \subseteq {<<i, "tags">>}
  /\ file' = [file EXCEPT ![i].tags = @ \cup {t}]
  /\ crossed' = crossed \cup {i}
  /\ UNCHANGED <<sessionVars, listVars, copy, info, boardLoading, boardAsk, picked, chosen,
                 modal, edits>>

-----------------------------------------------------------------------------
HandleDeleteCase ==
  /\ OnCase /\ modal = "none" /\ param \in Rows /\ edits = {}
  /\ Starts("deleteCase", param)
  /\ UNCHANGED boardVars

(* The rows of case_items follow those of cases and users (ON DELETE       *)
(* CASCADE and ON DELETE SET NULL).                                        *)
FileFollows ==
  file' = [i \in {i \in DOMAIN file : CaseOf[i] \in db'} |->
             IF file[i].who \in db' THEN file[i] ELSE [file[i] EXCEPT !.who = NoRow]]

(* The writes of a page that goes come to pass, or do not.  (They may also *)
(* do so later: for the next page their items count as crossed.)           *)
LeaveBoard ==
  /\ LET ok == {e \in edits : EditOk(e)} IN
     file' \in {file} \cup {After(d, After(e, file)) : d \in ok, e \in ok}
  /\ crossed' = UNION {Touched(e) : e \in edits}

-----------------------------------------------------------------------------
BoardInit ==
  /\ file = FirstFile /\ copy = Empty /\ info = FALSE
  /\ boardLoading = FALSE /\ boardAsk = FALSE /\ picked = {} /\ chosen = NoRow
  /\ modal = "none" /\ edits = {} /\ crossed = {}

BoardUser ==
  \/ SelectAll \/ HandleBatchAssign \/ HandleExport \/ HandleDeleteCase
  \/ \E w \in {"none", "assign", "export"} : OpenModal(w)
  \/ \E r \in ClientAdmins : Choose(r)
  \/ \E i \in Items : Select(i) \/ HandleRemoveItem(i)
  \/ \E i \in Items, t \in Tags : HandleTagUpdate(i, t)
  \/ \E i \in Items, s \in Statuses : UpdateStatus(i, s)

EditSettles(e) == EditAnswered(e) \/ EditFails(e)

BoardCore ==
  \/ BoardArrives \/ BoardFails
  \/ \E e \in edits : EditSettles(e)
  \/ \E i \in Items, t \in Tags : OtherReviewer(i, t)

-----------------------------------------------------------------------------
(* PROPERTY.  When nothing is under way the page shows every item as the   *)
(* core has it, except those crossed: replies to a tag, an assignment, a   *)
(* removal and a status may come in any order (case-view 86-143, review    *)
(* 39-52).                                                                 *)
QuietBoardIsRight ==
  (OnCase \/ OnReview) /\ edits = {} /\ call = Idle =>
    \A i \in Items \ crossed :
      /\ i \in DOMAIN copy <=> i \in Shown
      /\ i \in DOMAIN copy => copy[i] = file[i]

(* PROPERTY.  A tag of an item that stays is only lost when updates of its *)
(* tags have crossed: the list that the page sends holds every tag it was  *)
(* told of (case-view 114-130, cases.py 126-136).                          *)
TagsAreKept ==
  [][\A i \in DOMAIN file \cap DOMAIN file' :
       file[i].tags \subseteq file'[i].tags \/ i \in crossed']_boardVars
=============================================================================
