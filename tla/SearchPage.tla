----------------------------- MODULE SearchPage -----------------------------
(***************************************************************************)
(* The page "/audit" (src/ui/src/app/(dashboard)/audit/page.tsx): the      *)
(* search of an organisation's mail, the selection of rows, the legal hold *)
(* on the selection and its addition to a case.                            *)
(*                                                                         *)
(* Every handler runs in the closure of the render it was made by and goes *)
(* on after each await, also when other handlers have run meanwhile or     *)
(* the page is gone (then its set functions do nothing, its requests still *)
(* do).  A fetch is answered, answered with an error, or rejected.  What a *)
(* user has typed into the query and the filters is one value (crit); the  *)
(* order of the rows is left out, and the index does not change.           *)
(***************************************************************************)
EXTENDS EntryNames

CONSTANTS
  MailOrg,
  Criteria, NoCriteria,  \* what can be typed; nothing typed and no filter set
  Hits,                  \* Hits[u][c][i]: the i-th mail the core finds for u
  DomainUsers,           \* the users with a list of domains (userDomain)
  Limit,                 \* rows of a page (LIMIT)
  MaxSearches,           \* bound: searches in flight
  Workers,               \* bound: the users who hold mail and add it to cases
  OldHolds,              \* the organisations that have a hold from before today
  PublicId, NoId,        \* the id the core lists a hold of an organisation by
  RowIds,                \* the ids legal_hold_items refers to (integers)
  Cases, CaseOrg, NoCase

ASSUME SearchAssumption ==
  /\ NoCriteria \in Criteria
  /\ MailOrg \in [Mails -> Orgs] /\ CaseOrg \in [Cases -> Orgs]
  /\ Limit \in Nat \ {0} /\ MaxSearches \in Nat \ {0}
  /\ DomainUsers \subseteq Users /\ Workers \subseteq Users /\ OldHolds \subseteq Orgs
  /\ NoCase \notin Cases
  \* the core filters by the organisation of the request
  /\ \A u \in Users, c \in Criteria :
       /\ DOMAIN Hits[u][c] \subseteq Nat
       /\ Cardinality(DOMAIN Hits[u][c]) \in Nat
       /\ \A i \in DOMAIN Hits[u][c] :
            Hits[u][c][i] \in Mails /\ MailOrg[Hits[u][c][i]] = OrgOf[u]

VARIABLES
  crit,       \* query and filters as typed
  results, total, page, loading,
  selected,   \* selectedIds
  hasHolds,   \* availableHolds is not empty
  cases,      \* availableCases
  caseId,     \* selectedCaseId
  isHolding, isAdding,
  asks,       \* the lists of holds and cases, in flight
  searches,   \* the calls of fetchMessages in flight
  holdCall,   \* handleApplyHold under way
  addCall,    \* handleAddToCase under way
  asked,      \* history: what the last search was for; Unclear when it met
              \* another one or failed
  autoHolds,  \* core: the organisations that have the hold of today
  held,       \* core: the mails in legal_hold_items
  items       \* core: <<case, mail>> of case_items

searchVars == <<crit, results, total, page, loading, asks, searches, asked>>
listVars == <<hasHolds, cases, caseId>>
holdVars == <<isHolding, holdCall, autoHolds, held>>
addVars == <<isAdding, addCall, items>>
pageVars == <<searchVars, listVars, selected, isHolding, isAdding>>
searchPageVars == <<searchVars, listVars, selected, holdVars, addVars>>

Query == [crit : Criteria, page : Nat]
NoQuery == [crit |-> NoCriteria, page |-> 0]
Unclear == [crit |-> NoCriteria, page |-> 0, unclear |-> TRUE]
FirstQuery == [crit |-> NoCriteria, page |-> 1]
Searches == [n : 1..MaxSearches, crit : Criteria, page : Nat \ {0}]
Idle == [step |-> "idle"]
HoldCalls == {Idle} \cup
  [step : {"create", "apply"}, hold : {NoId} \cup {PublicId[o] : o \in Orgs},
   ids : SUBSET Mails]
AddCalls == {Idle} \cup
  [step : {"add"}, case : Cases, ids : SUBSET Mails]

SearchTypeOK ==
  /\ crit \in Criteria /\ results \subseteq Mails /\ total \in Nat
  /\ page \in Nat \ {0} /\ loading \in BOOLEAN /\ selected \subseteq Mails
  /\ hasHolds \in BOOLEAN /\ cases \subseteq Cases /\ caseId \in Cases \cup {NoCase}
  /\ isHolding \in BOOLEAN /\ isAdding \in BOOLEAN
  /\ asks \subseteq {"holds", "cases"} /\ searches \subseteq Searches
  /\ holdCall \in HoldCalls /\ addCall \in AddCalls
  /\ asked \in Query \cup {Unclear}
  /\ autoHolds \subseteq Orgs /\ held \subseteq Mails
  /\ items \subseteq Cases \X Mails

-----------------------------------------------------------------------------
(* The rows of page p of the hits for u. *)
Slice(u, c, p) ==
  {Hits[u][c][i] : i \in {j \in DOMAIN Hits[u][c] : (p - 1) * Limit < j /\ j <= p * Limit}}

Found(u, c) == Cardinality(DOMAIN Hits[u][c])

(* apply_hold takes the integer id of a hold and nothing else. *)
Accepted(h) == h \in RowIds

(* The pairs handleAddToCase has asked for. *)
Asked == {addCall.case} \X addCall.ids

(* Mutant: the selection is kept in the provider. *)
BlankPageKeeping ==
  /\ crit' = NoCriteria /\ results' = {} /\ total' = 0 /\ page' = 1
  /\ hasHolds' = FALSE /\ cases' = {} /\ caseId' = NoCase
  /\ isHolding' = FALSE /\ isAdding' = FALSE
  /\ UNCHANGED selected

(* The page before its first effect: what useState holds. *)
BlankPage ==
  /\ crit' = NoCriteria /\ results' = {} /\ total' = 0 /\ page' = 1
  /\ selected' = {} /\ hasHolds' = FALSE /\ cases' = {} /\ caseId' = NoCase
  /\ isHolding' = FALSE /\ isAdding' = FALSE

(* Mounted for u: the effects ask for the holds and the open cases, and    *)
(* for the mails.  After a page load the latter only runs again if the     *)
(* user that is restored changes userDomain.  (The lists only matter to    *)
(* Workers.)                                                               *)
MountSearch(u, afterLoad) ==
  LET fetches == u \in (IF afterLoad THEN DomainUsers ELSE Users) IN
  /\ BlankPage
  /\ loading' = fetches
  /\ asked' = IF fetches THEN FirstQuery ELSE NoQuery
  /\ searches' = IF fetches THEN {[n |-> 1, crit |-> NoCriteria, page |-> 1]} ELSE {}
  /\ asks' = IF u \in Workers THEN {"holds", "cases"} ELSE {}

(* Another page is shown instead. *)
NoSearchPage ==
  /\ BlankPage
  /\ loading' = FALSE /\ searches' = {} /\ asks' = {} /\ asked' = NoQuery

(* The requests of a hold and of an addition to a case that are out when   *)
(* the page goes.  What they do to the tables they may as well do now or   *)
(* never: no page reads it before they end.                                *)
RequestsLeft ==
  /\ holdCall' = Idle /\ addCall' = Idle
  /\ items' \in {items, IF addCall = Idle THEN items ELSE items \cup Asked}
  /\ autoHolds' \in {autoHolds, IF holdCall.step = "create"
                                  THEN autoHolds \cup {OrgOf[user]} ELSE autoHolds}
  /\ held' \in {held, IF holdCall.step = "apply" /\ Accepted(holdCall.hold)
                       THEN held \cup holdCall.ids ELSE held}

(* What is under way when the page goes: its searches and its addition to  *)
(* a case still write their audit entries (a search without criteria       *)
(* writes none).                                                           *)
SearchOwes == addCall # Idle \/ \E s \in searches : s.crit # NoCriteria

-----------------------------------------------------------------------------
OnPage == at = "/audit"

(* Searches in flight are numbered to be told apart. *)
FreeSlots == 1..MaxSearches \ {s.n : s \in searches}
FirstFree(n) == n \in FreeSlots /\ \A k \in FreeSlots : n <= k

(* fetchMessages in a closure with criteria c on page p. *)
Fetch(c, p) ==
  IF user = NoUser THEN UNCHANGED <<searches, loading, asked>>
  ELSE /\ \E n \in FreeSlots :
            FirstFree(n) /\ searches' = searches \cup {[n |-> n, crit |-> c, page |-> p]}
       /\ loading' = TRUE
       /\ asked' = IF searches = {} THEN [crit |-> c, page |-> p] ELSE Unclear

Typing(c) ==
  /\ OnPage /\ c # crit
  /\ crit' = c
  /\ UNCHANGED <<tabVars, results, total, page, loading, asks, searches, asked, listVars, selected, holdVars, addVars>>

(* Mutant: the page does not fetch again when its number changes. *)
HandleSearchOnce ==
  /\ OnPage
  /\ page' = 1
  /\ Fetch(crit, page)
  /\ UNCHANGED <<tabVars, crit, results, total, asks, listVars, selected,
                 holdVars, addVars>>

(* The search form.  fetchMessages still sees the old page; if that is not *)
(* the first one, setPage(1) makes the effect fetch as well.               *)
HandleSearch ==
  /\ OnPage
  /\ page' = 1
  /\ IF page = 1 \/ user = NoUser THEN Fetch(crit, page)
     ELSE /\ \E n, k \in FreeSlots :
               /\ FirstFree(n) /\ k # n
               /\ searches' = searches \cup {[n |-> n, crit |-> crit, page |-> page],
                                            [n |-> k, crit |-> crit, page |-> 1]}
          /\ loading' = TRUE
          /\ asked' = Unclear
  /\ UNCHANGED <<tabVars, crit, results, total, asks, listVars, selected,
                 holdVars, addVars>>

(* Next and Previous: the effect fetches with what is typed by now. *)
TurnPage ==
  /\ OnPage
  /\ page' \in {page - 1, page + 1} \ {0}
  /\ page' > page => page * Limit < total
  /\ Fetch(crit, page')
  /\ UNCHANGED <<tabVars, crit, results, total, asks, listVars, selected,
                 holdVars, addVars>>

(* The core answers a search. *)
SearchReply(s) ==
  /\ s \in searches
  /\ searches' = searches \ {s}
  /\ results' = Slice(user, s.crit, s.page)
  /\ total' = Found(user, s.crit)
  /\ loading' = FALSE
  /\ IF s.crit = NoCriteria THEN UNCHANGED strange ELSE LogAudit(user)
  /\ UNCHANGED <<sessionVars, userId, late, later, crit, page, asks, asked,
                 listVars, selected, holdVars, addVars>>

(* Mutant: setLoading(false) is left to the success path of a search. *)
SearchFailsLoading(s) ==
  /\ s \in searches
  /\ searches' = searches \ {s}
  /\ asked' = Unclear
  /\ UNCHANGED <<tabVars, crit, page, asks, results, total, loading,
                 listVars, selected, holdVars, addVars>>

(* An error of the core is JSON too, without hits: the list is emptied and *)
(* the search logged.  A fetch that is rejected leaves the list.           *)
SearchFails(s) ==
  /\ s \in searches
  /\ searches' = searches \ {s}
  /\ loading' = FALSE /\ asked' = Unclear
  /\ \/ /\ results' = {} /\ total' = 0
        /\ IF s.crit = NoCriteria THEN UNCHANGED strange ELSE LogAudit(user)
     \/ UNCHANGED <<results, total, strange>>
  /\ UNCHANGED <<sessionVars, userId, late, later, crit, page, asks,
                 listVars, selected, holdVars, addVars>>

(* The lists arrive, are rejected, or are an error (whose length is not    *)
(* greater than 0, and which is no array).                                 *)
HoldsArrive ==
  /\ "holds" \in asks
  /\ asks' = asks \ {"holds"}
  /\ hasHolds' \in {FALSE, OrgOf[user] \in autoHolds \cup OldHolds}
  /\ UNCHANGED <<tabVars, crit, results, total, page, loading, searches, asked, cases, caseId, selected, holdVars, addVars>>

CasesArrive ==
  /\ "cases" \in asks
  /\ asks' = asks \ {"cases"}
  /\ \/ /\ cases' = {c \in Cases : CaseOrg[c] = OrgOf[user]}
        /\ caseId' \in IF cases' = {} THEN {caseId} ELSE cases'
     \/ UNCHANGED <<cases, caseId>>
  /\ UNCHANGED <<tabVars, crit, results, total, page, loading, searches, asked, hasHolds, selected, holdVars, addVars>>

ChooseCase(c) ==
  /\ OnPage /\ selected # {} /\ c \in cases \ {caseId}
  /\ caseId' = c
  /\ UNCHANGED <<tabVars, searchVars, hasHolds, cases, selected, holdVars,
                 addVars>>

-----------------------------------------------------------------------------
ToggleSelect(m) ==
  /\ OnPage /\ m \in results
  /\ selected' = IF m \in selected THEN selected \ {m} ELSE selected \cup {m}
  /\ UNCHANGED <<tabVars, searchVars, listVars, holdVars, addVars>>

(* It is the sizes that are compared: rows of an earlier result count. *)
ToggleSelectAll ==
  /\ OnPage
  /\ selected' = IF Cardinality(selected) = Cardinality(results) THEN {} ELSE results
  /\ UNCHANGED <<tabVars, searchVars, listVars, holdVars, addVars>>

(* The file is made of the rows on display; the entry is written for any.  *)
HandleExport ==
  /\ OnPage /\ SignedIn
  /\ LogAudit(user)
  /\ UNCHANGED <<sessionVars, userId, late, later, searchVars, listVars, selected,
                  holdVars, addVars>>

(* The first hold of the list, or one that has to be created first. *)
HandleApplyHold ==
  /\ OnPage /\ user \in Workers /\ selected # {} /\ ~isHolding
  /\ holdCall = Idle          \* bound: one such handler at a time
  /\ isHolding' = TRUE
  /\ holdCall' = [step |-> IF hasHolds THEN "apply" ELSE "create",
                  hold |-> IF hasHolds THEN PublicId[OrgOf[user]] ELSE NoId,
                  ids |-> selected]
  /\ UNCHANGED <<tabVars, searchVars, listVars, selected, autoHolds, held, addVars>>

(* create_hold answers with the public id of the hold of today, or refuses *)
(* because its name is taken: then there is no id.                         *)
HoldCreated ==
  /\ holdCall.step = "create"
  /\ LET o == OrgOf[user] IN
     /\ holdCall' = [holdCall EXCEPT !.step = "apply",
                       !.hold = IF o \in autoHolds THEN NoId ELSE PublicId[o]]
     /\ autoHolds' = autoHolds \cup {o}
  /\ UNCHANGED <<tabVars, searchVars, listVars, selected, isHolding, held, addVars>>

HoldApplied ==
  /\ holdCall.step = "apply"
  /\ holdCall' = Idle
  /\ held' = IF Accepted(holdCall.hold) THEN held \cup holdCall.ids ELSE held
  /\ isHolding' = FALSE
  /\ selected' = IF Accepted(holdCall.hold) THEN {} ELSE selected
  /\ IF Accepted(holdCall.hold) THEN LogAudit(user) ELSE UNCHANGED strange
  /\ UNCHANGED <<sessionVars, userId, late, later, searchVars, listVars, 
                 autoHolds, addVars>>

(* A rejected fetch ends the handler; the core may have done its part.     *)
HoldFails ==
  /\ holdCall # Idle
  /\ holdCall' = Idle
  /\ autoHolds' \in {autoHolds, IF holdCall.step = "create"
                                  THEN autoHolds \cup {OrgOf[user]} ELSE autoHolds}
  /\ isHolding' = FALSE
  /\ UNCHANGED <<tabVars, searchVars, listVars, selected, held,
                 addVars>>

HandleAddToCase ==
  /\ OnPage /\ user \in Workers /\ selected # {} /\ caseId # NoCase /\ ~isAdding
  /\ addCall = Idle /\ items = {} \* bound: one such handler at a time, till one succeeds
  /\ isAdding' = TRUE
  /\ addCall' = [step |-> "add", case |-> caseId, ids |-> selected]
  /\ UNCHANGED <<tabVars, searchVars, listVars, selected, holdVars, items>>

AddedToCase ==
  /\ addCall # Idle
  /\ addCall' = Idle
  /\ items' = items \cup Asked
  /\ isAdding' = FALSE
  /\ selected' = {}
  /\ LogAudit(user)
  /\ UNCHANGED <<sessionVars, userId, late, later, searchVars, listVars, holdVars>>

AddFails ==
  /\ addCall # Idle
  /\ addCall' = Idle
  /\ items' \in {items, items \cup Asked}
  /\ isAdding' = FALSE
  /\ UNCHANGED <<tabVars, searchVars, listVars, selected, holdVars>>

-----------------------------------------------------------------------------
SearchInit ==
  /\ crit = NoCriteria /\ results = {} /\ total = 0 /\ page = 1 /\ loading = FALSE
  /\ selected = {} /\ hasHolds = FALSE /\ cases = {} /\ caseId = NoCase
  /\ isHolding = FALSE /\ isAdding = FALSE
  /\ asks = {} /\ searches = {} /\ holdCall = Idle /\ addCall = Idle
  /\ asked = NoQuery
  /\ autoHolds = {} /\ held = {} /\ items = {}

(* What the user does on the page. *)
SearchUser ==
  \/ \E c \in Criteria : Typing(c)
  \/ HandleSearch \/ TurnPage
  \/ \E m \in Mails : ToggleSelect(m)
  \/ ToggleSelectAll \/ HandleExport
  \/ \E c \in Cases : ChooseCase(c)
  \/ HandleApplyHold \/ HandleAddToCase

(* What is under way comes to an end: every fetch is settled some day.     *)
SearchSettles(s) == SearchReply(s) \/ SearchFails(s)
HoldSettles == HoldCreated \/ HoldApplied \/ HoldFails
AddSettles == AddedToCase \/ AddFails

SearchCore ==
  \/ \E s \in searches : SearchSettles(s)
  \/ HoldsArrive \/ CasesArrive \/ HoldSettles \/ AddSettles

-----------------------------------------------------------------------------
(* PROPERTY.  When no search is under way and the last one met no other    *)
(* and did not fail, the table holds the rows, and the pager the total, of *)
(* the criteria that were asked for last, at the page that is displayed    *)
(* (fetchMessages, its effect and handleSearch, page.tsx 210-256).         *)
QuietPageIsRight ==
  OnPage /\ searches = {} /\ asked # Unclear =>
    IF asked = NoQuery THEN results = {}
    ELSE /\ asked.page = page
         /\ results = Slice(user, asked.crit, page)
         /\ total = Found(user, asked.crit)

(* PROPERTY.  A case only ever gets mail of its own organisation.  The     *)
(* core checks the case and not the mail (cases.py 198), so this rests on  *)
(* the page: neither its selection nor a late reply survives the session   *)
(* they belong to (page.tsx 187-208).                                      *)
EvidenceIsOwn == \A p \in items : CaseOrg[p[1]] = MailOrg[p[2]]

(* PROPERTY.  The mails of a hold request that was answered are held (the  *)
(* button "Legal Hold" of page.tsx 147-185).                               *)
BulkHoldHolds == [][HoldApplied => holdCall.ids \subseteq held']_searchPageVars

(* PROPERTY.  A search, a hold and an addition to a case come to an end on *)
(* the page, whatever becomes of their requests: the spinner goes and the  *)
(* buttons can be used again (the finally blocks of page.tsx 182-244).     *)
ButtonsComeBack ==
  /\ loading ~> ~loading
  /\ isHolding ~> ~isHolding
  /\ isAdding ~> ~isAdding
=============================================================================
