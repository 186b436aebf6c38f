--------------------------- MODULE AuditorTabProofs ---------------------------
(***************************************************************************)
(* Theorems about a tab on the search page and the message page, for any   *)
(* users, mails, results, cases and bounds: its state is well typed, the   *)
(* entries it writes name the right user, cases only get mail of their own *)
(* organisation, a page at rest shows what was asked for, no spinner turns *)
(* for nothing, and the button "Legal Hold" holds nothing.                 *)
(***************************************************************************)
EXTENDS AuditorTab, TLAPS

(* A move: the route at' is mounted for user', and the page so far goes. *)
Moved ==
  \E m \in Mails \cup {NoMail}, l \in BOOLEAN : Arrive(user', m, l)

Moves ==
  \/ \E u \in Users : SignIn(u)
  \/ SignOut
  \/ \E r \in Routes : Browse(r)
  \/ \E m \in Mails : OpenMail(m)
  \/ \E r \in Routes, m \in Mails \cup {NoMail} : Load(r, m)

(* TypeOK in parts: variables that hold Booleans, and the others, of those *)
(* that are reset when a page goes and those that are not.                 *)
SearchBools == /\ loading \in BOOLEAN /\ hasHolds \in BOOLEAN
               /\ isHolding \in BOOLEAN /\ isAdding \in BOOLEAN

SearchSets ==
  /\ crit \in Criteria /\ results \subseteq Mails /\ total \in Nat
  /\ page \in Nat \ {0} /\ selected \subseteq Mails
  /\ cases \subseteq Cases /\ caseId \in Cases \cup {NoCase}
  /\ asks \subseteq {"holds", "cases"} /\ searches \subseteq Searches
  /\ asked \in Query \cup {Unclear}

CallSets ==
  /\ holdCall \in HoldCalls /\ addCall \in AddCalls
  /\ autoHolds \subseteq Orgs /\ held \subseteq Mails /\ items \subseteq Cases \X Mails

ViewBools == /\ viewLoading \in BOOLEAN /\ broken \in BOOLEAN
             /\ missed \in BOOLEAN /\ tangled \in BOOLEAN

ViewSets ==
  /\ id \in Mails \cup {NoMail} /\ data \in Mails \cup {NoMail}
  /\ thread \subseteq Mails /\ threadOf \in Mails \cup {NoMail}
  /\ redacted \in Mails \cup {NoMail}
  /\ verdict \in (Mails \cup {NoMail}) \X Statuses
  /\ loads \subseteq Parts \X Mails

(* A request is only under way, and a mail shown, for somebody. *)
Busy == searches # {} \/ holdCall # Idle \/ addCall # Idle \/ loads # {} \/ data # NoMail
BusyInv == Busy => user \in Users

-----------------------------------------------------------------------------
LEMMA TypeParts ==
  TypeOK <=> /\ SessionTypeOK /\ NameTypeOK /\ SearchBools /\ SearchSets /\ CallSets
             /\ ViewBools /\ ViewSets
BY DEF TypeOK, SearchTypeOK, MessageTypeOK, SearchBools, SearchSets, CallSets, ViewBools,
       ViewSets

LEMMA TypePartsPrime ==
  TypeOK' <=> (/\ SessionTypeOK /\ NameTypeOK /\ SearchBools /\ SearchSets /\ CallSets
               /\ ViewBools /\ ViewSets)'
BY DEF TypeOK, SearchTypeOK, MessageTypeOK, SearchBools, SearchSets, CallSets, ViewBools,
       ViewSets

LEMMA NoneTyped ==
  /\ NoCriteria \in Criteria /\ "LOADING" \in Statuses /\ "UNAVAILABLE" \in Statuses
  /\ NoQuery \in Query /\ FirstQuery \in Query
  /\ [n |-> 1, crit |-> NoCriteria, page |-> 1] \in Searches
<1>1. NoCriteria \in Criteria /\ 1 \in 1..MaxSearches
  BY SearchAssumption
<1>2. "LOADING" \in Statuses /\ "UNAVAILABLE" \in Statuses
  BY MessageAssumption
<1> QED BY <1>1, <1>2 DEF Query, NoQuery, FirstQuery, Searches

LEMMA TypeInit == Init => TypeOK
<1> SUFFICES ASSUME Init PROVE TypeOK
  OBVIOUS
<1>1. SessionTypeOK /\ NameTypeOK
  BY SessionAssumption DEF Init, SessionInit, SessionTypeOK, NameInit, NameTypeOK
<1>2. SearchBools /\ ViewBools
  BY Zenon DEF Init, SearchInit, SearchBools, MessageInit, ViewBools
<1>3. SearchSets
  BY NoneTyped DEF Init, SearchInit, SearchSets
<1>4. CallSets
  BY DEF Init, SearchInit, CallSets, HoldCalls, AddCalls
<1>5. ViewSets
  BY NoneTyped DEF Init, MessageInit, ViewSets
<1> QED BY <1>1, <1>2, <1>3, <1>4, <1>5, TypeParts

(* A page that is mounted is well typed. *)
LEMMA ArriveType ==
  ASSUME NEW v \in Users \cup {NoUser}, NEW m \in Mails \cup {NoMail}, NEW l \in BOOLEAN,
         Arrive(v, m, l)
  PROVE  (SearchBools /\ SearchSets /\ ViewBools /\ ViewSets)'
<1>1. SearchBools'
  <2>1. loading' \in BOOLEAN
    <3>1. CASE NoSearchPage
      BY <3>1, Zenon DEF NoSearchPage
    <3>2. CASE MountSearch(v, l)
      <4> DEFINE found == v \in (IF l THEN DomainUsers ELSE Users)
      <4>1. loading' = found
        BY <3>2 DEF MountSearch
      <4>2. found \in BOOLEAN
        BY SMT
      <4> QED BY <4>1, <4>2, Zenon
    <3> QED BY <3>1, <3>2, Zenon DEF Arrive
  <2> QED
    BY <2>1, Zenon DEF Arrive, MountSearch, NoSearchPage, BlankPage, SearchBools
<1>2. SearchSets'
  <2>1. CASE MountSearch(v, l)
    BY <2>1, NoneTyped DEF MountSearch, BlankPage, SearchSets
  <2>2. CASE NoSearchPage
    BY <2>2, NoneTyped DEF NoSearchPage, BlankPage, SearchSets
  <2> QED BY <2>1, <2>2 DEF Arrive
<1>3. ViewBools'
  BY Zenon DEF Arrive, MountView, NoView, BlankView, ViewBools
<1>4. ViewSets'
  BY NoneTyped DEF Arrive, MountView, NoView, BlankView, ViewSets, Parts
<1> QED BY <1>1, <1>2, <1>3, <1>4

(* The rows of a page are mails of the organisation. *)
LEMMA SliceType ==
  ASSUME NEW u \in Users, NEW c \in Criteria, NEW p
  PROVE  /\ Slice(u, c, p) \subseteq Mails /\ Found(u, c) \in Nat
         /\ \A m \in Slice(u, c, p) : MailOrg[m] = OrgOf[u]
BY SearchAssumption DEF Slice, Found

LEMMA AskedType ==
  ASSUME addCall \in AddCalls, addCall # Idle
  PROVE  addCall.case \in Cases /\ addCall.ids \subseteq Mails /\ Asked \subseteq Cases \X Mails
BY DEF AddCalls, Asked

-----------------------------------------------------------------------------
(* What every move has in common. *)
LEMMA MovesMove ==
  ASSUME TypeOK, Moves
  PROVE  /\ Moved /\ SessionTypeOK' /\ RequestsLeft
         /\ late' \subseteq late \cup {user}
         /\ late' # late => late' = {} \/ SearchOwes \/ ViewOwes
         /\ \/ UNCHANGED <<userId, strange, later>>
            \/ \E u \in Users : NameAtLogin(u)
<1> USE DEF Moved, SessionTypeOK, Leave, NameAtLogout, NameKept
<1>0. TypeOK /\ NoMail \notin Mails /\ "/login" \in Routes
  BY SessionAssumption, MessageAssumption
<1>1. ASSUME NEW u \in Users, SignIn(u) PROVE user' = u /\ at' \in {"/audit", "/admin"}
  BY <1>1 DEF SignIn, HandleLogin, Landing
<1>2. CASE \E u \in Users : SignIn(u)
  BY <1>0, <1>1, <1>2, SessionAssumption DEF SignIn, HandleLogin, TypeOK
<1>3. CASE SignOut
  BY <1>0, <1>3 DEF SignOut, Logout, TypeOK
<1>4. CASE \E r \in Routes : Browse(r)
  <2>1. "/message-view" \notin Links
    BY DEF Links, SidebarLinks
  <2> QED BY <1>0, <1>4, <2>1 DEF Browse, Follow, TypeOK
<1>5. CASE \E m \in Mails : OpenMail(m)
  BY <1>0, <1>5 DEF OpenMail, Follow, TypeOK
<1>6. CASE \E r \in Routes, m \in Mails \cup {NoMail} : Load(r, m)
  BY <1>0, <1>6 DEF Load, FullLoad, TypeOK
<1> QED BY <1>2, <1>3, <1>4, <1>5, <1>6 DEF Moves

LEMMA LoginType ==
  ASSUME NameTypeOK, SessionTypeOK, NEW u \in Users, NameAtLogin(u)
  PROVE  userId' \in Users \cup {NoUser} /\ later' \subseteq Users \X Users /\ strange' = strange
BY DEF NameTypeOK, SessionTypeOK, NameAtLogin

LEMMA MovesType ==
  ASSUME TypeOK, BusyInv, Moves
  PROVE  TypeOK' /\ BusyInv'
<1>1. PICK m \in Mails \cup {NoMail}, l \in BOOLEAN : Arrive(user', m, l)
  BY MovesMove DEF Moved
<1>2. SessionTypeOK' /\ user' \in Users \cup {NoUser}
  BY MovesMove DEF SessionTypeOK
<1>3. (SearchBools /\ SearchSets /\ ViewBools /\ ViewSets)'
  BY <1>1, <1>2, ArriveType
<1>4. NameTypeOK'
  <2>1. late' \subseteq Users
    BY MovesMove, TypeParts DEF NameTypeOK, SearchOwes, ViewOwes, BusyInv, Busy
  <2>2. userId' \in Users \cup {NoUser} /\ later' \subseteq Users \X Users /\ strange' = strange
    BY MovesMove, LoginType, TypeParts DEF NameTypeOK
  <2> QED BY <2>1, <2>2, TypeParts DEF NameTypeOK
<1>5. CallSets' /\ holdCall' = Idle /\ addCall' = Idle
  <2>1. RequestsLeft
    BY MovesMove
  <2>2. holdCall # Idle => user \in Users
    BY DEF BusyInv, Busy
  <2>3. CallSets
    BY TypeParts
  <2>4. autoHolds' \subseteq Orgs
    BY <2>1, <2>2, <2>3, SessionAssumption DEF RequestsLeft, CallSets, Idle
  <2>5. held' \subseteq Mails
    BY <2>1, <2>3 DEF RequestsLeft, CallSets, HoldCalls, Idle
  <2>6. items' \subseteq Cases \X Mails
    BY <2>1, <2>3, AskedType DEF RequestsLeft, CallSets
  <2> QED BY <2>1, <2>4, <2>5, <2>6 DEF RequestsLeft, CallSets, HoldCalls, AddCalls
<1>6. BusyInv'
  BY <1>1, <1>2, <1>5, SearchAssumption
     DEF BusyInv, Busy, Arrive, MountSearch, NoSearchPage, MountView, NoView, BlankView
<1> QED BY <1>2, <1>3, <1>4, <1>5, <1>6, TypePartsPrime

-----------------------------------------------------------------------------
SearchStep == SearchUser \/ SearchCore

(* A step of the search page leaves the session alone, and writes an entry *)
(* only for the user who is signed in.                                     *)
LEMMA SearchFrame ==
  ASSUME BusyInv, SearchAssumption, SearchStep
  PROVE  /\ UNCHANGED <<sessionVars, userId, late, later>>
         /\ strange' = strange \/ (user \in Users \cup {NoUser} => user \in Users /\ LogAudit(user))
<1> USE DEF tabVars, nameVars, sessionVars
<1>1. CASE SearchUser
  BY <1>1 DEF SearchUser, Typing, HandleSearch, TurnPage, ToggleSelect, ToggleSelectAll,
     HandleExport, SignedIn, ChooseCase, HandleApplyHold, HandleAddToCase
<1>2. ASSUME NEW s \in searches, SearchSettles(s)
      PROVE  /\ UNCHANGED <<sessionVars, userId, late, later>>
             /\ strange' = strange \/ (user \in Users /\ LogAudit(user))
  BY <1>2 DEF SearchSettles, SearchReply, SearchFails, BusyInv, Busy
<1>3. CASE HoldsArrive \/ CasesArrive \/ AddSettles
  BY <1>3 DEF HoldsArrive, CasesArrive, AddSettles, AddedToCase, AddFails, BusyInv, Busy
<1>4. CASE HoldSettles
  BY <1>4 DEF HoldSettles, HoldCreated, HoldApplied, HoldFails, BusyInv, Busy, Idle
<1> QED BY <1>1, <1>2, <1>3, <1>4 DEF SearchStep, SearchCore

LEMMA SearchBoolsStep ==
  ASSUME SearchBools, SearchStep
  PROVE  SearchBools'
<1> USE DEF SearchBools, searchVars, listVars, holdVars, addVars
<1>1. CASE SearchUser
  <2>1. ASSUME NEW c, NEW p, Fetch(c, p) PROVE loading' \in BOOLEAN
    BY <2>1, Zenon DEF Fetch
  <2> QED
    BY <1>1, <2>1, Zenon DEF SearchUser, Typing, HandleSearch, TurnPage, ToggleSelect,
       ToggleSelectAll, HandleExport, ChooseCase, HandleApplyHold, HandleAddToCase
<1>2. ASSUME NEW s \in searches, SearchSettles(s) PROVE SearchBools'
  BY <1>2, Zenon DEF SearchSettles, SearchReply, SearchFails
<1>3. CASE HoldsArrive
  <2>1. (OrgOf[user] \in autoHolds \cup OldHolds) \in BOOLEAN
    BY SMT
  <2> QED BY <1>3, <2>1, Zenon DEF HoldsArrive
<1>4. CASE CasesArrive \/ AddSettles
  BY <1>4, Zenon DEF CasesArrive, AddSettles, AddedToCase, AddFails
<1>5. CASE HoldSettles
  BY <1>5, Zenon DEF HoldSettles, HoldCreated, HoldApplied, HoldFails
<1> QED BY <1>1, <1>2, <1>3, <1>4, <1>5, Zenon DEF SearchStep, SearchCore

(* fetchMessages adds a search. *)
LEMMA FetchType ==
  ASSUME SearchSets, NEW c \in Criteria, NEW p \in Nat \ {0}, Fetch(c, p)
  PROVE  searches' \subseteq Searches /\ asked' \in Query \cup {Unclear}
<1>1. CASE user = NoUser
  BY <1>1 DEF Fetch, SearchSets
<1>2. CASE user # NoUser
  <2>1. PICK n \in FreeSlots : searches' = searches \cup {[n |-> n, crit |-> c, page |-> p]}
    BY <1>2 DEF Fetch
  <2>2. [n |-> n, crit |-> c, page |-> p] \in Searches
    BY <2>1 DEF FreeSlots, Searches
  <2> QED BY <1>2, <2>1, <2>2 DEF Fetch, SearchSets, Query
<1> QED BY <1>1, <1>2

LEMMA SearchSetsStep ==
  ASSUME TypeOK, BusyInv, SearchStep
  PROVE  SearchSets'
<1> USE TypeParts DEF searchVars, listVars, holdVars, addVars
<1>0. SearchSets /\ 1 \in Nat \ {0} /\ crit \in Criteria /\ page \in Nat \ {0}
  BY DEF SearchSets
<1>1. ASSUME NEW c \in Criteria, Typing(c) PROVE SearchSets'
  BY <1>0, <1>1 DEF Typing, SearchSets
<1>2. CASE HandleSearch
  <2>1. CASE page = 1 \/ user = NoUser
    <3>1. Fetch(crit, page)
      BY <1>2, <2>1 DEF HandleSearch
    <3> QED BY <1>0, <1>2, <3>1, FetchType DEF HandleSearch, SearchSets
  <2>2. CASE ~(page = 1 \/ user = NoUser)
    <3>1. PICK n, k \in FreeSlots :
            searches' = searches \cup {[n |-> n, crit |-> crit, page |-> page],
                                       [n |-> k, crit |-> crit, page |-> 1]}
      BY <1>2, <2>2 DEF HandleSearch
    <3>2. /\ [n |-> n, crit |-> crit, page |-> page] \in Searches
          /\ [n |-> k, crit |-> crit, page |-> 1] \in Searches
      BY <1>0 DEF FreeSlots, Searches
    <3> QED BY <1>0, <1>2, <2>2, <3>1, <3>2 DEF HandleSearch, SearchSets
  <2> QED BY <2>1, <2>2
<1>3. CASE TurnPage
  <2>1. page' \in Nat \ {0} /\ Fetch(crit, page')
    BY <1>0, <1>3 DEF TurnPage
  <2> QED BY <1>0, <1>3, <2>1, FetchType DEF TurnPage, SearchSets
<1>4. ASSUME NEW m \in Mails, ToggleSelect(m) PROVE SearchSets'
  BY <1>0, <1>4 DEF ToggleSelect, SearchSets
<1>5. CASE ToggleSelectAll
  BY <1>0, <1>5 DEF ToggleSelectAll, SearchSets
<1>6. ASSUME NEW c \in Cases, ChooseCase(c) PROVE SearchSets'
  BY <1>0, <1>6 DEF ChooseCase, SearchSets
<1>7. CASE HandleExport \/ HandleApplyHold \/ HandleAddToCase
  BY <1>0, <1>7 DEF HandleExport, HandleApplyHold, HandleAddToCase, SearchSets
<1>8. ASSUME NEW s \in searches, SearchSettles(s) PROVE SearchSets'
  <2>1. s.crit \in Criteria /\ user \in Users
    BY <1>0, <1>8 DEF SearchSets, Searches, BusyInv, Busy
  <2>2. Slice(user, s.crit, s.page) \subseteq Mails /\ Found(user, s.crit) \in Nat
    BY <2>1, SliceType
  <2>3. CASE SearchReply(s)
    BY <1>0, <2>2, <2>3 DEF SearchReply, SearchSets
  <2>4. CASE SearchFails(s)
    <3>1. results' \subseteq Mails /\ total' \in Nat
      BY <1>0, <2>4 DEF SearchFails, SearchSets
    <3>2. searches' \subseteq Searches /\ asked' \in Query \cup {Unclear}
      BY <1>0, <2>4 DEF SearchFails, SearchSets
    <3> QED BY <1>0, <2>4, <3>1, <3>2 DEF SearchFails, SearchSets
  <2> QED BY <1>8, <2>3, <2>4 DEF SearchSettles
<1>9. CASE HoldsArrive \/ CasesArrive
  BY <1>0, <1>9 DEF HoldsArrive, CasesArrive, SearchSets
<1>10. CASE HoldSettles
  BY <1>0, <1>10 DEF HoldSettles, HoldCreated, HoldApplied, HoldFails, SearchSets
<1>11. CASE AddSettles
  BY <1>0, <1>11 DEF AddSettles, AddedToCase, AddFails, SearchSets
<1> QED
  BY <1>1, <1>2, <1>3, <1>4, <1>5, <1>6, <1>7, <1>8, <1>9, <1>10, <1>11
     DEF SearchStep, SearchUser, SearchCore

LEMMA CallSetsStep ==
  ASSUME TypeOK, BusyInv, SearchStep
  PROVE  CallSets'
<1> USE TypeParts
<1>0. CallSets /\ selected \subseteq Mails /\ caseId \in Cases \cup {NoCase}
  BY DEF SearchSets
<1>1. CASE \/ \E c \in Criteria : Typing(c)
           \/ \E m \in Mails : ToggleSelect(m)
           \/ \E c \in Cases : ChooseCase(c)
           \/ ToggleSelectAll \/ HandleExport \/ HoldsArrive \/ CasesArrive
           \/ HandleSearch \/ TurnPage
           \/ \E s \in searches : SearchSettles(s)
  BY <1>0, <1>1
     DEF Typing, ToggleSelect, ChooseCase, ToggleSelectAll, HandleExport, HoldsArrive,
         CasesArrive, HandleSearch, TurnPage, SearchSettles, SearchReply, SearchFails,
         CallSets, holdVars, addVars
<1>2. CASE HandleApplyHold
  <2>1. OrgOf[user] \in Orgs
    BY <1>2, SearchAssumption, SessionAssumption DEF HandleApplyHold
  <2>2. holdCall' \in HoldCalls
    BY <1>0, <1>2, <2>1 DEF HandleApplyHold, HoldCalls
  <2> QED BY <1>0, <1>2, <2>2 DEF HandleApplyHold, CallSets, addVars
<1>3. CASE HandleAddToCase
  BY <1>0, <1>3 DEF HandleAddToCase, CallSets, AddCalls, holdVars
<1>4. CASE HoldSettles
  <2>1. holdCall # Idle
    BY <1>4 DEF HoldSettles, HoldCreated, HoldApplied, HoldFails, Idle
  <2>2. OrgOf[user] \in Orgs
    BY <2>1, SessionAssumption DEF BusyInv, Busy
  <2>3. /\ holdCall \in [step : {"create", "apply"}, hold : {NoId} \cup {PublicId[o] : o \in Orgs},
                         ids : SUBSET Mails]
    BY <1>0, <2>1 DEF CallSets, HoldCalls
  <2>4. CASE HoldCreated
    BY <1>0, <2>2, <2>3, <2>4 DEF HoldCreated, CallSets, HoldCalls, addVars
  <2>5. CASE HoldApplied
    BY <1>0, <2>3, <2>5 DEF HoldApplied, CallSets, HoldCalls, addVars
  <2>6. CASE HoldFails
    BY <1>0, <2>2, <2>3, <2>6 DEF HoldFails, CallSets, HoldCalls, addVars
  <2> QED BY <1>4, <2>4, <2>5, <2>6 DEF HoldSettles
<1>5. CASE AddSettles
  <2>1. addCall # Idle /\ items' \subseteq items \cup Asked /\ addCall' = Idle
    BY <1>5 DEF AddSettles, AddedToCase, AddFails
  <2>2. Asked \subseteq Cases \X Mails
    BY <1>0, <2>1, AskedType DEF CallSets
  <2> QED
    BY <1>0, <1>5, <2>1, <2>2
       DEF AddSettles, AddedToCase, AddFails, CallSets, AddCalls, holdVars
<1> QED
  BY <1>1, <1>2, <1>3, <1>4, <1>5 DEF SearchStep, SearchUser, SearchCore

LEMMA SearchBusy ==
  ASSUME TypeOK, BusyInv, SearchStep, UNCHANGED viewVars
  PROVE  BusyInv'
<1> USE DEF viewVars, partVars
<1>1. user' = user /\ user \in Users \cup {NoUser}
  BY SearchFrame, SearchAssumption DEF sessionVars, TypeOK, SessionTypeOK
<1>2. CASE user \in Users
  BY <1>1, <1>2 DEF BusyInv
<1>3. CASE user = NoUser
  <2>1. ~ Busy
    BY <1>3, SessionAssumption DEF BusyInv
  <2>2. CASE HoldsArrive \/ CasesArrive
    BY <1>1, <2>1, <2>2
       DEF HoldsArrive, CasesArrive, BusyInv, Busy, holdVars, addVars
  <2>3. CASE SearchUser
    <3>1. user \notin Workers
      BY <1>3, SearchAssumption, SessionAssumption
    <3> QED
      BY <1>3, <2>1, <2>3, <3>1
         DEF SearchUser, Typing, HandleSearch, TurnPage, Fetch, ToggleSelect, ToggleSelectAll,
             HandleExport, SignedIn, ChooseCase, HandleApplyHold, HandleAddToCase, BusyInv,
             Busy, searchVars, holdVars, addVars
  <2>4. ~ HoldSettles /\ ~ AddSettles /\ ~ \E s \in searches : SearchSettles(s)
    BY <2>1
       DEF Busy, HoldSettles, AddSettles, HoldCreated, HoldApplied, HoldFails, AddedToCase,
           AddFails, Idle
  <2> QED BY <2>2, <2>3, <2>4 DEF SearchStep, SearchCore
<1> QED BY <1>1, <1>2, <1>3

-----------------------------------------------------------------------------
MessageStep == MessageUser \/ MessageCore

LEMMA MessageFrame ==
  ASSUME BusyInv, MessageStep
  PROVE  /\ UNCHANGED <<sessionVars, userId, late, later>>
         /\ strange' = strange \/ (user \in Users /\ LogAudit(user))
<1> USE DEF tabVars, nameVars, sessionVars
<1>1. CASE MessageUser
  BY <1>1 DEF MessageUser, OpenInThread
<1>2. ASSUME NEW m \in Mails, PartArrives(m)
      PROVE  /\ UNCHANGED <<sessionVars, userId, late, later>>
             /\ strange' = strange \/ (user \in Users /\ LogAudit(user))
  BY <1>2 DEF PartArrives, MessageArrives, ThreadArrives, RedactionArrives, VerdictArrives,
              BusyInv, Busy
<1> QED BY <1>1, <1>2 DEF MessageStep, MessageCore

LEMMA MessageType ==
  ASSUME TypeOK, BusyInv, MessageStep, UNCHANGED searchPageVars
  PROVE  (ViewBools /\ ViewSets)' /\ BusyInv'
<1> USE TypeParts
<1>1. ViewBools'
  <2>1. ASSUME NEW m \in Mails, OpenInThread(m) PROVE ViewBools'
    <3>1. (loads # {}) \in BOOLEAN
      BY SMT
    <3> QED BY <2>1, <3>1, Zenon DEF OpenInThread, ViewBools, partVars
  <2>2. ASSUME NEW m \in Mails, PartArrives(m) PROVE ViewBools'
    BY <2>2, Zenon DEF PartArrives, MessageArrives, ThreadArrives, RedactionArrives,
       VerdictArrives, ViewBools
  <2> QED BY <2>1, <2>2, Zenon DEF MessageStep, MessageUser, MessageCore
<1>2. ASSUME NEW m \in Mails, OpenInThread(m) PROVE ViewSets' /\ BusyInv'
  <2>1. user \in Users
    BY <1>2 DEF OpenInThread, Rendered, BusyInv, Busy
  <2> QED
    BY <1>2, <2>1
       DEF OpenInThread, ViewSets, Parts, partVars, BusyInv, tabVars, sessionVars
<1>3. ASSUME NEW m \in Mails, PartArrives(m) PROVE ViewSets' /\ BusyInv'
  <2>1. user \in Users /\ user' = user
    BY <1>3, MessageFrame
       DEF PartArrives, MessageArrives, ThreadArrives, RedactionArrives, VerdictArrives,
           BusyInv, Busy, MessageStep, MessageCore, sessionVars
  <2>2. ThreadOf[user][m] \subseteq Mails /\ StatusOf[user][m] \in Statuses
    BY <2>1, MessageAssumption
  <2>3. ViewSets'
    BY <1>3, <2>2, NoneTyped
       DEF PartArrives, MessageArrives, ThreadArrives, RedactionArrives, VerdictArrives,
           ViewSets
  <2> QED BY <2>1, <2>3 DEF BusyInv
<1> QED BY <1>1, <1>2, <1>3 DEF MessageStep, MessageUser, MessageCore

-----------------------------------------------------------------------------
(* Another tab, and a reply for a page that is gone, touch the names only. *)
Elsewhere == OtherTab \/ LateEnds

LEMMA ElsewhereFrame ==
  ASSUME Elsewhere
  PROVE  UNCHANGED <<at, user, searchPageVars, viewVars>>
BY DEF Elsewhere, OtherTab, OtherTabLogin, OtherTabLogout, LateEnds, LateEntry, sessionVars

LEMMA ElsewhereType ==
  ASSUME TypeOK, BusyInv, Elsewhere
  PROVE  TypeOK' /\ BusyInv'
<1> USE TypeParts
<1>1. UNCHANGED <<at, user, searchPageVars, viewVars>>
  BY ElsewhereFrame
<1>2. (SearchBools /\ ViewBools)'
  BY <1>1, TypeParts, Zenon
     DEF SearchBools, ViewBools, searchPageVars, searchVars, listVars, holdVars, addVars,
         viewVars, partVars
<1>3. (SearchSets /\ CallSets /\ ViewSets)' /\ BusyInv'
  BY <1>1
     DEF SearchSets, CallSets, ViewSets, BusyInv, Busy, searchPageVars, searchVars, listVars,
         holdVars, addVars, viewVars, partVars
<1>4. CASE OtherTab
  <2>1. oaUser' \in Users \cup {NoUser} /\ late' = late
    BY <1>4 DEF OtherTab, OtherTabLogin, OtherTabLogout
  <2>2. userId' \in Users \cup {NoUser} /\ later' \subseteq Users \X Users /\ strange' = strange
    BY <1>4, LoginType DEF OtherTab, NameAtLogout, NameTypeOK
  <2> QED BY <1>1, <1>2, <1>3, <2>1, <2>2, TypePartsPrime DEF SessionTypeOK, NameTypeOK
<1>5. CASE LateEnds
  <2>1. PICK u \in Users : LateEntry(u)
    BY <1>5 DEF LateEnds, NameTypeOK
  <2>2. SessionTypeOK' /\ NameTypeOK'
    BY <2>1 DEF LateEntry, LogAudit, SessionTypeOK, NameTypeOK, sessionVars
  <2> QED BY <1>2, <1>3, <2>2, TypePartsPrime
<1> QED BY <1>4, <1>5 DEF Elsewhere

LEMMA LogType ==
  ASSUME NameTypeOK, NEW u \in Users, LogAudit(u)
  PROVE  strange' \subseteq Users \X (Users \cup {NoUser})
BY DEF NameTypeOK, LogAudit

LEMMA TypeStep == TypeOK /\ BusyInv /\ [Next]_vars => TypeOK' /\ BusyInv'
<1> SUFFICES ASSUME TypeOK, BusyInv, [Next]_vars PROVE TypeOK' /\ BusyInv'
  OBVIOUS
<1> USE TypeParts
<1>1. CASE Moves
  BY <1>1, MovesType
<1>2. CASE Elsewhere
  BY <1>2, ElsewhereType
<1>3. CASE OnSearch
  <2>1. SearchStep /\ UNCHANGED viewVars
    BY <1>3 DEF OnSearch, SearchStep
  <2>2. SearchSets' /\ CallSets' /\ BusyInv'
    BY <2>1, SearchSetsStep, CallSetsStep, SearchBusy
  <2>3. SearchBools' /\ ViewBools'
    BY <2>1, SearchBoolsStep, Zenon DEF viewVars, partVars, ViewBools
  <2>4. ViewSets'
    BY <2>1 DEF viewVars, partVars, ViewSets
  <2>5. SessionTypeOK' /\ NameTypeOK'
    BY <2>1, SearchFrame, SearchAssumption, LogType DEF SessionTypeOK, NameTypeOK, sessionVars
  <2> QED BY <2>2, <2>3, <2>4, <2>5, TypePartsPrime
<1>4. CASE OnMessage
  <2>1. MessageStep /\ UNCHANGED searchPageVars
    BY <1>4 DEF OnMessage, MessageStep
  <2>2. (ViewBools /\ ViewSets)' /\ BusyInv'
    BY <2>1, MessageType
  <2>3. SearchBools'
    BY <2>1, Zenon DEF searchPageVars, searchVars, listVars, holdVars, addVars, SearchBools
  <2>4. SearchSets' /\ CallSets'
    BY <2>1
       DEF searchPageVars, searchVars, listVars, holdVars, addVars, SearchSets, CallSets
  <2>5. SessionTypeOK' /\ NameTypeOK'
    BY <2>1, MessageFrame, LogType DEF SessionTypeOK, NameTypeOK, sessionVars
  <2> QED BY <2>2, <2>3, <2>4, <2>5, TypePartsPrime
<1>5. CASE UNCHANGED vars
  <2>1. (SearchBools /\ ViewBools)'
    BY <1>5, Zenon
       DEF vars, SearchBools, ViewBools, searchPageVars, searchVars, listVars, holdVars,
           addVars, viewVars, partVars
  <2>2. (SearchSets /\ CallSets /\ ViewSets)' /\ BusyInv'
    BY <1>5
       DEF vars, SearchSets, CallSets, ViewSets, BusyInv, Busy, searchPageVars, searchVars,
           listVars, holdVars, addVars, viewVars, partVars, tabVars, sessionVars
  <2>3. SessionTypeOK' /\ NameTypeOK'
    BY <1>5 DEF vars, tabVars, sessionVars, nameVars, SessionTypeOK, NameTypeOK
  <2> QED BY <2>1, <2>2, <2>3, TypePartsPrime
<1> QED BY <1>1, <1>2, <1>3, <1>4, <1>5 DEF Next, Moves, Elsewhere

(* Every variable of the tab keeps its type, and no request is ever under  *)
(* way, nor a mail shown, for nobody.                                      *)
THEOREM TypeCorrect == Spec => [](TypeOK /\ BusyInv)
<1>1. Init => TypeOK /\ BusyInv
  BY TypeInit DEF Init, SearchInit, MessageInit, BusyInv, Busy
<1> QED BY <1>1, TypeStep, PTL DEF Spec

-----------------------------------------------------------------------------
(* Everyone who is signed in here or in the other tab, or has an entry     *)
(* still to be written, is named rightly.                                  *)
NamesInv ==
  /\ strange = {}
  /\ \A w \in (late \cup {user, oaUser}) \cap Users : NamedRightly(w)

(* A login keeps names right: whoever was named so far is known to have    *)
(* signed in before.                                                       *)
LEMMA LoginNames ==
  ASSUME TypeOK, NEW u \in Users, NameAtLogin(u)
  PROVE  /\ NamedRightly(u)' /\ strange' = strange
         /\ \A w \in Users : NamedRightly(w) => NamedRightly(w)'
<1>1. NamedRightly(u)' /\ strange' = strange
  BY DEF NameAtLogin, NamedRightly
<1>2. ASSUME NEW w \in Users, NamedRightly(w), w # u PROVE <<w, u>> \in later'
  <2>1. userId \in Users /\ (userId = w \/ <<w, userId>> \in later)
    BY <1>2 DEF NamedRightly
  <2>2. \/ w \in {user, oaUser, userId} \cap Users
        \/ w \in {p[1] : p \in later}
    BY <2>1
  <2> QED BY <1>2, <2>2 DEF NameAtLogin
<1>3. ASSUME NEW w \in Users, NamedRightly(w) PROVE NamedRightly(w)'
  BY <1>1, <1>2, <1>3 DEF NameAtLogin, NamedRightly
<1> QED BY <1>1, <1>3

(* Who is signed in after a move. *)
LEMMA MovesWho ==
  ASSUME Moves
  PROVE  \/ /\ UNCHANGED <<userId, strange, later>>
            /\ user' \in {user, oaUser, NoUser} /\ oaUser' \in {oaUser, NoUser}
         \/ \E u \in Users : NameAtLogin(u) /\ user' = u /\ oaUser' = u
<1>1. ASSUME NEW u \in Users, SignIn(u) PROVE NameAtLogin(u) /\ user' = u /\ oaUser' = u
  BY <1>1 DEF SignIn, HandleLogin
<1>2. CASE SignOut
  BY <1>2 DEF SignOut, Logout, NameAtLogout
<1>3. CASE (\E r \in Routes : Browse(r)) \/ (\E m \in Mails : OpenMail(m))
  BY <1>3 DEF Browse, OpenMail, Follow, NameKept
<1>4. CASE \E r \in Routes, m \in Mails \cup {NoMail} : Load(r, m)
  BY <1>4 DEF Load, FullLoad, NameKept
<1> QED BY <1>1, <1>2, <1>3, <1>4 DEF Moves

LEMMA NamesStep ==
  TypeOK /\ BusyInv /\ NamesInv /\ [Next]_vars => NamesInv'
<1> SUFFICES ASSUME TypeOK, BusyInv, NamesInv, [Next]_vars PROVE NamesInv'
  OBVIOUS
<1>0. NoUser \notin Users /\ user \in Users \cup {NoUser}
  BY SessionAssumption DEF TypeOK, SessionTypeOK
<1>1. CASE Moves
  <2>1. late' \subseteq late \cup {user}
    BY <1>1, MovesMove
  <2>2. CASE /\ UNCHANGED <<userId, strange, later>>
             /\ user' \in {user, oaUser, NoUser} /\ oaUser' \in {oaUser, NoUser}
    BY <1>0, <2>1, <2>2 DEF NamesInv, NamedRightly
  <2>3. ASSUME NEW u \in Users, NameAtLogin(u), user' = u, oaUser' = u PROVE NamesInv'
    BY <2>1, <2>3, LoginNames DEF NamesInv
  <2> QED BY <1>1, <2>2, <2>3, MovesWho
<1>2. CASE OtherTab
  <2>1. UNCHANGED <<user, late>>
    BY <1>2 DEF OtherTab, OtherTabLogin, OtherTabLogout
  <2>2. ASSUME NEW u \in Users, OtherTabLogin(u), NameAtLogin(u) PROVE NamesInv'
    BY <2>1, <2>2, LoginNames DEF OtherTabLogin, NamesInv
  <2>3. CASE OtherTabLogout /\ NameAtLogout
    BY <1>0, <2>1, <2>3 DEF OtherTabLogout, NameAtLogout, NamesInv, NamedRightly
  <2> QED BY <1>2, <2>2, <2>3 DEF OtherTab
<1>3. CASE LateEnds
  <2>1. PICK u \in late : LateEntry(u)
    BY <1>3 DEF LateEnds
  <2>2. u \in Users
    BY DEF TypeOK, NameTypeOK
  <2> QED BY <2>1, <2>2 DEF LateEntry, LogAudit, NamesInv, NamedRightly, sessionVars
<1>4. ASSUME UNCHANGED <<sessionVars, userId, late, later>>,
             strange' = strange \/ (user \in Users /\ LogAudit(user))
      PROVE  NamesInv'
  BY <1>4 DEF LogAudit, NamesInv, NamedRightly, sessionVars
<1>5. CASE OnSearch
  BY <1>0, <1>4, <1>5, SearchFrame, SearchAssumption DEF OnSearch, SearchStep
<1>6. CASE OnMessage
  BY <1>4, <1>6, MessageFrame DEF OnMessage, MessageStep
<1>7. CASE UNCHANGED vars
  BY <1>4, <1>7 DEF vars, tabVars, nameVars
<1> QED BY <1>1, <1>2, <1>3, <1>5, <1>6, <1>7 DEF Next, Moves

(* No audit entry names a user who did not act and did not sign in later,  *)
(* nor nobody: for any users, tabs and replies after the page is gone      *)
(* (logAudit of audit/page.tsx 102-119, UserContext.tsx 45-49).            *)
THEOREM EntriesAreNamed == Spec => []EntriesNameAUser
<1>1. Init => NamesInv
  BY SessionAssumption DEF Init, SessionInit, NameInit, NamesInv
<1>2. NamesInv => EntriesNameAUser
  BY DEF NamesInv, EntriesNameAUser
<1> QED BY <1>1, <1>2, NamesStep, TypeCorrect, PTL DEF Spec

-----------------------------------------------------------------------------
(* The steps by what they do to the page of searches: it is mounted anew,  *)
(* takes a step of its own, or is left alone.                              *)
PageMoved ==
  \E l \in BOOLEAN : IF at' = "/audit" THEN MountSearch(user', l) ELSE NoSearchPage

LEMMA PageSteps ==
  ASSUME TypeOK, BusyInv, [Next]_vars
  PROVE  \/ PageMoved /\ RequestsLeft
         \/ SearchStep /\ user' = user
         \/ UNCHANGED <<user, searchPageVars>>
<1>1. CASE Moves
  BY <1>1, MovesMove DEF Moved, Arrive, PageMoved
<1>2. CASE Elsewhere
  BY <1>2, ElsewhereFrame
<1>3. CASE OnSearch
  BY <1>3, SearchFrame, SearchAssumption DEF OnSearch, SearchStep, sessionVars
<1>4. CASE OnMessage
  BY <1>4, MessageFrame DEF OnMessage, MessageStep, sessionVars
<1>5. CASE UNCHANGED vars
  BY <1>5 DEF vars, tabVars, sessionVars
<1> QED BY <1>1, <1>2, <1>3, <1>4, <1>5 DEF Next, Moves, Elsewhere

(* What the page offers belongs to the organisation of its user, and so    *)
(* does what has been asked for.                                           *)
PageIsOwn ==
  user \in Users =>
    /\ \A m \in results \cup selected : MailOrg[m] = OrgOf[user]
    /\ \A c \in cases \cup {caseId} : c # NoCase => CaseOrg[c] = OrgOf[user]

CallIsOwn ==
  addCall # Idle =>
    /\ CaseOrg[addCall.case] = OrgOf[user]
    /\ \A m \in addCall.ids : MailOrg[m] = OrgOf[user]

OwnInv == PageIsOwn /\ CallIsOwn /\ EvidenceIsOwn

LEMMA AskedIsOwn ==
  ASSUME TypeOK, OwnInv, addCall # Idle, items' \in {items, items \cup Asked}
  PROVE  EvidenceIsOwn'
<1>1. \A p \in Asked : CaseOrg[p[1]] = MailOrg[p[2]]
  BY DEF Asked, OwnInv, CallIsOwn
<1> QED BY <1>1 DEF OwnInv, EvidenceIsOwn

LEMMA OwnPageStep ==
  ASSUME TypeOK, BusyInv, OwnInv, SearchStep, user' = user
  PROVE  PageIsOwn'
<1> SUFFICES ASSUME user \in Users PROVE PageIsOwn'
  BY DEF PageIsOwn
<1> USE DEF PageIsOwn, searchVars, listVars, holdVars, addVars
<1>0. PageIsOwn /\ NoCase \notin Cases
  BY SearchAssumption DEF OwnInv
<1>1. CASE SearchUser
  BY <1>0, <1>1
     DEF SearchUser, Typing, HandleSearch, TurnPage, ToggleSelect, ToggleSelectAll,
         HandleExport, ChooseCase, HandleApplyHold, HandleAddToCase
<1>2. ASSUME NEW s \in searches, SearchSettles(s) PROVE PageIsOwn'
  <2>1. s.crit \in Criteria
    BY DEF TypeOK, SearchTypeOK, Searches
  <2>2. \A m \in Slice(user, s.crit, s.page) : MailOrg[m] = OrgOf[user]
    BY <2>1, SliceType
  <2> QED BY <1>0, <1>2, <2>2 DEF SearchSettles, SearchReply, SearchFails
<1>3. CASE HoldsArrive
  BY <1>0, <1>3 DEF HoldsArrive
<1>4. CASE CasesArrive
  BY <1>0, <1>4 DEF CasesArrive
<1>5. CASE HoldSettles
  BY <1>0, <1>5 DEF HoldSettles, HoldCreated, HoldApplied, HoldFails
<1>6. CASE AddSettles
  BY <1>0, <1>6 DEF AddSettles, AddedToCase, AddFails
<1> QED BY <1>1, <1>2, <1>3, <1>4, <1>5, <1>6 DEF SearchStep, SearchCore

LEMMA OwnCallStep ==
  ASSUME TypeOK, BusyInv, OwnInv, SearchStep, user' = user
  PROVE  CallIsOwn' /\ EvidenceIsOwn'
<1> USE DEF searchVars, listVars, holdVars, addVars, OwnInv
<1>1. CASE HandleAddToCase
  <2>1. user \in Users /\ caseId # NoCase /\ items' = items
    BY <1>1, SearchAssumption DEF HandleAddToCase
  <2> QED BY <1>1, <2>1 DEF HandleAddToCase, PageIsOwn, CallIsOwn, EvidenceIsOwn, Idle
<1>2. CASE AddSettles
  <2>1. addCall # Idle /\ items' \in {items, items \cup Asked} /\ addCall' = Idle
    BY <1>2 DEF AddSettles, AddedToCase, AddFails
  <2> QED BY <2>1, AskedIsOwn DEF CallIsOwn
<1>3. CASE UNCHANGED <<addCall, items>>
  BY <1>3 DEF CallIsOwn, EvidenceIsOwn
<1>4. ASSUME ~ HandleAddToCase, ~ AddSettles PROVE UNCHANGED <<addCall, items>>
  BY <1>4
     DEF SearchStep, SearchUser, SearchCore, Typing, HandleSearch, TurnPage, ToggleSelect,
         ToggleSelectAll, HandleExport, ChooseCase, HandleApplyHold, SearchSettles,
         SearchReply, SearchFails, HoldsArrive, CasesArrive, HoldSettles, HoldCreated,
         HoldApplied, HoldFails
<1> QED BY <1>1, <1>2, <1>3, <1>4

LEMMA OwnStep == TypeOK /\ BusyInv /\ OwnInv /\ [Next]_vars => OwnInv'
<1> SUFFICES ASSUME TypeOK, BusyInv, OwnInv, [Next]_vars PROVE OwnInv'
  OBVIOUS
<1>1. CASE PageMoved /\ RequestsLeft
  <2>1. PageIsOwn'
    BY <1>1 DEF PageMoved, MountSearch, NoSearchPage, BlankPage, PageIsOwn
  <2>2. CallIsOwn'
    BY <1>1 DEF RequestsLeft, CallIsOwn
  <2>3. EvidenceIsOwn'
    BY <1>1, AskedIsOwn DEF RequestsLeft, OwnInv, EvidenceIsOwn
  <2> QED BY <2>1, <2>2, <2>3 DEF OwnInv
<1>2. CASE SearchStep /\ user' = user
  BY <1>2, OwnPageStep, OwnCallStep DEF OwnInv
<1>3. CASE UNCHANGED <<user, searchPageVars>>
  BY <1>3 DEF searchPageVars, searchVars, listVars, addVars, OwnInv, PageIsOwn, CallIsOwn,
              EvidenceIsOwn
<1> QED BY <1>1, <1>2, <1>3, PageSteps

(* No case ever gets mail of another organisation from the search page,    *)
(* although the core does not check it (handleAddToCase, audit/page.tsx    *)
(* 187-208): for any number of users, organisations, mails and cases.      *)
THEOREM EvidenceStaysOwn == Spec => []EvidenceIsOwn
<1>1. Init => OwnInv
  BY SessionAssumption
     DEF Init, SessionInit, SearchInit, OwnInv, PageIsOwn, CallIsOwn, EvidenceIsOwn
<1>2. OwnInv => EvidenceIsOwn
  BY DEF OwnInv
<1> QED BY <1>1, <1>2, OwnStep, TypeCorrect, PTL DEF Spec

-----------------------------------------------------------------------------
(* As long as searches do not meet, at most one is under way, for what was *)
(* asked last, and without one the rows are those of it.                   *)
AskInv ==
  /\ user = NoUser => asked = NoQuery
  /\ \/ asked = Unclear
     \/ asked = NoQuery /\ searches = {} /\ results = {}
     \/ /\ asked.page = page
        /\ \/ \E s \in searches :
                searches = {s} /\ s.crit = asked.crit /\ s.page = asked.page
           \/ /\ searches = {}
              /\ results = Slice(user, asked.crit, page) /\ total = Found(user, asked.crit)

LEMMA FetchAsks ==
  ASSUME TypeOK, BusyInv, AskInv, NEW c \in Criteria, NEW p \in Nat \ {0}, Fetch(c, p),
         page' = p, UNCHANGED <<user, results, total>>
  PROVE  AskInv'
<1>1. CASE user = NoUser
  <2>1. asked = NoQuery /\ searches = {} /\ user \notin Users
    BY <1>1, SessionAssumption DEF AskInv, BusyInv, Busy
  <2>2. results = {}
    <3>1. asked # Unclear
      BY <2>1 DEF NoQuery, Unclear
    <3>2. asked.page # page
      BY <2>1 DEF NoQuery, TypeOK, SearchTypeOK
    <3> QED BY <3>1, <3>2 DEF AskInv
  <2> QED BY <1>1, <2>1, <2>2 DEF Fetch, AskInv
<1>2. CASE user # NoUser /\ searches # {}
  BY <1>2 DEF Fetch, AskInv
<1>3. CASE user # NoUser /\ searches = {}
  <2>1. PICK n \in FreeSlots : searches' = {[n |-> n, crit |-> c, page |-> p]}
    BY <1>3 DEF Fetch
  <2>2. asked' = [crit |-> c, page |-> p]
    BY <1>3 DEF Fetch
  <2> QED BY <1>3, <2>1, <2>2 DEF AskInv
<1> QED BY <1>1, <1>2, <1>3

LEMMA AskStep == TypeOK /\ BusyInv /\ AskInv /\ [Next]_vars => AskInv'
<1> SUFFICES ASSUME TypeOK, BusyInv, AskInv, [Next]_vars PROVE AskInv'
  OBVIOUS
<1>0. crit \in Criteria /\ page \in Nat \ {0}
  BY DEF TypeOK, SearchTypeOK
<1>1. CASE PageMoved
  <2>1. CASE NoSearchPage
    BY <2>1 DEF NoSearchPage, BlankPage, AskInv
  <2>2. ASSUME NEW l \in BOOLEAN, MountSearch(user', l) PROVE AskInv'
    <3> DEFINE fetches == user' \in (IF l THEN DomainUsers ELSE Users)
    <3>1. fetches => user' # NoUser
      BY SessionAssumption, SearchAssumption
    <3>2. page' = 1 /\ results' = {}
      BY <2>2 DEF MountSearch, BlankPage
    <3>3. CASE fetches
      <4>1. asked' = FirstQuery /\ searches' = {[n |-> 1, crit |-> NoCriteria, page |-> 1]}
        BY <2>2, <3>3 DEF MountSearch
      <4> QED BY <3>1, <3>2, <3>3, <4>1 DEF FirstQuery, AskInv
    <3>4. CASE ~fetches
      BY <2>2, <3>2, <3>4 DEF MountSearch, AskInv
    <3> QED BY <3>3, <3>4
  <2> QED BY <1>1, <2>1, <2>2 DEF PageMoved
<1>2. CASE UNCHANGED <<user, searchVars>>
  BY <1>2 DEF AskInv, searchVars
<1>3. ASSUME SearchStep, user' = user PROVE AskInv'
  <2> USE <1>3 DEF searchVars
  <2>1. CASE HandleSearch
    <3>1. CASE page = 1 \/ user = NoUser
      <4>1. CASE page = 1
        BY <1>0, <2>1, <4>1, FetchAsks DEF HandleSearch
      <4>2. CASE user = NoUser
        <5>1. searches' = searches /\ asked' = asked /\ results' = results
          BY <2>1, <4>2 DEF HandleSearch, Fetch
        <5>2. asked = NoQuery /\ asked.page # page /\ asked # Unclear
          BY <1>0, <4>2 DEF AskInv, NoQuery, Unclear
        <5>3. searches = {} /\ results = {}
          BY <5>2 DEF AskInv
        <5> QED BY <5>1, <5>2, <5>3 DEF AskInv
      <4> QED BY <3>1, <4>1, <4>2
    <3>2. CASE ~(page = 1 \/ user = NoUser)
      BY <2>1, <3>2 DEF HandleSearch, AskInv
    <3> QED BY <3>1, <3>2
  <2>2. CASE TurnPage
    <3>1. page' \in Nat \ {0} /\ Fetch(crit, page') /\ UNCHANGED <<results, total>>
      BY <1>0, <2>2 DEF TurnPage
    <3> QED BY <1>0, <3>1, FetchAsks
  <2>3. ASSUME NEW s \in searches, SearchReply(s) PROVE AskInv'
    <3>1. asked' = asked /\ page' = page /\ searches' = searches \ {s}
      BY <2>3 DEF SearchReply
    <3>2. CASE asked = Unclear
      BY <3>1, <3>2 DEF AskInv
    <3>3. CASE asked # Unclear
      <4>1. asked.page = page /\ searches = {s} /\ s.crit = asked.crit /\ s.page = page
        BY <3>3 DEF AskInv
      <4>2. /\ results' = Slice(user, asked.crit, page) /\ total' = Found(user, asked.crit)
        BY <2>3, <4>1 DEF SearchReply
      <4>3. /\ results' = Slice(user', asked'.crit, page')
            /\ total' = Found(user', asked'.crit)
        BY <3>1, <4>2 DEF Slice, Found
      <4> QED BY <3>1, <4>1, <4>3 DEF AskInv
    <3> QED BY <3>2, <3>3
  <2>4. ASSUME NEW s \in searches, SearchFails(s) PROVE AskInv'
    <3>1. user # NoUser
      BY SessionAssumption DEF BusyInv, Busy
    <3> QED BY <2>4, <3>1 DEF SearchFails, AskInv
  <2>5. CASE \/ \E c \in Criteria : Typing(c)
             \/ \E m \in Mails : ToggleSelect(m)
             \/ \E c \in Cases : ChooseCase(c)
             \/ ToggleSelectAll \/ HandleExport \/ HandleApplyHold \/ HandleAddToCase
             \/ HoldsArrive \/ CasesArrive \/ HoldSettles \/ AddSettles
    <3>1. UNCHANGED <<results, total, page, searches, asked>>
      BY <2>5
         DEF Typing, ToggleSelect, ToggleSelectAll, HandleExport, ChooseCase,
             HandleApplyHold, HandleAddToCase, HoldsArrive, CasesArrive, HoldSettles,
             HoldCreated, HoldApplied, HoldFails, AddSettles, AddedToCase, AddFails
    <3> QED BY <3>1 DEF AskInv
  <2> QED
    BY <2>1, <2>2, <2>3, <2>4, <2>5 DEF SearchStep, SearchUser, SearchCore, SearchSettles
<1> QED BY <1>1, <1>2, <1>3, PageSteps DEF searchPageVars

(* A search page at rest shows the rows of what was asked for last, with   *)
(* its total and page, for any users, criteria and number of searches in   *)
(* flight, unless a search met another one or failed (fetchMessages and    *)
(* handleSearch, audit/page.tsx 210-256).                                  *)
THEOREM QuietPageStaysRight == Spec => []QuietPageIsRight
<1>1. Init => AskInv
  BY DEF Init, SessionInit, SearchInit, AskInv
<1>2. TypeOK /\ AskInv => QuietPageIsRight
  BY DEF TypeOK, SearchTypeOK, AskInv, NoQuery, QuietPageIsRight
<1> QED BY <1>1, <1>2, AskStep, TypeCorrect, PTL DEF Spec

-----------------------------------------------------------------------------
(* Without a request that has met one for another mail, all requests are   *)
(* for the mail of the route, and each part that is not under way is of it. *)
AllForId == \A l \in loads : l[2] = id

PartsRight ==
  /\ <<"data", id>> \in loads \/ data = id
  /\ <<"redacted", id>> \in loads \/ redacted = id \/ missed
  /\ <<"thread", id>> \in loads \/ threadOf \in {id, NoMail}
  /\ \/ <<"verdict", id>> \in loads
     \/ verdict \in {<<id, StatusOf[user][id]>>, <<id, "UNAVAILABLE">>}

ViewInv == user \in Users /\ id # NoMail /\ ~tangled => AllForId /\ PartsRight

LEMMA FreshView ==
  ASSUME NEW m \in Mails, loads' = Parts \X {m}, id' = m
  PROVE  ViewInv'
BY DEF ViewInv, AllForId, PartsRight, Parts

LEMMA ViewMoved ==
  ASSUME NEW m \in Mails \cup {NoMail},
         IF at' = "/message-view" THEN MountView(m, user') ELSE NoView
  PROVE  ViewInv'
<1>1. CASE NoView
  BY <1>1 DEF NoView, BlankView, ViewInv
<1>2. CASE MountView(m, user')
  <2>1. id' = m /\ (user' \in Users /\ m # NoMail => loads' = Parts \X {m})
    BY <1>2 DEF MountView, BlankView
  <2>2. CASE m \in Mails /\ user' \in Users
    BY <2>1, <2>2, FreshView, MessageAssumption
  <2>3. CASE ~(m \in Mails /\ user' \in Users)
    BY <2>1, <2>3 DEF ViewInv
  <2> QED BY <2>2, <2>3
<1> QED BY <1>1, <1>2

LEMMA PartStep ==
  ASSUME ViewInv, NEW m \in Mails, PartArrives(m), user' = user
  PROVE  ViewInv'
<1>1. id' = id /\ loads' \subseteq loads
  BY DEF PartArrives, MessageArrives, ThreadArrives, RedactionArrives, VerdictArrives
<1>2. tangled' = tangled
  BY Zenon DEF PartArrives, MessageArrives, ThreadArrives, RedactionArrives, VerdictArrives
<1>3. SUFFICES ASSUME user \in Users, id # NoMail, ~tangled' PROVE AllForId' /\ PartsRight'
  BY <1>1 DEF ViewInv
<1>4. ~tangled
  BY <1>2, <1>3, Zenon
<1>5. AllForId /\ PartsRight
  BY <1>3, <1>4 DEF ViewInv
<1>6. AllForId'
  BY <1>1, <1>5 DEF AllForId
<1>7. CASE MessageArrives(m)
  BY <1>5, <1>7 DEF MessageArrives, AllForId, PartsRight
<1>8. CASE ThreadArrives(m)
  BY <1>5, <1>8 DEF ThreadArrives, AllForId, PartsRight
<1>9. CASE RedactionArrives(m)
  <2>1. redacted' = m \/ missed'
    BY <1>9, Zenon DEF RedactionArrives
  <2> QED BY <1>5, <1>9, <2>1 DEF RedactionArrives, AllForId, PartsRight
<1>10. CASE VerdictArrives(m)
  BY <1>5, <1>10 DEF VerdictArrives, AllForId, PartsRight
<1> QED BY <1>6, <1>7, <1>8, <1>9, <1>10 DEF PartArrives

LEMMA ViewStep == TypeOK /\ BusyInv /\ ViewInv /\ [Next]_vars => ViewInv'
<1> SUFFICES ASSUME TypeOK, BusyInv, ViewInv, [Next]_vars PROVE ViewInv'
  OBVIOUS
<1>1. CASE Moves
  <2>1. PICK m \in Mails \cup {NoMail} :
          IF at' = "/message-view" THEN MountView(m, user') ELSE NoView
    BY <1>1, MovesMove DEF Moved, Arrive
  <2> QED BY <2>1, ViewMoved
<1>2. CASE UNCHANGED <<user, viewVars>>
  BY <1>2 DEF viewVars, partVars, ViewInv, AllForId, PartsRight
<1>3. CASE OnMessage
  <2>1. user' = user
    BY <1>3, MessageFrame DEF OnMessage, MessageStep, sessionVars
  <2>2. ASSUME NEW m \in Mails, PartArrives(m) PROVE ViewInv'
    BY <2>1, <2>2, PartStep
  <2>3. ASSUME NEW m \in Mails, OpenInThread(m) PROVE ViewInv'
    <3>1. id' = m /\ loads' = loads \cup (Parts \X {m})
      BY <2>3 DEF OpenInThread
    <3>2. CASE loads = {}
      <4>1. loads' = Parts \X {m}
        BY <3>1, <3>2
      <4> QED BY <3>1, <4>1, FreshView
    <3>3. CASE loads # {}
      <4>1. tangled'
        BY <2>3, <3>3, Zenon DEF OpenInThread
      <4> QED BY <4>1, Zenon DEF ViewInv
    <3> QED BY <3>2, <3>3
  <2> QED BY <1>3, <2>2, <2>3 DEF OnMessage, MessageUser, MessageCore
<1>4. CASE OnSearch
  BY <1>2, <1>4, SearchFrame, SearchAssumption DEF OnSearch, SearchStep, sessionVars
<1>5. CASE Elsewhere
  BY <1>2, <1>5, ElsewhereFrame
<1>6. CASE UNCHANGED vars
  BY <1>2, <1>6 DEF vars, tabVars, sessionVars
<1> QED BY <1>1, <1>3, <1>4, <1>5, <1>6 DEF Next, Moves, Elsewhere

(* A message page at rest shows the verdict, the text, the redaction and   *)
(* the thread of the mail in its route, for any mails and threads and any  *)
(* number of requests, unless one has met a request for another mail or a  *)
(* part could not be fetched (message-view/client-page.tsx 55-91).         *)
THEOREM QuietViewStaysRight == Spec => []QuietViewIsRight
<1>1. Init => ViewInv
  BY DEF Init, MessageInit, ViewInv
<1>2. TypeOK /\ ViewInv => QuietViewIsRight
  BY DEF TypeOK, SessionTypeOK, SignedIn, ViewInv, AllForId, PartsRight, QuietViewIsRight
<1> QED BY <1>1, <1>2, ViewStep, TypeCorrect, PTL DEF Spec

-----------------------------------------------------------------------------
(* Spinners and disabled buttons.  Each of them waits for a request that   *)
(* is under way, which is the part of ButtonsComeBack and LoadingEnds that *)
(* does not depend on fairness.  A message page without ?id= waits for     *)
(* nothing.                                                                *)
SearchWaits == loading => searches # {}
HoldWaits == isHolding => holdCall # Idle
AddWaits == isAdding => addCall # Idle
ViewWaits == viewLoading /\ SignedIn /\ id # NoMail => \E m \in Mails : <<"data", m>> \in loads

SomethingIsAwaited == SearchWaits /\ HoldWaits /\ AddWaits /\ ViewWaits

LEMMA MovesWait ==
  ASSUME TypeOK, Moves
  PROVE  SomethingIsAwaited'
<1>1. PICK m \in Mails \cup {NoMail}, l \in BOOLEAN : Arrive(user', m, l)
  BY MovesMove DEF Moved
<1>2. HoldWaits' /\ AddWaits'
  <2>1. ~isHolding' /\ ~isAdding'
    BY <1>1, Zenon DEF Arrive, MountSearch, NoSearchPage, BlankPage
  <2> QED BY <2>1, Zenon DEF HoldWaits, AddWaits
<1>3. SearchWaits'
  <2>1. CASE NoSearchPage
    BY <2>1, Zenon DEF NoSearchPage, SearchWaits
  <2>2. CASE MountSearch(user', l)
    <3> DEFINE found == user' \in (IF l THEN DomainUsers ELSE Users)
    <3>1. loading' = found
      BY <2>2 DEF MountSearch
    <3>2. found => searches' # {}
      BY <2>2 DEF MountSearch
    <3> HIDE DEF found
    <3> QED BY <3>1, <3>2, Zenon DEF SearchWaits
  <2> QED BY <1>1, <2>1, <2>2, Zenon DEF Arrive
<1>4. ViewWaits'
  <2>1. CASE at' = "/message-view"
    <3>1. MountView(m, user') /\ id' = m
      BY <1>1, <2>1 DEF Arrive, MountView, BlankView
    <3>2. user' # NoUser => user' \in Users
      BY MovesMove DEF SessionTypeOK
    <3>3. user' \in Users /\ m # NoMail => m \in Mails /\ <<"data", m>> \in loads'
      BY <3>1 DEF MountView, Parts
    <3> QED BY <3>1, <3>2, <3>3, Zenon DEF ViewWaits, SignedIn
  <2>2. CASE at' # "/message-view"
    <3>1. NoView
      BY <1>1, <2>2 DEF Arrive
    <3> QED BY <3>1, Zenon DEF NoView, ViewWaits
  <2> QED BY <2>1, <2>2
<1> QED BY <1>2, <1>3, <1>4 DEF SomethingIsAwaited

(* fetchMessages turns the spinner on with its request. *)
LEMMA FetchWaits ==
  ASSUME SearchWaits, NEW c, NEW p, Fetch(c, p)
  PROVE  SearchWaits'
<1>1. CASE user = NoUser
  BY <1>1, Zenon DEF Fetch, SearchWaits
<1>2. CASE user # NoUser
  <2>1. searches' # {}
    BY <1>2 DEF Fetch
  <2> QED BY <2>1, Zenon DEF SearchWaits
<1> QED BY <1>1, <1>2

LEMMA SearchStepWaits ==
  ASSUME TypeOK, SomethingIsAwaited, SearchStep
  PROVE  SearchWaits' /\ HoldWaits' /\ AddWaits'
<1>0. SearchWaits /\ HoldWaits /\ AddWaits
  BY DEF SomethingIsAwaited
<1>1. SearchWaits'
  <2>1. CASE UNCHANGED <<loading, searches>>
    BY <1>0, <2>1, Zenon DEF SearchWaits
  <2>2. CASE ~loading'
    BY <2>2, Zenon DEF SearchWaits
  <2>3. CASE (\E p : Fetch(crit, p)) \/ searches' # {}
    BY <1>0, <2>3, FetchWaits, Zenon DEF SearchWaits
  <2>4. CASE HandleSearch
    <3>1. Fetch(crit, page) \/ searches' # {}
      BY <2>4 DEF HandleSearch
    <3> QED BY <2>3, <3>1
  <2>5. CASE TurnPage
    BY <2>3, <2>5 DEF TurnPage
  <2>6. ASSUME NEW s \in searches, SearchSettles(s) PROVE SearchWaits'
    BY <2>2, <2>6, Zenon DEF SearchSettles, SearchReply, SearchFails
  <2>7. CASE ~HandleSearch /\ ~TurnPage /\ ~(\E s \in searches : SearchSettles(s))
    <3>1. UNCHANGED <<loading, searches>>
      BY <2>7
         DEF SearchStep, SearchUser, SearchCore, Typing, ToggleSelect, ToggleSelectAll,
             HandleExport, ChooseCase, HandleApplyHold, HandleAddToCase, HoldsArrive, CasesArrive,
             HoldSettles, HoldCreated, HoldApplied, HoldFails, AddSettles, AddedToCase, AddFails,
             searchVars
    <3> QED BY <2>1, <3>1
  <2> QED BY <2>4, <2>5, <2>6, <2>7
<1>2. HoldWaits'
  <2>1. CASE HandleApplyHold
    <3>1. holdCall' # Idle
      BY <2>1 DEF HandleApplyHold, Idle
    <3> QED BY <3>1, Zenon DEF HoldWaits
  <2>2. CASE HoldCreated
    <3>1. holdCall.step = "create" /\ holdCall \in HoldCalls
      BY <2>2, TypeParts DEF HoldCreated, CallSets
    <3>2. holdCall'.step = "apply"
      BY <2>2, <3>1 DEF HoldCreated, HoldCalls, Idle
    <3>3. holdCall' # Idle
      BY <3>2 DEF Idle
    <3> QED BY <3>3, Zenon DEF HoldWaits
  <2>3. CASE HoldApplied \/ HoldFails
    <3>1. ~isHolding'
      BY <2>3, Zenon DEF HoldApplied, HoldFails
    <3> QED BY <3>1, Zenon DEF HoldWaits
  <2>4. CASE ~HandleApplyHold /\ ~HoldSettles
    <3>1. UNCHANGED <<isHolding, holdCall>>
      BY <2>4
         DEF SearchStep, SearchUser, SearchCore, Typing, HandleSearch, TurnPage, ToggleSelect,
             ToggleSelectAll, HandleExport, ChooseCase, HandleAddToCase, HoldsArrive, CasesArrive,
             SearchSettles, SearchReply, SearchFails, AddSettles, AddedToCase, AddFails, holdVars
    <3> QED BY <1>0, <3>1, Zenon DEF HoldWaits
  <2> QED BY <2>1, <2>2, <2>3, <2>4 DEF HoldSettles
<1>3. AddWaits'
  <2>1. CASE HandleAddToCase
    <3>1. addCall' # Idle
      BY <2>1 DEF HandleAddToCase, Idle
    <3> QED BY <3>1, Zenon DEF AddWaits
  <2>2. CASE AddSettles
    <3>1. ~isAdding'
      BY <2>2, Zenon DEF AddSettles, AddedToCase, AddFails
    <3> QED BY <3>1, Zenon DEF AddWaits
  <2>3. CASE ~HandleAddToCase /\ ~AddSettles
    <3>1. UNCHANGED <<isAdding, addCall>>
      BY <2>3
         DEF SearchStep, SearchUser, SearchCore, Typing, HandleSearch, TurnPage, ToggleSelect,
             ToggleSelectAll, HandleExport, ChooseCase, HandleApplyHold, HoldsArrive, CasesArrive,
             SearchSettles, SearchReply, SearchFails, HoldSettles, HoldCreated, HoldApplied,
             HoldFails, addVars
    <3> QED BY <1>0, <3>1, Zenon DEF AddWaits
  <2> QED BY <2>1, <2>2, <2>3
<1> QED BY <1>1, <1>2, <1>3

LEMMA MessageStepWaits ==
  ASSUME ViewWaits, MessageStep, user' = user
  PROVE  ViewWaits'
<1>1. ASSUME NEW m \in Mails, OpenInThread(m) PROVE ViewWaits'
  <2>1. <<"data", m>> \in loads'
    BY <1>1 DEF OpenInThread, Parts
  <2> QED BY <2>1, Zenon DEF ViewWaits
<1>2. ASSUME NEW m \in Mails, MessageArrives(m) PROVE ViewWaits'
  BY <1>2, Zenon DEF MessageArrives, ViewWaits
<1>3. ASSUME NEW m \in Mails, ThreadArrives(m) \/ RedactionArrives(m) \/ VerdictArrives(m)
      PROVE  ViewWaits'
  <2>1. viewLoading' = viewLoading /\ id' = id
    BY <1>3, Zenon DEF ThreadArrives, RedactionArrives, VerdictArrives
  <2>2. \A n : <<"data", n>> \in loads => <<"data", n>> \in loads'
    BY <1>3 DEF ThreadArrives, RedactionArrives, VerdictArrives
  <2> QED BY <2>1, <2>2, Zenon DEF ViewWaits, SignedIn
<1> QED BY <1>1, <1>2, <1>3 DEF MessageStep, MessageUser, MessageCore, PartArrives

LEMMA WaitStep == TypeOK /\ BusyInv /\ SomethingIsAwaited /\ [Next]_vars => SomethingIsAwaited'
<1> SUFFICES ASSUME TypeOK, BusyInv, SomethingIsAwaited, [Next]_vars
             PROVE  SomethingIsAwaited'
  OBVIOUS
<1>0. SearchWaits /\ HoldWaits /\ AddWaits /\ ViewWaits
  BY DEF SomethingIsAwaited
<1>1. CASE Moves
  BY <1>1, MovesWait
<1>2. ASSUME UNCHANGED <<user, searchPageVars>> PROVE (SearchWaits /\ HoldWaits /\ AddWaits)'
  <2>1. UNCHANGED <<loading, searches, isHolding, holdCall, isAdding, addCall>>
    BY <1>2 DEF searchPageVars, searchVars, holdVars, addVars
  <2> QED BY <1>0, <2>1, Zenon DEF SearchWaits, HoldWaits, AddWaits
<1>3. ASSUME UNCHANGED <<user, viewVars>> PROVE ViewWaits'
  <2>1. UNCHANGED <<user, viewLoading, id, loads>>
    BY <1>3 DEF viewVars
  <2> QED BY <1>0, <2>1, Zenon DEF ViewWaits, SignedIn
<1>4. CASE Elsewhere \/ UNCHANGED vars
  <2>1. UNCHANGED <<user, searchPageVars, viewVars>>
    BY <1>4, ElsewhereFrame DEF vars, tabVars, sessionVars
  <2> QED BY <1>2, <1>3, <2>1 DEF SomethingIsAwaited
<1>5. CASE OnSearch
  <2>1. SearchStep /\ UNCHANGED viewVars
    BY <1>5 DEF OnSearch, SearchStep
  <2>2. user' = user
    BY <2>1, SearchFrame, SearchAssumption DEF sessionVars
  <2> QED BY <1>3, <2>1, <2>2, SearchStepWaits DEF SomethingIsAwaited
<1>6. CASE OnMessage
  <2>1. MessageStep /\ UNCHANGED searchPageVars
    BY <1>6 DEF OnMessage, MessageStep
  <2>2. user' = user
    BY <2>1, MessageFrame DEF sessionVars
  <2> QED BY <1>0, <1>2, <2>1, <2>2, MessageStepWaits DEF SomethingIsAwaited
<1> QED BY <1>1, <1>4, <1>5, <1>6 DEF Next, Moves, Elsewhere

(* No spinner turns and no button is disabled without a request that will  *)
(* end it, whatever the order of moves, logins and replies: what is left   *)
(* of ButtonsComeBack and LoadingEnds is that a fetch is settled           *)
(* (audit/page.tsx 147-244, message-view/client-page.tsx 55-91).  The one  *)
(* spinner that turns for nothing is that of a message page without ?id=,  *)
(* which the invariant names.                                              *)
THEOREM SpinnersHaveRequests == Spec => []SomethingIsAwaited
<1>1. Init => SomethingIsAwaited
  BY Zenon DEF Init, SearchInit, MessageInit, SomethingIsAwaited, SearchWaits, HoldWaits, AddWaits,
               ViewWaits
<1> QED BY <1>1, WaitStep, TypeCorrect, PTL DEF Spec

-----------------------------------------------------------------------------
(* The ids the page can ask a hold by are all public ones. *)
LEMMA NoneAccepted ==
  ASSUME TypeOK, NoId \notin RowIds, \A o \in Orgs : PublicId[o] \notin RowIds,
         holdCall.step = "apply"
  PROVE  ~Accepted(holdCall.hold)
BY TypeParts DEF CallSets, HoldCalls, Idle, Accepted

LEMMA HeldStep ==
  ASSUME TypeOK, NoId \notin RowIds, \A o \in Orgs : PublicId[o] \notin RowIds, [Next]_vars
  PROVE  held' = held
<1>1. CASE Moves
  <2>1. RequestsLeft
    BY <1>1, MovesMove
  <2> QED BY <2>1, NoneAccepted DEF RequestsLeft
<1>2. CASE HoldApplied
  BY <1>2, NoneAccepted DEF HoldApplied
<1>3. CASE OnSearch /\ ~HoldApplied
  BY <1>3
     DEF OnSearch, SearchUser, SearchCore, Typing, HandleSearch, TurnPage, ToggleSelect,
         ToggleSelectAll, HandleExport, ChooseCase, HandleApplyHold, HandleAddToCase,
         HoldsArrive, CasesArrive, SearchSettles, SearchReply, SearchFails, HoldSettles,
         HoldCreated, HoldFails, AddSettles, AddedToCase, AddFails, holdVars
<1>4. CASE Elsewhere \/ OnMessage \/ UNCHANGED vars
  BY <1>4, ElsewhereFrame DEF OnMessage, vars, searchPageVars, holdVars
<1> QED BY <1>1, <1>2, <1>3, <1>4 DEF Next, Moves, Elsewhere

(* The button "Legal Hold" holds nothing, for any users, mails, holds and  *)
(* order of steps, as long as the ids that the core lists holds by are not *)
(* those its table of items refers to: it is not only one sequence that    *)
(* fails (audit/page.tsx 152-173, admin.py 293, 389).                      *)
THEOREM BulkHoldsNothing ==
  ASSUME NoId \notin RowIds, \A o \in Orgs : PublicId[o] \notin RowIds
  PROVE  Spec => [](held = {})
<1>1. Init => held = {}
  BY DEF Init, SearchInit
<1>2. TypeOK /\ held = {} /\ [Next]_vars => (held = {})'
  BY HeldStep
<1> QED BY <1>1, <1>2, TypeCorrect, PTL
   DEF Spec
=============================================================================
