----------------------------- MODULE AuditorTab -----------------------------
(***************************************************************************)
(* A browser tab on the search page and the message page, with the session *)
(* they share and another tab that signs in and out.  A page lives while   *)
(* its route is shown: the state of SearchPage and MessageView is reset    *)
(* when the route changes, and what they have under way goes on without    *)
(* them.  The other routes are pages without state here.                   *)
(***************************************************************************)
EXTENDS SearchPage, MessageView

vars == <<tabVars, searchPageVars, viewVars>>

TypeOK == SessionTypeOK /\ NameTypeOK /\ SearchTypeOK /\ MessageTypeOK

Init == SessionInit /\ NameInit /\ SearchInit /\ MessageInit

(* What the route at' shows for user u. *)
Arrive(u, m, afterLoad) ==
  /\ IF at' = "/audit" THEN MountSearch(u, afterLoad) ELSE NoSearchPage
  /\ IF at' = "/message-view" THEN MountView(m, u) ELSE NoView

(* What the page that is left has under way. *)
Leave ==
  /\ late' = IF SearchOwes \/ ViewOwes THEN late \cup {user} ELSE late
  /\ RequestsLeft

SignIn(u) == HandleLogin(u) /\ NameAtLogin(u) /\ Arrive(u, NoMail, FALSE) /\ Leave
SignOut   == Logout /\ NameAtLogout /\ Arrive(NoUser, NoMail, FALSE) /\ Leave

(* The sidebar, the link back of the message page and the link to the      *)
(* search of the home page.                                                *)
Links == SidebarLinks
           \cup (IF at = "/message-view" THEN {"/"} ELSE {})
           \cup (IF at = "/" THEN {"/audit"} ELSE {})

Browse(r) ==
  /\ at # "/login" /\ r \in Links
  /\ Follow(r) /\ NameKept /\ Arrive(user, NoMail, FALSE) /\ Leave

OpenMail(m) ==
  /\ OnPage /\ m \in results
  /\ Follow("/message-view") /\ NameKept /\ Arrive(user, m, FALSE) /\ Leave

(* An address is entered, or the page loaded again; that of the message    *)
(* page may come without ?id=.                                             *)
Load(r, m) ==
  /\ r # "/message-view" => m = NoMail
  /\ FullLoad(r) /\ NameKept /\ Arrive(oaUser, m, TRUE) /\ late' = {} /\ RequestsLeft

OtherTab ==
  /\ (\E u \in Users : OtherTabLogin(u) /\ NameAtLogin(u)) \/ (OtherTabLogout /\ NameAtLogout)
  /\ UNCHANGED <<late, searchPageVars, viewVars>>

LateEnds == (\E u \in late : LateEntry(u)) /\ UNCHANGED <<searchPageVars, viewVars>>

OnSearch == (SearchUser \/ SearchCore) /\ UNCHANGED viewVars
OnMessage == (MessageUser \/ MessageCore) /\ UNCHANGED searchPageVars

Next ==
  \/ \E u \in Users : SignIn(u)
  \/ SignOut
  \/ \E r \in Routes : Browse(r)
  \/ \E m \in Mails : OpenMail(m)
  \/ \E r \in Routes, m \in Mails \cup {NoMail} : Load(r, m)
  \/ OtherTab \/ LateEnds \/ OnSearch \/ OnMessage

Spec == Init /\ [][Next]_vars

(* Fetches are settled: answered, or rejected by the browser when the      *)
(* connection fails or the proxy gives up.  Nothing is assumed of the user *)
(* except that reloads do not outrun every reply for ever.                 *)
FairSpec ==
  /\ Spec
  /\ WF_vars((\E s \in searches : SearchSettles(s)) /\ UNCHANGED viewVars)
  /\ WF_vars(HoldSettles /\ UNCHANGED viewVars)
  /\ WF_vars(AddSettles /\ UNCHANGED viewVars)
  /\ WF_vars((\E m \in Mails : MessageArrives(m)) /\ UNCHANGED searchPageVars)
=============================================================================
