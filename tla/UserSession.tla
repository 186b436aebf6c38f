----------------------------- MODULE UserSession -----------------------------
(***************************************************************************)
(* Who a browser tab acts for: components/UserContext.tsx, the login page, *)
(* the sidebar and the user menu (under src/ui/src).                       *)
(*                                                                         *)
(* The user is kept twice: as React state, which belongs to one tab and    *)
(* ends with a page load, and in localStorage, which all tabs share, under *)
(* 'oa_user', to be restored after a page load.  Another tab is seen only  *)
(* through localStorage.                                                   *)
(***************************************************************************)
EXTENDS Naturals, FiniteSets

CONSTANTS
  Users,        \* the accounts, as the core describes them at login
  Orgs,
  RoleOf,       \* RoleOf[u]: "super_admin", "client_admin" or "auditor"
  OrgOf,
  NoUser,       \* null, and an absent key of localStorage
  Routes,       \* the pages that exist
  OtherUsers    \* bound: the users who sign in in another tab

ASSUME SessionAssumption ==
  /\ RoleOf \in [Users -> {"super_admin", "client_admin", "auditor"}]
  /\ OrgOf \in [Users -> Orgs]
  /\ NoUser \notin Users /\ OtherUsers \subseteq Users
  /\ {"/login", "/audit", "/admin"} \subseteq Routes

VARIABLES
  at,       \* the route the tab shows
  user,     \* the state of UserProvider
  oaUser    \* localStorage 'oa_user'

sessionVars == <<at, user, oaUser>>

SessionTypeOK ==
  /\ at \in Routes
  /\ user \in Users \cup {NoUser}
  /\ oaUser \in Users \cup {NoUser}

SessionInit == at = "/login" /\ user = NoUser /\ oaUser = NoUser

(* orgId and role of whoever is signed in; only used when someone is. *)
SignedIn == user # NoUser

(* The links of the sidebar.  Two of them name pages that do not exist     *)
(* ("/admin/system/agents" and "/admin/logs").                             *)
SidebarLinks ==
  IF ~SignedIn THEN {"/"}
  ELSE CASE RoleOf[user] = "super_admin" ->
              {"/", "/admin", "/admin/users", "/admin/system/agents", "/admin/retention"}
         [] RoleOf[user] = "client_admin" ->
              {"/admin", "/admin/users", "/audit", "/admin/cases", "/admin/holds",
               "/admin/retention", "/admin/logs"}
         [] OTHER -> {"/audit", "/admin/review", "/admin/cases", "/admin/holds"}

(* Where the login page sends a user. *)
Landing(u) == IF RoleOf[u] = "auditor" THEN "/audit" ELSE "/admin"

-----------------------------------------------------------------------------
(* handleLogin gets the user from the core, the state and 'oa_user' are    *)
(* set and the router goes to the landing page.                            *)
HandleLogin(u) ==
  /\ at = "/login"
  /\ user' = u /\ oaUser' = u
  /\ at' = Landing(u)

(* logout forgets 'oa_user'. *)
Logout ==
  /\ SignedIn /\ at # "/login"
  /\ user' = NoUser /\ oaUser' = NoUser
  /\ at' = "/login"

(* A link of the sidebar or of a page: the state lives on. *)
Follow(r) ==
  /\ r \in Routes \ {at}
  /\ at' = r
  /\ UNCHANGED <<user, oaUser>>

(* A page load: the provider is mounted anew and restores 'oa_user'.  The  *)
(* effects of the page run once before that, without a user.               *)
FullLoad(r) ==
  /\ r \in Routes
  /\ at' = r
  /\ user' = oaUser
  /\ UNCHANGED oaUser

(* Another tab of the browser signs in or out. *)
OtherTabLogin(u) ==
  /\ u \in OtherUsers
  /\ oaUser' = u
  /\ UNCHANGED <<at, user>>

OtherTabLogout ==
  /\ oaUser \in OtherUsers
  /\ oaUser' = NoUser
  /\ UNCHANGED <<at, user>>
=============================================================================
