----------------------------- MODULE EntryNames -----------------------------
(***************************************************************************)
(* The name in audit entries: 'user_id' of localStorage, which the login   *)
(* page writes and the search and message pages read when an entry is      *)
(* written (login/page.tsx, audit/page.tsx, message-view/client-page.tsx). *)
(* All tabs share it, and logging out leaves it.                           *)
(***************************************************************************)
EXTENDS UserSession

CONSTANT Mails   \* the archived mails that pages name

VARIABLES
  userId,   \* localStorage 'user_id'
  strange,  \* history: the audit entries, <<who acted, the name in it>>, that
            \* name neither the user who acted nor one who signed in later
  late,     \* the users whose page is gone with an entry still to be written
  later     \* history: <<u, v>> when v has signed in after u did

nameVars == <<userId, strange, late, later>>
tabVars == <<sessionVars, nameVars>>

NameTypeOK ==
  /\ userId \in Users \cup {NoUser}
  /\ strange \subseteq Users \X (Users \cup {NoUser})
  /\ late \subseteq Users
  /\ later \subseteq Users \X Users

NameInit == userId = NoUser /\ strange = {} /\ late = {} /\ later = {}

(* Bound: nobody comes back once another user has signed in. *)
FirstTime(u) == \A p \in later : p[1] # u

(* The name at a login of u, in this tab or another: everyone who has      *)
(* signed in in this browser did so before u does now.                     *)
NameAtLogin(u) ==
  LET known == ({user, oaUser, userId} \cap Users)
                 \cup {p[1] : p \in later} \cup {p[2] : p \in later}
  IN /\ FirstTime(u)
     /\ userId' = u
     /\ later' = later \cup {<<w, u>> : w \in known \ {u}}
     /\ UNCHANGED strange

(* Mutant: logout forgets 'user_id' as well. *)
NameForgottenAtLogout == userId' = NoUser /\ UNCHANGED <<strange, later>>

(* logout leaves 'user_id' (and the token). *)
NameAtLogout == UNCHANGED <<userId, strange, later>>

(* Going from page to page does too.  (What becomes of the entries still   *)
(* to be written is said by the module of the tab.)                        *)
NameKept == UNCHANGED <<userId, strange, later>>

-----------------------------------------------------------------------------
(* The name in 'user_id' is that of u or of one who signed in after u did. *)
NamedRightly(u) == userId \in Users /\ (userId = u \/ <<u, userId>> \in later)

(* logAudit of a page that was rendered for u: the name in the entry is    *)
(* whatever 'user_id' holds by now (NoUser stands for the 'auditor' it     *)
(* falls back to).                                                         *)
LogAudit(u) ==
  strange' = strange \cup (IF NamedRightly(u) THEN {} ELSE {<<u, userId>>})

(* The reply that a page has waited for comes after the page is gone: its  *)
(* handler runs on in its closure.                                         *)
LateEntry(u) ==
  /\ u \in late
  /\ late' = late \ {u}
  /\ LogAudit(u)
  /\ UNCHANGED <<sessionVars, userId, later>>

(* PROPERTY.  An audit entry names the user who acted, or one who signed   *)
(* in later in the same browser: never somebody else and never nobody,     *)
(* even when the reply that causes it arrives after the user has signed    *)
(* out (UserContext.tsx 45-49 leaves 'user_id'; logAudit reads it then).   *)
EntriesNameAUser == strange = {}
=============================================================================
