----------------------------- MODULE MessageView -----------------------------
(***************************************************************************)
(* The page "/message-view" (message-view/client-page.tsx): four requests  *)
(* for one mail, whose replies are shown as they come.                     *)
(*                                                                         *)
(* Going to another mail of the thread keeps the page: only "loading" is   *)
(* set again, and the parts of the former mail stay until a reply replaces *)
(* them.  A reply does not say which mail the page shows by now.           *)
(***************************************************************************)
EXTENDS EntryNames

CONSTANTS
  Readable,     \* Readable[u]: the mails that the core returns to u
  ThreadOf,     \* ThreadOf[u][m]: what get_thread returns (empty for a mail whose
                \* org_id is a list: it is compared with an integer)
  StatusOf,     \* StatusOf[u][m]: the status in the reply of verify
  Statuses,
  NoMail,
  MaxOld        \* bound: requests for former mails in flight

ASSUME MessageAssumption ==
  /\ NoMail \notin Mails
  /\ Readable \in [Users -> SUBSET Mails]
  /\ ThreadOf \in [Users -> [Mails -> SUBSET Mails]]
  /\ {"LOADING", "UNAVAILABLE"} \subseteq Statuses
  /\ StatusOf \in [Users -> [Mails -> Statuses]]

VARIABLES
  id,          \* the parameter of the route
  viewLoading, \* loading
  data,        \* the mail whose content is shown
  broken,      \* data.error
  thread,      \* the mails under "Conversation History"
  threadOf,    \* history: the mail it was asked for, NoMail if that failed
  redacted,    \* the mail of redactedContent
  missed,      \* history: the last request for it failed
  verdict,     \* integrityStatus, with the mail it was asked for as history
  loads,       \* the requests in flight: <<part, mail>>
  tangled      \* history: a request has met one for another mail

partVars == <<data, broken, thread, threadOf, redacted, missed, verdict>>
viewVars == <<id, viewLoading, partVars, loads, tangled>>

Parts == {"data", "thread", "redacted", "verdict"}

MessageTypeOK ==
  /\ id \in Mails \cup {NoMail} /\ viewLoading \in BOOLEAN
  /\ data \in Mails \cup {NoMail} /\ broken \in BOOLEAN
  /\ thread \subseteq Mails /\ threadOf \in Mails \cup {NoMail}
  /\ redacted \in Mails \cup {NoMail}
  /\ verdict \in (Mails \cup {NoMail}) \X Statuses
  /\ missed \in BOOLEAN
  /\ loads \subseteq Parts \X Mails /\ tangled \in BOOLEAN

BlankView(m) ==
  /\ id' = m
  /\ data' = NoMail /\ broken' = FALSE /\ thread' = {} /\ threadOf' = NoMail
  /\ redacted' = NoMail /\ verdict' = <<NoMail, "LOADING">>
  /\ missed' = FALSE /\ tangled' = FALSE

(* Mounted for u: "loading" is TRUE from the first render on, and nothing  *)
(* is asked for without a user or without a mail.                          *)
MountView(m, u) ==
  /\ BlankView(m)
  /\ viewLoading' = TRUE
  /\ loads' = IF u \in Users /\ m # NoMail THEN Parts \X {m} ELSE {}

NoView ==
  /\ BlankView(NoMail)
  /\ viewLoading' = FALSE /\ loads' = {}

(* When the page goes the audit entry for its mail may still be written. *)
ViewOwes == \E l \in loads : l[1] = "data"

-----------------------------------------------------------------------------
OnView == at = "/message-view"

(* The page renders its content and links. *)
Rendered == OnView /\ ~viewLoading /\ data # NoMail /\ ~broken

(* A link of the thread: the effect runs again for the new id. *)
OpenInThread(m) ==
  /\ Rendered /\ Cardinality(thread) > 1 /\ m \in thread \ {id}
  /\ Cardinality(loads) <= MaxOld   \* bound, and none of them for m
  /\ \A l \in loads : l[2] # m
  /\ id' = m
  /\ viewLoading' = TRUE
  /\ loads' = loads \cup (Parts \X {m})
  /\ tangled' = (loads # {})
  /\ UNCHANGED <<tabVars, partVars>>

(* Mutant: only a message that arrives ends the loading. *)
MessageArrivesOnly(m) ==
  /\ <<"data", m>> \in loads
  /\ loads' = loads \ {<<"data", m>>}
  /\ data' = m
  /\ \/ m \in Readable[user] /\ broken' = FALSE /\ viewLoading' = FALSE /\ LogAudit(user)
     \/ broken' = TRUE /\ UNCHANGED <<viewLoading, strange>>
  /\ UNCHANGED <<sessionVars, userId, late, later, id, thread, threadOf, redacted, missed, verdict,
                 tangled>>

(* The message arrives: its entry is written, also when the page shows     *)
(* another mail by now.  A mail the core does not return, and a rejected   *)
(* fetch, leave an error.                                                  *)
MessageArrives(m) ==
  /\ <<"data", m>> \in loads
  /\ loads' = loads \ {<<"data", m>>}
  /\ data' = m
  /\ viewLoading' = FALSE
  /\ \/ m \in Readable[user] /\ broken' = FALSE /\ LogAudit(user)
     \/ broken' = TRUE /\ UNCHANGED strange
  /\ UNCHANGED <<sessionVars, userId, late, later, id, thread, threadOf, redacted, missed, verdict,
                 tangled>>

(* A part that is not tied to loading arrives, or is not replaced.  A      *)
(* reply that is an error in JSON clears the thread and the redacted text. *)
ThreadArrives(m) ==
  /\ <<"thread", m>> \in loads
  /\ loads' = loads \ {<<"thread", m>>}
  /\ \/ thread' = ThreadOf[user][m] /\ threadOf' = m
     \/ thread' \in {thread, {}} /\ threadOf' = NoMail
  /\ UNCHANGED <<tabVars, id, viewLoading, data, broken, redacted, missed, verdict,
                 tangled>>

RedactionArrives(m) ==
  /\ <<"redacted", m>> \in loads
  /\ loads' = loads \ {<<"redacted", m>>}
  /\ \/ redacted' = m /\ missed' = FALSE
     \/ redacted' \in {redacted, NoMail} /\ missed' = TRUE
  /\ UNCHANGED <<tabVars, id, viewLoading, data, broken, thread, threadOf, verdict,
                 tangled>>

(* Mutant: a request for the status that fails is only logged. *)
VerdictArrivesOrNot(m) ==
  /\ <<"verdict", m>> \in loads
  /\ loads' = loads \ {<<"verdict", m>>}
  /\ verdict' \in {<<m, StatusOf[user][m]>>, verdict}
  /\ UNCHANGED <<tabVars, id, viewLoading, data, broken, thread, threadOf, redacted,
                 missed, tangled>>

VerdictArrives(m) ==
  /\ <<"verdict", m>> \in loads
  /\ loads' = loads \ {<<"verdict", m>>}
  /\ verdict' \in {<<m, StatusOf[user][m]>>, <<m, "UNAVAILABLE">>}
  /\ UNCHANGED <<tabVars, id, viewLoading, data, broken, thread, threadOf, redacted,
                 missed, tangled>>

-----------------------------------------------------------------------------
MessageInit ==
  /\ id = NoMail /\ viewLoading = FALSE /\ data = NoMail /\ broken = FALSE
  /\ thread = {} /\ threadOf = NoMail /\ redacted = NoMail
  /\ verdict = <<NoMail, "LOADING">>
  /\ missed = FALSE /\ loads = {} /\ tangled = FALSE

MessageUser == \E m \in Mails : OpenInThread(m)

PartArrives(m) ==
  MessageArrives(m) \/ ThreadArrives(m) \/ RedactionArrives(m) \/ VerdictArrives(m)

MessageCore == \E m \in Mails : PartArrives(m)

-----------------------------------------------------------------------------
(* PROPERTY.  When all requests are settled, and none met one for another  *)
(* mail, the badge, the text, its redaction and the thread are those of the *)
(* mail in the route; only a redaction or a thread that could not be       *)
(* fetched is left from the mail before (client-page.tsx 55-91).           *)
QuietViewIsRight ==
  OnView /\ SignedIn /\ loads = {} /\ ~tangled /\ id # NoMail =>
    /\ verdict \in {<<id, StatusOf[user][id]>>, <<id, "UNAVAILABLE">>}
    /\ data = id /\ (redacted = id \/ missed)
    /\ threadOf \in {id, NoMail}

(* PROPERTY.  A mail is shown or reported as an error in the end: the page *)
(* does not stay at "Loading..." for a user (client-page.tsx 55-72).  It   *)
(* does when its address has no ?id=: the effect returns before it asks    *)
(* for anything and nothing ends the loading (30, 56, 93).                 *)
LoadingEnds == viewLoading /\ SignedIn ~> ~viewLoading \/ ~SignedIn \/ id = NoMail
=============================================================================
