---------------------------- MODULE ArchivePromise ----------------------------
(***************************************************************************)
(* What the ingestion path promises the mail server: a mail it may forget  *)
(* is held by the agent, what is held is never let go of before it is in   *)
(* the archive, and what is archived was held.  The agent takes mails one  *)
(* by one, the archive receives any number at a time.                      *)
(***************************************************************************)
CONSTANT Mails

VARIABLES
  accepted,   \* mails answered with a 250
  held,       \* mails with a durable copy at the agent
  archived    \* mails with a blob and a document at the core

Init == accepted = {} /\ held = {} /\ archived = {}

(* A durable copy is made: nothing is promised yet. *)
Hold(m) ==
  /\ held' = held \cup {m}
  /\ UNCHANGED <<accepted, archived>>

(* Only a mail that is held is accepted, and it stays so. *)
Accept(m) ==
  /\ m \in held
  /\ accepted' = accepted \cup {m}
  /\ UNCHANGED <<held, archived>>

(* Any held mails, accepted or not, arrive. *)
Archive(S) ==
  /\ S \subseteq held
  /\ archived' = archived \cup S
  /\ UNCHANGED <<accepted, held>>

Next == \/ \E m \in Mails : Hold(m) \/ Accept(m)
        \/ \E S \in SUBSET Mails : Archive(S)

Spec == Init /\ [][Next]_<<accepted, held, archived>>
=============================================================================
