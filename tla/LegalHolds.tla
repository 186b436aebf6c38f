------------------------------ MODULE LegalHolds ------------------------------
(***************************************************************************)
(* Legal holds: create_hold, apply_hold and release_hold in core/admin.py, *)
(* and what delete_organization does to holds.                             *)
(*                                                                         *)
(* create_hold checks the name, inserts the hold, searches the archive for *)
(* what matches and inserts the items: three SQL statements, each          *)
(* committed by itself with an await, and one search.  A hold is named by  *)
(* the request that creates it.  delete_organization removes the items of  *)
(* an organisation in one statement and its holds in the next, without a   *)
(* transaction: when it stops in between, the holds are active and empty.  *)
(* Two deletions of one organisation do not overlap in the model.          *)
(*                                                                         *)
(* A criterion is an address.  What it selects is a matter of the clean    *)
(* addresses (sender_email, recipient_emails) when a hold searches and     *)
(* when the UI marks a mail, and of the raw From and To headers when the   *)
(* retention worker looks: Matches and RawMatches.                         *)
(***************************************************************************)
EXTENDS Naturals, FiniteSets

CONSTANTS
  Messages,
  Requests,     \* calls of create_hold
  HoldOrgs,     \* organisations
  OrgOf,        \* OrgOf[r]: the organisation of request r
  Names,
  NameOf,       \* NameOf[r]: the name in request r
  Matches,      \* Matches[r]: the messages whose clean addresses match
  RawMatches    \* RawMatches[r]: those whose raw headers equal the address

ASSUME HoldAssumption == /\ OrgOf \in [Requests -> HoldOrgs]
                         /\ NameOf \in [Requests -> Names]
                         /\ Matches \in [Requests -> SUBSET Messages]
                         /\ RawMatches \in [Requests -> SUBSET Messages]

VARIABLES
  docs,      \* the messages in the search index
  creating,  \* creating[r]: where the handler of request r is
  hits,      \* hits[r]: what its search returned
  holds,     \* holds[r]: the row in legal_holds, "none" before there is one
  items,     \* legal_hold_items: pairs of a hold and a message
  deleting,  \* organisations whose items are deleted and whose holds are not
  stripped   \* history: the items a deletion has taken

deleteVars == <<deleting, stripped>>
holdVars == <<creating, hits, holds, items, deleteVars>>

HoldTypeOK ==
  /\ creating \in [Requests -> {"new", "checked", "inserted", "found", "ended"}]
  /\ hits \in [Requests -> SUBSET Messages]
  /\ holds \in [Requests -> {"none", "active", "released", "deleted"}]
  /\ items \subseteq Requests \X Messages
  /\ deleting \subseteq HoldOrgs /\ stripped \subseteq Requests \X Messages

HoldInit ==
  /\ creating = [r \in Requests |-> "new"]
  /\ hits = [r \in Requests |-> {}]
  /\ holds = [r \in Requests |-> "none"]
  /\ items = {} /\ deleting = {} /\ stripped = {}

Held(m) == \E r \in Requests : <<r, m>> \in items

-----------------------------------------------------------------------------
(* SELECT id FROM legal_holds WHERE name = ... AND org_id = ...; 400 if    *)
(* there is one.                                                           *)
SameName(r, s) == OrgOf[s] = OrgOf[r] /\ NameOf[s] = NameOf[r]

CheckName(r) ==
  /\ creating[r] = "new"
  /\ creating' = [creating EXCEPT ![r] =
       IF \E s \in Requests : holds[s] \in {"active", "released"} /\ SameName(r, s)
       THEN "ended" ELSE "checked"]
  /\ UNCHANGED <<docs, hits, holds, items, deleteVars>>

InsertHold(r) ==
  /\ creating[r] = "checked"
  /\ holds' = [holds EXCEPT ![r] = "active"]
  /\ creating' = [creating EXCEPT ![r] = "inserted"]
  /\ UNCHANGED <<docs, hits, items, deleteVars>>

(* Nobody has looked whether the organisation exists: the foreign key may  *)
(* refuse the hold.                                                        *)
HoldRefused(r) ==
  /\ creating[r] = "checked"
  /\ creating' = [creating EXCEPT ![r] = "ended"]
  /\ UNCHANGED <<docs, hits, holds, items, deleteVars>>

(* The handler ends, and its hits with it. *)
EndRequest(r) == /\ creating' = [creating EXCEPT ![r] = "ended"]
                 /\ hits' = [hits EXCEPT ![r] = {}]

(* The search of the archive; a search that fails finds nothing. *)
FindHits(r) ==
  /\ creating[r] = "inserted"
  /\ hits' = [hits EXCEPT ![r] = docs \cap Matches[r]]
  /\ creating' = [creating EXCEPT ![r] = IF hits'[r] = {} THEN "ended" ELSE "found"]
  /\ UNCHANGED <<docs, holds, items, deleteVars>>

(* executemany: one implicit transaction.  The foreign key refuses items   *)
(* of a hold that has been deleted meanwhile.                              *)
InsertItems(r) ==
  /\ creating[r] = "found"
  /\ items' = IF holds[r] = "deleted" THEN items ELSE items \cup ({r} \X hits[r])
  /\ EndRequest(r)
  /\ UNCHANGED <<docs, holds, deleteVars>>

(* A statement raises, or the search swallows its error: what has been     *)
(* committed stays, the rest does not happen.                              *)
CreateStops(r) ==
  /\ creating[r] \in {"checked", "inserted", "found"}
  /\ EndRequest(r)
  /\ UNCHANGED <<docs, holds, items, deleteVars>>

(* apply_hold: the message is put under a hold by its id, also when it is  *)
(* not in the archive (any more), also when the hold has been released.    *)
ApplyHold(r, m) ==
  /\ holds[r] \in {"active", "released"}
  /\ items' = items \cup {<<r, m>>}
  /\ UNCHANGED <<docs, creating, hits, holds, deleteVars>>

(* release_hold: active = FALSE; the items stay. *)
ReleaseHold(r) ==
  /\ holds[r] = "active"
  /\ holds' = [holds EXCEPT ![r] = "released"]
  /\ UNCHANGED <<docs, creating, hits, items, deleteVars>>

ItemsOf(o) == {i \in items : OrgOf[i[1]] = o}

(* DELETE FROM legal_hold_items WHERE hold_id IN the holds of o. *)
DeleteHoldItems(o) ==
  /\ o \notin deleting
  /\ deleting' = deleting \cup {o}
  /\ items' = items \ ItemsOf(o)
  /\ stripped' = stripped \cup ItemsOf(o)
  /\ UNCHANGED <<docs, creating, hits, holds>>

(* DELETE FROM legal_holds WHERE org_id, items inserted meanwhile going    *)
(* with their hold (ON DELETE CASCADE).                                    *)
DeleteHolds(o) ==
  /\ o \in deleting
  /\ deleting' = deleting \ {o}
  /\ holds' = [r \in Requests |-> IF OrgOf[r] = o /\ holds[r] # "none"
                                  THEN "deleted" ELSE holds[r]]
  /\ items' = items \ ItemsOf(o)
  /\ stripped' = stripped \cup ItemsOf(o)
  /\ UNCHANGED <<docs, creating, hits>>

(* The second statement raises: the items are gone and the holds are not.  *)
DeleteStops(o) ==
  /\ o \in deleting
  /\ deleting' = deleting \ {o}
  /\ UNCHANGED <<docs, creating, hits, holds, items, stripped>>

HoldHandler ==
  \/ \E r \in Requests : \/ CheckName(r) \/ InsertHold(r) \/ HoldRefused(r)
                         \/ FindHits(r) \/ InsertItems(r) \/ ReleaseHold(r)
                         \/ \E m \in Messages : ApplyHold(r, m)
  \/ \E o \in HoldOrgs : DeleteHoldItems(o) \/ DeleteHolds(o)
=============================================================================
