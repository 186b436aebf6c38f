---------------------------- MODULE SidecarBuffer ----------------------------
(***************************************************************************)
(* The sidecar agent: sidecar/agent.py (the SMTP handler) over             *)
(* sidecar/buffer.py (files under data/ and the SQLite file buffer.db).    *)
(*                                                                         *)
(* One delivery attempt is one run of handle_DATA and owns one fresh id.   *)
(* The coroutines of concurrent attempts interleave at the awaits of the   *)
(* aiosqlite calls, so each SQL statement is an action; a file write has no*)
(* await inside and is one action.  The mail server is external: it offers *)
(* a mail again, under a new attempt, until it reads a 250.                *)
(***************************************************************************)
EXTENDS IngestBase

VARIABLES
  attempt,    \* attempt[m]: the attempt the mail server waits on, or NoId
  delivered,  \* the mails for which the mail server has read a 250
  mailOf,     \* mailOf[i]: the mail attempt i carries
  pc,         \* pc[i]: where handle_DATA stands in attempt i
  todo,       \* todo[i]: the attachments msg.walk() has not yet saved
  cur,        \* cur[i]: the attachment inside save_cas_blob
  casFile,    \* casFile[b]: data/cas/<hash>.bin
  casRow,     \* casRow[b]: the cas_blobs row of b
  encFile,    \* the ids with a file data/buffer/<id>.enc
  msgRow      \* msgRow[i]: the messages row of i

mtaVars == <<attempt, delivered>>
handlerVars == <<mailOf, pc, todo, cur>>
diskVars == <<casFile, casRow, encFile, msgRow>>
agentVars == <<attempt, delivered, mailOf, pc, todo, cur,
               casFile, casRow, encFile, msgRow>>

Running == {"walk", "select", "insert", "row", "ok", "fail"}
RowStatus == {"none", "PENDING", "SYNCED"}
FileState == {"absent", "partial", "whole"}

AgentTypeOK ==
  /\ attempt \in [Mails -> Ids \cup {NoId}]
  /\ delivered \subseteq Mails
  /\ mailOf \in [Ids -> Mails \cup {NoMail}]
  /\ pc \in [Ids -> Running \cup {"idle", "done"}]
  /\ todo \in [Ids -> SUBSET Blobs]
  /\ cur \in [Ids -> Blobs \cup {NoBlob}]
  /\ casFile \in [Blobs -> FileState]
  /\ casRow \in [Blobs -> RowStatus]
  /\ encFile \subseteq Ids
  /\ msgRow \in [Ids -> RowStatus]
  /\ \A i \in Ids : mailOf[i] = NoMail <=> pc[i] = "idle"

AgentInit ==
  /\ attempt = [m \in Mails |-> NoId]
  /\ delivered = {}
  /\ mailOf = [i \in Ids |-> NoMail]
  /\ pc = [i \in Ids |-> "idle"]
  /\ todo = [i \in Ids |-> {}]
  /\ cur = [i \in Ids |-> NoBlob]
  /\ casFile = [b \in Blobs |-> "absent"]
  /\ casRow = [b \in Blobs |-> "none"]
  /\ encFile = {}
  /\ msgRow = [i \in Ids |-> "none"]

Goto(i, from, to) == pc[i] = from /\ pc' = [pc EXCEPT ![i] = to]

-----------------------------------------------------------------------------
(* The mail server (external).                                             *)

(* It offers mail m; the handler draws a fresh uuid for the attempt. *)
Deliver(m, i) ==
  /\ m \notin delivered /\ attempt[m] = NoId
  /\ Goto(i, "idle", "walk")
  /\ attempt' = [attempt EXCEPT ![m] = i]
  /\ mailOf' = [mailOf EXCEPT ![i] = m]
  /\ todo' = [todo EXCEPT ![i] = Attachments[m]]
  /\ NoFault /\ UNCHANGED <<delivered, cur>> /\ UNCHANGED diskVars

(* The connection drops or times out while the handler still runs.  The   *)
(* mail goes back to the queue; the reply of that attempt will be lost.   *)
MtaTimeout(m) ==
  /\ attempt[m] # NoId /\ pc[attempt[m]] \in Running
  /\ attempt' = [attempt EXCEPT ![m] = NoId]
  /\ Fault("link") /\ UNCHANGED delivered
  /\ UNCHANGED handlerVars /\ UNCHANGED diskVars

(* The handler is gone without an answer (the agent died). *)
MtaSeesClose(m) ==
  /\ attempt[m] # NoId /\ pc[attempt[m]] = "done"
  /\ attempt' = [attempt EXCEPT ![m] = NoId]
  /\ NoFault /\ UNCHANGED delivered
  /\ UNCHANGED handlerVars /\ UNCHANGED diskVars

-----------------------------------------------------------------------------
(* handle_DATA of attempt i.                                               *)

(* save_cas_blob, lines 68-75: the file is written only when none exists. *)
SaveCasFile(i, b) ==
  /\ b \in todo[i]
  /\ Goto(i, "walk", "select")
  /\ cur' = [cur EXCEPT ![i] = b]
  /\ casFile' = [casFile EXCEPT ![b] = IF @ = "absent" THEN "whole" ELSE @]
  /\ NoFault /\ UNCHANGED <<mailOf, todo, casRow, encFile, msgRow>>
  /\ UNCHANGED mtaVars

(* f.write() fails half-way (disk full): the truncated file stays under its *)
(* final name and the exception ends the attempt with a 451.                *)
TornCasWrite(i, b) ==
  /\ b \in todo[i] /\ casFile[b] = "absent"
  /\ Goto(i, "walk", "fail")
  /\ casFile' = [casFile EXCEPT ![b] = "partial"]
  /\ Fault("disk") /\ UNCHANGED <<mailOf, todo, cur, casRow, encFile, msgRow>>
  /\ UNCHANGED mtaVars

(* Mutant: the row is not looked for, the INSERT is always tried. *)
SelectNotDone(i) ==
  /\ Goto(i, "select", "insert")
  /\ casRow[cur[i]] # "none"
  /\ NoFault /\ UNCHANGED <<mailOf, todo, cur>>
  /\ UNCHANGED mtaVars /\ UNCHANGED diskVars

(* save_cas_blob, lines 79-81: a row exists, return to the walk. *)
SelectFindsRow(i) ==
  /\ Goto(i, "select", "walk")
  /\ casRow[cur[i]] # "none"
  /\ todo' = [todo EXCEPT ![i] = @ \ {cur[i]}]
  /\ cur' = [cur EXCEPT ![i] = NoBlob]
  /\ NoFault /\ UNCHANGED mailOf /\ UNCHANGED mtaVars /\ UNCHANGED diskVars

SelectFindsNothing(i) ==
  /\ Goto(i, "select", "insert")
  /\ casRow[cur[i]] = "none"
  /\ NoFault /\ UNCHANGED <<mailOf, todo, cur>>
  /\ UNCHANGED mtaVars /\ UNCHANGED diskVars

(* Mutant: the connection is closed without a commit. *)
InsertCasUncommitted(i) ==
  /\ Goto(i, "insert", "walk")
  /\ casRow[cur[i]] = "none"
  /\ todo' = [todo EXCEPT ![i] = @ \ {cur[i]}]
  /\ cur' = [cur EXCEPT ![i] = NoBlob]
  /\ NoFault /\ UNCHANGED mailOf /\ UNCHANGED mtaVars /\ UNCHANGED diskVars

(* save_cas_blob, lines 83-87: INSERT and commit. *)
InsertCas(i) ==
  /\ Goto(i, "insert", "walk")
  /\ casRow[cur[i]] = "none"
  /\ casRow' = [casRow EXCEPT ![cur[i]] = "PENDING"]
  /\ todo' = [todo EXCEPT ![i] = @ \ {cur[i]}]
  /\ cur' = [cur EXCEPT ![i] = NoBlob]
  /\ NoFault /\ UNCHANGED <<mailOf, casFile, encFile, msgRow>>
  /\ UNCHANGED mtaVars

(* Mutant: INSERT OR REPLACE, which restores the default status. *)
InsertCasReplaces(i) ==
  /\ Goto(i, "insert", "walk")
  /\ casRow[cur[i]] # "none"
  /\ casRow' = [casRow EXCEPT ![cur[i]] = "PENDING"]
  /\ todo' = [todo EXCEPT ![i] = @ \ {cur[i]}]
  /\ cur' = [cur EXCEPT ![i] = NoBlob]
  /\ NoFault /\ UNCHANGED <<mailOf, casFile, encFile, msgRow>>
  /\ UNCHANGED mtaVars

(* Another attempt inserted the hash since the SELECT: the PRIMARY KEY     *)
(* raises IntegrityError, which handle_DATA answers with a 451.            *)
InsertCasConflicts(i) ==
  /\ Goto(i, "insert", "fail")
  /\ casRow[cur[i]] # "none"
  /\ NoFault /\ UNCHANGED <<mailOf, todo, cur>>
  /\ UNCHANGED mtaVars /\ UNCHANGED diskVars

(* Mutant: the reply no longer waits for the row. *)
SaveEncFileAndReply(i) ==
  /\ todo[i] = {}
  /\ Goto(i, "walk", "ok")
  /\ encFile' = encFile \cup {i}
  /\ NoFault /\ UNCHANGED <<mailOf, todo, cur, casFile, casRow, msgRow>>
  /\ UNCHANGED mtaVars

(* All attachments are stripped; save_message, lines 34-42: the .enc file. *)
SaveEncFile(i) ==
  /\ todo[i] = {}
  /\ Goto(i, "walk", "row")
  /\ encFile' = encFile \cup {i}
  /\ NoFault /\ UNCHANGED <<mailOf, todo, cur, casFile, casRow, msgRow>>
  /\ UNCHANGED mtaVars

(* Mutant: something after the commit raises inside the handler's try. *)
InsertMessageThenRaise(i) ==
  /\ Goto(i, "row", "fail")
  /\ msgRow' = [msgRow EXCEPT ![i] = "PENDING"]
  /\ NoFault /\ UNCHANGED <<mailOf, todo, cur, casFile, casRow, encFile>>
  /\ UNCHANGED mtaVars

(* save_message, lines 45-50: the row, with the default status. *)
InsertMessage(i) ==
  /\ Goto(i, "row", "ok")
  /\ msgRow' = [msgRow EXCEPT ![i] = "PENDING"]
  /\ NoFault /\ UNCHANGED <<mailOf, todo, cur, casFile, casRow, encFile>>
  /\ UNCHANGED mtaVars

(* SQLite raises (locked, disk full) before anything is committed. *)
SqlFails(i) ==
  /\ pc[i] \in {"select", "insert", "row"}
  /\ pc' = [pc EXCEPT ![i] = "fail"]
  /\ Fault("sqlite") /\ UNCHANGED <<mailOf, todo, cur>>
  /\ UNCHANGED mtaVars /\ UNCHANGED diskVars

(* '250 OK' reaches the mail server if it still waits on this attempt. *)
Reply250(i) ==
  /\ Goto(i, "ok", "done")
  /\ LET m == mailOf[i] IN
       IF attempt[m] = i
       THEN /\ delivered' = delivered \cup {m}
            /\ attempt' = [attempt EXCEPT ![m] = NoId]
       ELSE UNCHANGED mtaVars
  /\ NoFault /\ UNCHANGED <<mailOf, todo, cur>> /\ UNCHANGED diskVars

Reply451(i) ==
  /\ Goto(i, "fail", "done")
  /\ attempt' = [attempt EXCEPT ![mailOf[i]] = IF @ = i THEN NoId ELSE @]
  /\ NoFault /\ UNCHANGED <<delivered, mailOf, todo, cur>> /\ UNCHANGED diskVars

(* The server cancels the handler of a dropped connection at its next await. *)
HandlerCancelled(i) ==
  /\ pc[i] \in Running /\ attempt[mailOf[i]] # i
  /\ pc' = [pc EXCEPT ![i] = "done"]
  /\ NoFault /\ UNCHANGED <<mailOf, todo, cur>>
  /\ UNCHANGED mtaVars /\ UNCHANGED diskVars

(* The agent process dies and supervisord restarts it: every handler is   *)
(* gone, files and committed rows stay (init_db creates only what is not  *)
(* there).                                                                *)
AgentCrash ==
  /\ \E i \in Ids : pc[i] \in Running
  /\ pc' = [i \in Ids |-> IF pc[i] = "idle" THEN "idle" ELSE "done"]
  /\ Fault("agent") /\ UNCHANGED <<mailOf, todo, cur>>
  /\ UNCHANGED mtaVars /\ UNCHANGED diskVars

-----------------------------------------------------------------------------
(* The two statements with which the sync process moves rows on.           *)

MarkSynced(i) ==
  /\ msgRow' = [msgRow EXCEPT ![i] = IF @ = "none" THEN @ ELSE "SYNCED"]
  /\ NoFault /\ UNCHANGED <<casFile, casRow, encFile>>
  /\ UNCHANGED mtaVars /\ UNCHANGED handlerVars

MarkCasSynced(b) ==
  /\ casRow' = [casRow EXCEPT ![b] = IF @ = "none" THEN @ ELSE "SYNCED"]
  /\ NoFault /\ UNCHANGED <<casFile, encFile, msgRow>>
  /\ UNCHANGED mtaVars /\ UNCHANGED handlerVars

-----------------------------------------------------------------------------
Mta == \E m \in Mails : \/ \E i \in Ids : Deliver(m, i)
                        \/ MtaTimeout(m)
                        \/ MtaSeesClose(m)

(* The steps an attempt takes by itself, faults apart. *)
Handler(i) ==
  \/ \E b \in Blobs : SaveCasFile(i, b)
  \/ SelectFindsRow(i) \/ SelectFindsNothing(i)
  \/ InsertCas(i) \/ InsertCasConflicts(i)
  \/ SaveEncFile(i) \/ InsertMessage(i)
  \/ Reply250(i) \/ Reply451(i)

HandlerFault(i) ==
  \/ \E b \in Blobs : TornCasWrite(i, b)
  \/ SqlFails(i) \/ HandlerCancelled(i)

AgentNext == \/ Mta
             \/ \E i \in Ids : Handler(i) \/ HandlerFault(i)
             \/ AgentCrash

-----------------------------------------------------------------------------
(* The agent on its own: some sync process marks rows at any time.         *)

SomeoneMarks == \/ \E i \in Ids : msgRow[i] = "PENDING" /\ MarkSynced(i)
                \/ \E b \in Blobs : casRow[b] = "PENDING" /\ MarkCasSynced(b)

bufferVars == <<faultVars, agentVars>>

BufferInit == AgentInit /\ FaultInit
BufferNext == AgentNext \/ SomeoneMarks

(* The event loop runs every ready coroutine, and the mail server retries. *)
MtaFairness == WF_bufferVars(\E m \in Mails : \/ \E i \in Ids : Deliver(m, i)
                                              \/ MtaSeesClose(m))
HandlerFairness == \A i \in Ids : WF_bufferVars(Handler(i))

BufferSpec == BufferInit /\ [][BufferNext]_bufferVars
BufferFairSpec == BufferSpec /\ MtaFairness /\ HandlerFairness

-----------------------------------------------------------------------------
BufferTypeOK == AgentTypeOK /\ FaultTypeOK

Buffered(i) == msgRow[i] # "none"

(* A mail the mail server may forget (it read a 250) has a committed row   *)
(* here, whatever crashed, timed out or conflicted on the way: the promise *)
(* of the buffer (README.md:47).                                           *)
AcceptedIsBuffered ==
  \A m \in delivered : \E i \in Ids : mailOf[i] = m /\ Buffered(i)

(* Every row names a file that exists.  The sync loop opens the files of a *)
(* whole batch (sync.py:56 and 88) and gives up the batch when one is      *)
(* missing: a row without a file would block the queue for ever.           *)
RowsHaveFiles ==
  /\ \A i \in Ids : Buffered(i) => i \in encFile
  /\ \A b \in Blobs : casRow[b] # "none" => casFile[b] # "absent"

(* The skeleton of a buffered mail refers to its attachments by hash only  *)
(* (agent.py:125): each hash has a row, or the attachment would never be   *)
(* uploaded - also when the row was inserted by an attempt that died.      *)
ReferencesHaveRows ==
  \A i \in Ids : Buffered(i) =>
    \A b \in Attachments[mailOf[i]] : casRow[b] # "none"

(* PROPERTY.  The three together: what the agent has accepted is whole. *)
BufferIsWhole == AcceptedIsBuffered /\ RowsHaveFiles /\ ReferencesHaveRows

(* A mail is buffered twice only because of a fault: the agent never       *)
(* answers 451 for a mail it has committed.                                *)
CopiesAreExplained ==
  \A m \in Mails :
    Cardinality({i \in Ids : mailOf[i] = m /\ Buffered(i)}) <= 1 + faults

(* A row that is SYNCED never returns to PENDING, although later mails     *)
(* keep saving the same hash: a blob is uploaded once per agent.           *)
StatusOnlyAdvances ==
  [][/\ \A b \in Blobs : casRow[b] = "SYNCED" => casRow'[b] = "SYNCED"
     /\ \A i \in Ids : msgRow[i] = "SYNCED" => msgRow'[i] = "SYNCED"]_bufferVars

(* Every mail is accepted in the end: a 451 caused by two first uses of    *)
(* one attachment, by a crash or by SQLite does not repeat for ever.       *)
EveryMailIsAccepted == \A m \in Mails : <>(m \in delivered)
=============================================================================
