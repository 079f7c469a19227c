-------------------------- MODULE AttachmentUpload --------------------------
(***************************************************************************)
(* One resumable upload: the client that sends the file in chunks          *)
(* (features/chat/resumableUploads.ts), the handlers of its requests       *)
(* (storage_features.go, storage_features_store.go) and the hourly cleanup *)
(* (attachment_store.go).  A request the client has given up still runs on *)
(* the server, and no transaction spans the database and the object store. *)
(*                                                                         *)
(* The object store (S3) is external: a multipart upload takes parts until *)
(* it is completed or aborted, and any call to it can fail.                *)
(***************************************************************************)
EXTENDS Naturals, FiniteSets

CONSTANTS
  Chunks,       \* chunks of the file
  Request,      \* requests the server handles at a time
  Cleaner,      \* the cleanup goroutine
  None,
  MaxFailures,  \* bound on failed calls and on answers the client does not get
  MaxBegins     \* bound on multipart uploads; a restart needs one to be left

VARIABLES
  row,          \* message_attachments and attachment_uploads, or None when deleted
  locked,       \* the handler that holds FOR UPDATE on the row
  handler,      \* request -> its step and what it has read
  multiparts,   \* id -> none, open, completed or aborted
  object,       \* the parts of the stored object, {} when there is none
  recorded,     \* the multipart ids that have been committed to the row
  client,       \* the client's promise: its step, the offset it knows, what it waits for
  session,      \* the upload's session is valid
  old,          \* 24 hours have passed
  discarded,    \* multipart ids whose row removePendingAttachment has removed
  failures

serverVars == <<row, locked, handler>>
storeVars == <<multiparts, object, recorded>>
worldVars == <<session, old, discarded>>
vars == <<serverVars, storeVars, client, worldVars, failures>>

Process == Request \cup {Cleaner}
Id == 1 .. MaxBegins
Chunk == 1 .. Chunks
State == {"creating", "uploading", "assembled", "complete", "cancelled"}
Row == [state : State, deleted : BOOLEAN, ready : BOOLEAN, sent : BOOLEAN,
        offset : 0 .. Chunks, parts : SUBSET Chunk, multipart : Id \cup {None},
        token : Request \cup {None}, leased : BOOLEAN]
Stage == {"idle", "chunk", "begun", "again", "put", "check",
          "finish", "lease", "assemble", "assembled", "complete",
          "delete", "cancel", "abort", "erase", "remove", "discard", "ok", "error"}
Handler == [stage : Stage, offset : 0 .. Chunks, state : State, multipart : Id \cup {None},
            token : Request \cup {None}]
Idle == [stage |-> "idle", offset |-> 0, state |-> "creating", multipart |-> None, token |-> None]

Client == [stage : {"paused", "sending", "waiting", "done"}, offset : 0 .. Chunks,
           request : Request \cup {None}]

ASSUME UploadAssumption ==
  /\ {Chunks, MaxFailures, MaxBegins} \subseteq Nat
  /\ None \notin Process \cup Id \cup Row /\ Cleaner \notin Request

TypeOK ==
  /\ row \in Row \cup {None} /\ locked \in Process \cup {None}
  /\ handler \in [Process -> Handler]
  /\ multiparts \in [Id -> {"none", "open", "completed", "aborted"}]
  /\ object \subseteq Chunk /\ recorded \subseteq Id
  /\ client \in Client
  /\ {session, old} \subseteq BOOLEAN /\ discarded \subseteq Id /\ failures \in 0 .. MaxFailures

\* CreateResumableUpload has reserved the attachment.
Init ==
  /\ row = [state |-> "creating", deleted |-> FALSE, ready |-> FALSE, sent |-> FALSE,
            offset |-> 0, parts |-> {}, multipart |-> None, token |-> None, leased |-> FALSE]
  /\ locked = None /\ handler = [r \in Process |-> Idle]
  /\ multiparts = [i \in Id |-> "none"] /\ object = {} /\ recorded = {}
  /\ client = [stage |-> "sending", offset |-> 0, request |-> None]
  /\ session = TRUE /\ old = FALSE /\ discarded = {} /\ failures = 0

-----------------------------------------------------------------------------
(* The client                                                              *)

\* What uploadSelect finds: whose session the upload is of, not whether it is
\* still valid.
Visible == row # None /\ ~row.deleted /\ (~old \/ row.state = "complete")

\* A request is looked at for its session as it comes in (uploadSession).
Ask(r, stage) ==
  /\ handler[r].stage = "idle"
  /\ handler' = [handler EXCEPT ![r] =
       [Idle EXCEPT !.stage = IF session THEN stage ELSE "error", !.offset = client.offset]]
  /\ client' = [client EXCEPT !.stage = "waiting", !.request = r]
  /\ UNCHANGED <<row, locked, storeVars, worldVars, failures>>

\* uploadResumableAttachment: the status is read before anything is sent again.
Resume ==
  /\ client.stage = "paused" /\ session /\ Visible
  /\ client' = [client EXCEPT !.stage = IF row.state = "complete" THEN "done" ELSE "sending",
                              !.offset = row.offset]
  /\ UNCHANGED <<serverVars, storeVars, worldVars, failures>>

PutChunkBeyond(r) == client.stage = "sending" /\ client.offset <= Chunks /\ Ask(r, "chunk")
PutChunk(r) == client.stage = "sending" /\ client.offset < Chunks /\ Ask(r, "chunk")
Complete(r) == client.stage = "sending" /\ client.offset = Chunks /\ Ask(r, "finish")
CancelUpload(r) == client.stage = "paused" /\ Ask(r, "delete")

\* A chunk that is confirmed is followed by the next; anything but a success
\* ends the promise, and the user may retry.
Answered ==
  LET h == handler[client.request] IN
  /\ client.stage = "waiting" /\ h.stage \in {"ok", "error"}
  /\ handler' = [handler EXCEPT ![client.request] = Idle]
  /\ client' = [client EXCEPT
       !.request = None,
       !.offset = IF h.stage = "ok" THEN h.offset ELSE @,
       !.stage = CASE h.stage = "error" -> "paused"
                   [] h.stage = "ok" /\ h.state = "complete" -> "done"
                   [] OTHER -> "sending"]
  /\ UNCHANGED <<row, locked, storeVars, worldVars, failures>>

Failure == failures < MaxFailures /\ failures' = failures + 1

\* Paused, timed out or disconnected: nobody waits for the handler any more.
Interrupted ==
  /\ client.stage = "waiting" /\ Failure
  /\ client' = [client EXCEPT !.stage = "paused", !.request = None]
  /\ UNCHANGED <<serverVars, storeVars, worldVars>>

-----------------------------------------------------------------------------
(* Handlers                                                                *)

To(r, stage) == handler' = [handler EXCEPT ![r].stage = stage]
\* An answer nobody waits for is gone.
End(r, stage) ==
  handler' = [handler EXCEPT ![r] =
    IF client.request = r THEN [@ EXCEPT !.stage = stage] ELSE Idle]
Confirm(r) ==
  handler' = [handler EXCEPT ![r] =
    IF client.request = r THEN [@ EXCEPT !.stage = "ok", !.state = "complete"] ELSE Idle]
Lock(r) == locked = None /\ locked' = r
Unlocked == locked = None
Quietly == UNCHANGED <<client, worldVars, failures>>

\* uploadChunk, up to its first call to the object store: the row is locked from
\* here on, and a chunk that is already there is confirmed again.
Expected(h) == Visible /\ h.offset = row.offset /\ row.state \in {"creating", "uploading"}
ReadChunk(r) ==
  LET h == handler[r]
      stored == Visible /\ h.offset < row.offset IN
  /\ h.stage = "chunk" /\ Unlocked
  /\ \/ /\ stored
        /\ handler' = [handler EXCEPT ![r] =
             IF client.request = r THEN [h EXCEPT !.stage = "ok", !.offset = row.offset] ELSE Idle]
        /\ UNCHANGED <<locked, multiparts>>
     \/ /\ Expected(h) /\ row.multipart # None
        /\ handler' = [handler EXCEPT ![r].stage = "put", ![r].multipart = row.multipart]
        /\ Lock(r) /\ UNCHANGED multiparts
     \/ /\ Expected(h) /\ row.multipart = None
        /\ \E i \in Id :
             /\ multiparts[i] = "none" /\ \A j \in Id : j < i => multiparts[j] # "none"
             /\ multiparts' = [multiparts EXCEPT ![i] = "open"]
             /\ handler' = [handler EXCEPT ![r].stage = "begun", ![r].multipart = i]
        /\ Lock(r)
     \/ /\ ~stored /\ ~Expected(h)
        /\ End(r, "error") /\ UNCHANGED <<locked, multiparts>>
  /\ UNCHANGED <<row, object, recorded>> /\ Quietly

\* The multipart upload is committed before any part is sent, which lets go of
\* the row for a moment.
RecordMultipart(r) ==
  /\ handler[r].stage = "begun"
  /\ row' = [row EXCEPT !.multipart = handler[r].multipart, !.state = "uploading"]
  /\ recorded' = recorded \cup {handler[r].multipart}
  /\ locked' = None /\ To(r, "again")
  /\ UNCHANGED <<multiparts, object>> /\ Quietly

LockAgain(r) ==
  /\ handler[r].stage = "again" /\ Unlocked
  /\ IF Visible /\ row.offset = handler[r].offset /\ row.state = "uploading"
     THEN Lock(r) /\ handler' = [handler EXCEPT ![r].stage = "put", ![r].multipart = row.multipart]
     ELSE End(r, "error") /\ UNCHANGED locked
  /\ UNCHANGED <<row, storeVars>> /\ Quietly

\* The part is stored and recorded.
StorePart(r) ==
  LET h == handler[r] IN
  /\ h.stage = "put" /\ multiparts[h.multipart] = "open"
  /\ row' = [row EXCEPT !.parts = @ \cup {h.offset + 1}, !.offset = h.offset + 1,
                        !.state = "uploading"]
  /\ handler' = [handler EXCEPT ![r].stage = "check", ![r].offset = @ + 1]
  /\ locked' = None
  /\ UNCHANGED storeVars /\ Quietly

\* The session is looked at again after the bytes have been stored.
CheckAgain(r) ==
  /\ handler[r].stage = "check"
  /\ IF session THEN End(r, "ok") ELSE To(r, "cancel")
  /\ UNCHANGED <<row, locked, storeVars>> /\ Quietly

\* finishResumable: what it reads, and the lease that makes it the only one.
ReadFinish(r) ==
  LET complete == Visible /\ row.state = "complete"
      whole == Visible /\ row.offset = Chunks /\ row.multipart # None IN
  /\ handler[r].stage = "finish"
  /\ \/ complete /\ Confirm(r)
     \/ /\ whole /\ ~complete
        /\ handler' = [handler EXCEPT ![r].stage = "lease", ![r].multipart = row.multipart,
                                      ![r].state = row.state]
     \/ ~whole /\ ~complete /\ End(r, "error")
  /\ UNCHANGED <<row, locked, storeVars>> /\ Quietly

MayLease ==
  /\ row # None /\ ~row.deleted /\ row.state \in {"uploading", "assembled"}
  /\ row.token = None \/ ~row.leased
TakeLease(r) ==
  /\ handler[r].stage = "lease" /\ Unlocked
  /\ IF MayLease
     THEN /\ row' = [row EXCEPT !.token = r, !.leased = TRUE]
          /\ handler' = [handler EXCEPT ![r].token = r,
               ![r].stage = IF handler[r].state = "assembled" THEN "complete" ELSE "assemble"]
     ELSE /\ UNCHANGED row
          /\ IF Visible /\ row.state = "complete" THEN Confirm(r) ELSE End(r, "error")
  /\ UNCHANGED <<locked, storeVars>> /\ Quietly

Released(r) == IF row # None /\ row.token = r THEN [row EXCEPT !.token = None] ELSE row

\* CompleteMultipart; an error does not matter when the object is there.
Assemble(r) ==
  LET h == handler[r] IN
  /\ h.stage = "assemble"
  /\ \/ /\ multiparts[h.multipart] = "open"
        /\ multiparts' = [multiparts EXCEPT ![h.multipart] = "completed"]
        /\ object' = IF row = None THEN {} ELSE row.parts
        /\ To(r, "assembled") /\ UNCHANGED row
     \/ /\ multiparts[h.multipart] # "open" /\ Cardinality(object) = Chunks
        /\ To(r, "assembled") /\ UNCHANGED <<row, multiparts, object>>
     \/ /\ multiparts[h.multipart] # "open" /\ Cardinality(object) # Chunks
        /\ End(r, "error") /\ row' = Released(r) /\ UNCHANGED <<multiparts, object>>
  /\ UNCHANGED <<locked, recorded>> /\ Quietly

Mine(r) == row # None /\ ~row.deleted /\ row.token = r /\ row.leased

MarkAssembled(r) ==
  /\ handler[r].stage = "assembled" /\ Unlocked
  /\ IF Mine(r) /\ row.state \in {"uploading", "assembled"}
     THEN row' = [row EXCEPT !.state = "assembled"] /\ To(r, "complete")
     ELSE /\ UNCHANGED row
          /\ IF Visible /\ row.state = "complete" THEN Confirm(r) ELSE To(r, "cancel")
  /\ UNCHANGED <<locked, storeVars>> /\ Quietly

\* CompleteResumable, after the last look at the session.
CompleteResumable(r) ==
  /\ handler[r].stage = "complete" /\ Unlocked
  /\ IF session /\ Mine(r) /\ row.state = "assembled" /\ row.offset = Chunks
     THEN /\ row' = [row EXCEPT !.state = "complete", !.ready = TRUE, !.token = None]
          /\ Confirm(r)
     ELSE UNCHANGED row /\ To(r, "cancel")
  /\ UNCHANGED <<locked, storeVars>> /\ Quietly

-----------------------------------------------------------------------------
(* cancelResumable, which every way out ends with                          *)

ReadCancel(r) ==
  /\ handler[r].stage = "delete"
  /\ IF Visible
     THEN handler' = [handler EXCEPT ![r].stage = "cancel", ![r].multipart = row.multipart]
     ELSE End(r, "error")
  /\ UNCHANGED <<row, locked, storeVars>> /\ Quietly

MayCancelSent(h) == row # None /\ (h.token = None \/ row.token = h.token)
MayCancel(h) == row # None /\ ~row.sent /\ (h.token = None \/ row.token = h.token)
Tombstone(r) ==
  /\ handler[r].stage = "cancel" /\ Unlocked
  /\ IF MayCancel(handler[r])
     THEN /\ row' = [row EXCEPT !.state = "cancelled",
                                !.deleted = @ \/ ~row.sent, !.ready = @ \/ ~row.sent]
          /\ To(r, IF handler[r].multipart = None THEN "erase" ELSE "abort")
     ELSE row' = Released(r) /\ End(r, "error")
  /\ UNCHANGED <<locked, storeVars>> /\ Quietly

\* The id is forgotten only when the object store has no such upload any more.
Forgotten == IF row # None /\ row.state = "cancelled" THEN [row EXCEPT !.multipart = None] ELSE row
AbortMultipart(r) ==
  LET i == handler[r].multipart IN
  /\ handler[r].stage = "abort" /\ Unlocked
  /\ multiparts' = [multiparts EXCEPT ![i] = IF @ = "open" THEN "aborted" ELSE @]
  /\ row' = Forgotten /\ To(r, "erase")
  /\ UNCHANGED <<locked, object, recorded>> /\ Quietly

Erase(r) ==
  /\ handler[r].stage = "erase"
  /\ object' = {}
  /\ row' = Released(r) /\ End(r, "error")
  /\ UNCHANGED <<locked, multiparts, recorded>> /\ Quietly

-----------------------------------------------------------------------------
(* Failures                                                                *)

\* A call to the database or the object store fails, or the request's context is
\* cancelled: the transaction is rolled back, a multipart upload that was just
\* begun is aborted, a lease is given back. Where the session and the right to
\* post are looked at again, or the upload is completed, a failure cancels the
\* upload instead; until then a scan may fail with no more than an error.
AbortLost(r) ==
  multiparts' = IF handler[r].stage = "begun"
                THEN [multiparts EXCEPT ![handler[r].multipart] = "aborted"] ELSE multiparts
Fails(r) ==
  /\ handler[r].stage \notin {"idle", "ok", "error", "check", "abort", "erase"} /\ Failure
  /\ locked' = IF locked = r THEN None ELSE locked
  /\ row' = Released(r) /\ AbortLost(r) /\ End(r, "error")
  /\ UNCHANGED <<object, recorded, client, worldVars>>

FailsToCancel(r) ==
  /\ handler[r].stage \in {"check", "complete"} /\ Failure
  /\ To(r, "cancel")
  /\ UNCHANGED <<row, locked, storeVars, client, worldVars>>

\* cancelResumable goes on when the store cannot abort; what it could not do is
\* left to the cleanup.
StoreFails(r) ==
  /\ handler[r].stage \in {"abort", "erase"} /\ Failure
  /\ \/ handler[r].stage = "abort" /\ To(r, "erase") /\ UNCHANGED row
     \/ handler[r].stage = "erase" /\ End(r, "error") /\ row' = Released(r)
  /\ UNCHANGED <<locked, storeVars, client, worldVars>>

\* CompleteMultipart reaches the store, its answer does not reach the handler.
AnswerLost(r) ==
  LET i == handler[r].multipart IN
  /\ handler[r].stage = "assemble" /\ multiparts[i] = "open" /\ Failure
  /\ multiparts' = [multiparts EXCEPT ![i] = "completed"]
  /\ object' = IF row = None THEN {} ELSE row.parts
  /\ row' = Released(r) /\ End(r, "error")
  /\ UNCHANGED <<locked, recorded, client, worldVars>>

\* The server stops: transactions are rolled back, everything else is as the
\* calls before it have left it.
Restart ==
  /\ Failure
  /\ locked' = None /\ handler' = [r \in Process |-> Idle]
  /\ client' = IF client.stage = "waiting"
               THEN [client EXCEPT !.stage = "paused", !.request = None] ELSE client
  /\ UNCHANGED <<row, storeVars, worldVars>>

-----------------------------------------------------------------------------
(* The user, the clock and the cleanup                                     *)

Send ==
  /\ row # None /\ row.ready /\ ~row.deleted /\ ~row.sent /\ ~old /\ Unlocked
  /\ row' = [row EXCEPT !.sent = TRUE]
  /\ UNCHANGED <<locked, handler, storeVars>> /\ Quietly
DeleteMessage ==
  /\ row # None /\ row.sent /\ ~row.deleted /\ Unlocked
  /\ row' = [row EXCEPT !.deleted = TRUE]
  /\ UNCHANGED <<locked, handler, storeVars>> /\ Quietly

\* DELETE of a file that is not sent yet (CancelPendingAttachment), the
\* tombstone of a cancelled upload included, or of a sent one
\* (DeleteLibraryFile).
Discard(r) ==
  /\ handler[r].stage = "idle" /\ Unlocked
  /\ row # None /\ row.ready /\ (row.sent => ~row.deleted)
  /\ row' = [row EXCEPT !.deleted = TRUE] /\ To(r, "discard")
  /\ UNCHANGED <<locked, storeVars>> /\ Quietly

\* The object is deleted and then the row, which a lease keeps as long as the
\* file is not sent (removePendingAttachment), and so does a failure. (Nothing
\* that happens between the two tells them apart: only a finalization writes the
\* object, and it has a lease.)
DiscardRow(r) ==
  /\ handler[r].stage = "discard" /\ Unlocked
  /\ object' = {} /\ End(r, "ok")
  /\ IF row # None /\ (row.sent \/ ~row.leased)
     THEN /\ row' = None
          /\ discarded' = discarded \cup ({row.multipart} \ {None})
     ELSE UNCHANGED <<row, discarded>>
  /\ UNCHANGED <<locked, multiparts, recorded, client, session, old, failures>>
DiscardRowFails(r) ==
  /\ handler[r].stage = "discard" /\ Failure
  /\ object' = {} /\ End(r, "ok")
  /\ UNCHANGED <<row, locked, multiparts, recorded, client, worldVars>>
EndSession ==
  /\ session /\ session' = FALSE
  /\ UNCHANGED <<serverVars, storeVars, client, old, discarded, failures>>
DayPasses ==
  /\ ~old /\ old' = TRUE
  /\ UNCHANGED <<serverVars, storeVars, client, session, discarded, failures>>

\* A finalization gives up a minute before its lease ends.
Finalizing(r) == handler[r].token # None /\ handler[r].stage \notin {"ok", "error"}
LeaseEnds ==
  /\ row # None /\ row.leased /\ \A r \in Request : ~Finalizing(r)
  /\ row' = [row EXCEPT !.leased = FALSE]
  /\ UNCHANGED <<locked, handler, storeVars>> /\ Quietly

\* CleanStorageFeatures: what is stale is listed, then cancelled like any other.
Unfinished == row.state \notin {"complete", "cancelled"} /\ (old \/ row.deleted \/ ~session)
IsStaleOnce == Unfinished
IsStale == Unfinished \/ (row.state = "cancelled" /\ row.multipart # None)
CleanStorageFeatures ==
  /\ handler[Cleaner].stage = "idle" /\ row # None /\ IsStale
  /\ handler' = [handler EXCEPT ![Cleaner] =
       [Idle EXCEPT !.stage = "cancel", !.multipart = row.multipart]]
  /\ UNCHANGED <<row, locked, storeVars>> /\ Quietly

\* CleanPendingAttachments: the object first, then the row that names it.
Unwanted == (~row.sent /\ old) \/ (row.ready /\ row.deleted)
MayRemoveAny == row.state \in {"complete", "cancelled"} /\ ~row.leased /\ Unwanted
MayRemove ==
  /\ row.state = "complete" \/ (row.state = "cancelled" /\ row.multipart = None)
  /\ ~row.leased /\ Unwanted
CleanPendingAttachments ==
  /\ handler[Cleaner].stage = "idle" /\ row # None /\ MayRemove /\ Lock(Cleaner)
  /\ object' = {} /\ To(Cleaner, "remove")
  /\ UNCHANGED <<row, multiparts, recorded>> /\ Quietly
RemoveRow ==
  /\ handler[Cleaner].stage = "remove"
  /\ row' = None /\ locked' = None /\ To(Cleaner, "idle")
  /\ UNCHANGED storeVars /\ Quietly

Handle(r) ==
  \/ ReadChunk(r) \/ RecordMultipart(r) \/ LockAgain(r) \/ StorePart(r) \/ CheckAgain(r)
  \/ ReadFinish(r) \/ TakeLease(r) \/ Assemble(r) \/ MarkAssembled(r) \/ CompleteResumable(r)
  \/ ReadCancel(r) \/ Tombstone(r) \/ AbortMultipart(r) \/ Erase(r) \/ DiscardRow(r)

Cleanup == CleanStorageFeatures \/ CleanPendingAttachments \/ RemoveRow

Next ==
  \/ \E r \in Request : PutChunk(r) \/ Complete(r) \/ CancelUpload(r) \/ Discard(r)
  \/ Resume \/ Answered \/ Interrupted
  \/ \E r \in Process : Handle(r) \/ Fails(r) \/ FailsToCancel(r) \/ StoreFails(r) \/ AnswerLost(r)
                       \/ DiscardRowFails(r)
  \/ Restart \/ Send \/ DeleteMessage \/ EndSession \/ DayPasses \/ LeaseEnds \/ Cleanup

\* Handlers run, leases end and the cleanup comes round every hour.
Fairness ==
  /\ \A r \in Process : WF_vars(Handle(r))
  /\ WF_vars(LeaseEnds) /\ WF_vars(Cleanup)

Spec == Init /\ [][Next]_vars
FairSpec == Spec /\ Fairness

-----------------------------------------------------------------------------
\* A file that can be sent or downloaded is the file that was uploaded: all of
\* its chunks, in one stored object, whatever was retried, given up, cancelled
\* or restarted on the way (uploadChunk, finishResumable, cancelResumable).
Kept == row # None /\ row.ready /\ ~row.deleted /\ (row.sent \/ ~old)
ReadyIsWhole == Kept => object = Chunk

\* Nothing is left in the object store that no row names: the row goes last
\* (cancelResumable keeps "the committed tombstone until the ordinary cleanup
\* worker verifies object deletion"). The exception is a multipart upload that a
\* cancellation could not abort and whose file the user then deletes
\* (deletePendingAttachment): removePendingAttachment does not look at it.
NothingUnnamed ==
  row = None => object = {} /\ \A i \in recorded \ discarded : multiparts[i] # "open"

\* An upload whose session ends before it is complete is removed with all it has
\* stored, and so is one that was cancelled or deleted, or not sent in a day, even
\* when the object store fails or the server restarts half-way
\* (CleanStorageFeatures, CleanPendingAttachments).
Abandoned == (~session /\ ~Kept) \/ (row # None /\ (row.deleted \/ (old /\ ~row.sent)))
AbandonedIsErased == Abandoned ~> (row = None)
=============================================================================
