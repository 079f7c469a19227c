----------------------- MODULE AttachmentUpload_proofs -----------------------
(***************************************************************************)
(* Theorems about AttachmentUpload, for any number of chunks, requests,    *)
(* failures and multipart uploads.                                         *)
(***************************************************************************)
EXTENDS AttachmentUpload, FiniteSetTheorems, TLAPS

-----------------------------------------------------------------------------
(* What the helpers of the handlers do to the request they end or move.    *)
LEMMA Ended ==
  ASSUME TypeOK, NEW r \in Process, NEW stage \in {"ok", "error"}, End(r, stage)
  PROVE  /\ handler' \in [Process -> Handler]
         /\ \A q \in Process : q # r => handler'[q] = handler[q]
         /\ \/ handler'[r] = Idle
            \/ r = client.request /\ handler'[r].stage = stage
<1>1. Idle \in Handler
  BY UploadAssumption DEF Idle, Handler, Stage, State
<1>2. [handler[r] EXCEPT !.stage = stage] \in Handler
  BY DEF TypeOK, Handler, Stage
<1>3. [handler[r] EXCEPT !.stage = stage].stage = stage
  BY DEF TypeOK, Handler
<1> HIDE DEF Idle, Handler
<1>4. handler' = [handler EXCEPT ![r] =
        IF client.request = r THEN [handler[r] EXCEPT !.stage = stage] ELSE Idle]
  BY DEF End, TypeOK
<1> QED BY <1>1, <1>2, <1>3, <1>4 DEF TypeOK

LEMMA Confirmed ==
  ASSUME TypeOK, NEW r \in Process, Confirm(r)
  PROVE  /\ handler' \in [Process -> Handler]
         /\ \A q \in Process : q # r => handler'[q] = handler[q]
         /\ \/ handler'[r] = Idle
            \/ r = client.request /\ handler'[r].stage = "ok"
<1>1. Idle \in Handler
  BY UploadAssumption DEF Idle, Handler, Stage, State
<1>2. [handler[r] EXCEPT !.stage = "ok", !.state = "complete"] \in Handler
  <2>1. handler[r] \in Handler /\ "ok" \in Stage /\ "complete" \in State
    BY DEF TypeOK, Stage, State
  <2> QED BY <2>1 DEF Handler
<1>3. [handler[r] EXCEPT !.stage = "ok", !.state = "complete"].stage = "ok"
  BY DEF TypeOK, Handler
<1> HIDE DEF Idle, Handler
<1>4. handler' = [handler EXCEPT ![r] =
        IF client.request = r THEN [handler[r] EXCEPT !.stage = "ok", !.state = "complete"] ELSE Idle]
  BY DEF Confirm, TypeOK
<1> QED BY <1>1, <1>2, <1>3, <1>4 DEF TypeOK

LEMMA Moved ==
  ASSUME TypeOK, NEW r \in Process, NEW stage \in Stage, To(r, stage)
  PROVE  /\ handler' \in [Process -> Handler]
         /\ \A q \in Process : q # r => handler'[q] = handler[q]
         /\ handler'[r].stage = stage
         /\ handler'[r].offset = handler[r].offset
         /\ handler'[r].multipart = handler[r].multipart
         /\ handler'[r].token = handler[r].token
         /\ handler'[r].state = handler[r].state
BY DEF TypeOK, To, Handler

LEMMA EditedRow ==
  ASSUME NEW x \in Row
  PROVE  /\ \A state \in State : [x EXCEPT !.state = state] \in Row
         /\ [x EXCEPT !.token = None] \in Row /\ [x EXCEPT !.leased = FALSE] \in Row
         /\ \A r \in Request : [x EXCEPT !.token = r, !.leased = TRUE] \in Row
         /\ [x EXCEPT !.sent = TRUE] \in Row /\ [x EXCEPT !.deleted = TRUE] \in Row
         /\ [x EXCEPT !.multipart = None] \in Row
         /\ \A i \in Id : [x EXCEPT !.multipart = i, !.state = "uploading"] \in Row
         /\ [x EXCEPT !.state = "complete", !.ready = TRUE, !.token = None] \in Row
         /\ \A d, q \in BOOLEAN : [x EXCEPT !.state = "cancelled", !.deleted = d, !.ready = q] \in Row
BY DEF Row, State

(* An upload whose lease is given back is otherwise as it was.             *)
LEMMA ReleasedRow ==
  ASSUME TypeOK, NEW r \in Process
  PROVE  /\ Released(r) \in Row \cup {None}
         /\ Released(r) = None <=> row = None
         /\ row # None =>
              /\ Released(r).state = row.state /\ Released(r).deleted = row.deleted
              /\ Released(r).ready = row.ready /\ Released(r).sent = row.sent
              /\ Released(r).offset = row.offset /\ Released(r).parts = row.parts
              /\ Released(r).multipart = row.multipart /\ Released(r).leased = row.leased
              /\ Released(r).token = IF row.token = r THEN None ELSE row.token
BY UploadAssumption DEF TypeOK, Released, Row

-----------------------------------------------------------------------------
(* A client that waits, waits for one of the requests.                     *)
Waits == client.stage = "waiting" => client.request # None

(* Who is about to change the row holds its lock, and nobody takes a row   *)
(* away while a handler holds it; only a chunk that is there still is sent,*)
(* and the cleanup's own handler does nothing but clean up.                *)
Holds(r) ==
  /\ handler[r].stage \in {"begun", "put", "remove"} => locked = r /\ row # None
  /\ handler[r].stage \in {"chunk", "begun", "again", "put"} => handler[r].offset < Chunks
  /\ handler[r].stage = "begun" => handler[r].multipart # None
  /\ handler[r].stage = "remove" => r = Cleaner
  /\ r = Cleaner => handler[r].stage \in {"idle", "cancel", "abort", "erase", "remove"}

Held == \A r \in Process : Holds(r)

(* No step changes the type of a variable.                                 *)
LEMMA TypeStep ==
  ASSUME TypeOK, Waits, Held, [Next]_vars PROVE TypeOK' /\ Waits'
<1> USE UploadAssumption
<1>0. /\ Idle \in Handler
      /\ \A r \in Process : handler[r] \in Handler
  BY DEF Idle, Handler, Stage, State, TypeOK
<1>0a. ASSUME NEW request \in Request \cup {None},
              NEW stage \in {"paused", "sending", "waiting", "done"}
       PROVE  /\ [client EXCEPT !.stage = stage, !.request = request] \in Client
              /\ [client EXCEPT !.stage = stage, !.request = request].stage = stage
              /\ [client EXCEPT !.stage = stage, !.request = request].request = request
  BY DEF TypeOK, Client
<1>0b. row # None => /\ row \in Row /\ row.offset \in 0 .. Chunks
                     /\ row.multipart \in Id \cup {None} /\ row.state \in State
  BY DEF TypeOK, Row
<1>0c. ASSUME client' = client PROVE Waits'
  BY <1>0c DEF Waits
<1>1. ASSUME NEW r \in Request, PutChunk(r) \/ Complete(r) \/ CancelUpload(r)
      PROVE  TypeOK' /\ Waits'
  <2>0. PICK asked \in Stage : Ask(r, asked)
    BY <1>1 DEF PutChunk, Complete, CancelUpload, Stage
  <2>1. PICK stage \in Stage :
          /\ handler' = [handler EXCEPT ![r] =
               [Idle EXCEPT !.stage = stage, !.offset = client.offset]]
          /\ client' = [client EXCEPT !.stage = "waiting", !.request = r]
          /\ UNCHANGED <<row, locked, storeVars, worldVars, failures>>
    <3>1. (IF session THEN asked ELSE "error") \in Stage
      BY DEF Stage
    <3> QED BY <2>0, <3>1 DEF Ask
  <2>2. [Idle EXCEPT !.stage = stage, !.offset = client.offset] \in Handler
    <3>1. client.offset \in 0 .. Chunks
      BY DEF TypeOK, Client
    <3> QED BY <1>0, <3>1 DEF Handler
  <2>3. r # None
    BY DEF Process
  <2> QED BY <1>0a, <2>1, <2>2, <2>3 DEF TypeOK, Process, Waits, storeVars, worldVars
<1>2. CASE Resume
  <2>1. ASSUME NEW stage \in {"done", "sending"}, NEW offset \in 0 .. Chunks
        PROVE  /\ [client EXCEPT !.stage = stage, !.offset = offset] \in Client
               /\ [client EXCEPT !.stage = stage, !.offset = offset].stage = stage
    BY DEF TypeOK, Client
  <2>2. row.offset \in 0 .. Chunks
    BY <1>0b, <1>2 DEF Resume, Visible
  <2>3. client' \in Client /\ client'.stage # "waiting"
    BY <1>2, <2>1, <2>2 DEF Resume
  <2> QED BY <1>2, <2>3 DEF Resume, TypeOK, Waits, serverVars, storeVars, worldVars
<1>3. CASE Answered
  <2>1. client.request \in Process \cup {None}
    BY DEF TypeOK, Process, Client
  <2>2. handler' \in [Process -> Handler]
    BY <1>0, <1>3 DEF Answered, TypeOK
  <2>3. client.request \in Process /\ handler[client.request].offset \in 0 .. Chunks
    BY <1>0, <1>3, <2>1 DEF Answered, Waits, Handler
  <2>4. ASSUME NEW offset \in 0 .. Chunks, NEW stage \in {"paused", "sending", "done"}
        PROVE  LET c == [client EXCEPT !.request = None, !.offset = offset, !.stage = stage]
               IN c \in Client /\ c.stage = stage
    BY DEF TypeOK, Client
  <2>5. client.offset \in 0 .. Chunks
    BY DEF TypeOK, Client
  <2>6. client' \in Client /\ client'.stage # "waiting"
    BY <1>3, <2>3, <2>4, <2>5 DEF Answered
  <2> QED BY <1>3, <2>2, <2>6 DEF Answered, TypeOK, Waits, storeVars, worldVars
<1>4. CASE Interrupted
  <2>1. failures' \in 0 .. MaxFailures
    BY <1>4 DEF Interrupted, Failure, TypeOK
  <2>2. client' \in Client /\ client'.stage # "waiting"
    BY <1>0a, <1>4 DEF Interrupted
  <2> QED BY <1>4, <2>1, <2>2 DEF Interrupted, TypeOK, Waits, serverVars, storeVars, worldVars
<1>5. ASSUME NEW r \in Process, Handle(r) PROVE TypeOK' /\ Waits'
  <2> USE DEF Quietly, worldVars, storeVars, Unlocked
  <2>0. /\ handler[r] \in Handler
        /\ handler[r].multipart \in Id \cup {None} /\ handler[r].offset \in 0 .. Chunks
        /\ \A stage \in Stage, i \in Id \cup {None} :
             [handler[r] EXCEPT !.stage = stage, !.multipart = i] \in Handler
        /\ \A stage \in Stage, q \in Request :
             [handler[r] EXCEPT !.token = q, !.stage = stage] \in Handler
    BY <1>0 DEF Handler
  <2>1. CASE ReadChunk(r)
    <3>1. locked' \in Process \cup {None}
      BY <2>1 DEF ReadChunk, Lock, TypeOK
    <3>2. multiparts' \in [Id -> {"none", "open", "completed", "aborted"}]
      BY <2>1 DEF ReadChunk, TypeOK
    <3>3. handler' \in [Process -> Handler]
      <4>1. CASE Visible /\ handler[r].offset < row.offset
        <5>1. [handler[r] EXCEPT !.stage = "ok", !.offset = row.offset] \in Handler
          BY <1>0, <1>0b, <4>1 DEF Handler, Stage, Visible
        <5>2. ~Expected(handler[r])
          <6>1. handler[r].offset \in Nat /\ row.offset \in Nat
            <7>1. row.offset \in 0 .. Chunks /\ handler[r].offset \in 0 .. Chunks
              BY <1>0b, <2>0, <4>1 DEF Visible
            <7> QED BY <7>1
          <6> QED BY <4>1, <6>1 DEF Expected
        <5>3. handler' = [handler EXCEPT ![r] =
                IF client.request = r THEN [handler[r] EXCEPT !.stage = "ok", !.offset = row.offset]
                ELSE Idle]
          BY <2>1, <4>1, <5>2 DEF ReadChunk
        <5> QED BY <1>0, <5>1, <5>3 DEF TypeOK
      <4>2. CASE Expected(handler[r]) /\ ~(Visible /\ handler[r].offset < row.offset)
        <5>1. ASSUME NEW stage \in Stage, NEW i \in Id \cup {None},
                     handler' = [handler EXCEPT ![r].stage = stage, ![r].multipart = i]
              PROVE  handler' \in [Process -> Handler]
          BY <2>0, <5>1 DEF TypeOK
        <5>2. row.multipart \in Id \cup {None} /\ {"put", "begun"} \subseteq Stage
          BY <1>0b, <4>2 DEF Expected, Visible, Stage
        <5> QED BY <2>1, <4>2, <5>1, <5>2 DEF ReadChunk
      <4>3. CASE ~Expected(handler[r]) /\ ~(Visible /\ handler[r].offset < row.offset)
        BY <2>1, <4>3, Ended DEF ReadChunk
      <4> QED BY <4>1, <4>2, <4>3
    <3> QED BY <1>0c, <2>1, <3>1, <3>2, <3>3 DEF ReadChunk, TypeOK
  <2>2. CASE RecordMultipart(r)
    <3>1. row \in Row /\ handler[r].multipart \in Id
      BY <1>0, <1>0b, <2>0, <2>2 DEF RecordMultipart, Held, Holds
    <3>2. \A i \in Id \cup {None} : [row EXCEPT !.multipart = i, !.state = "uploading"] \in Row
      BY <3>1 DEF Row, State
    <3>3. handler' \in [Process -> Handler]
      BY <2>2, Moved DEF RecordMultipart, Stage
    <3>4. row' \in Row
      BY <2>2, <3>1, <3>2 DEF RecordMultipart
    <3> QED BY <1>0c, <2>2, <3>1, <3>3, <3>4 DEF RecordMultipart, TypeOK
  <2>3. CASE LockAgain(r)
    <3>1. CASE Visible /\ row.offset = handler[r].offset /\ row.state = "uploading"
      <4>1. row.multipart \in Id \cup {None}
        BY <1>0b, <3>1 DEF Visible
      <4> QED BY <1>0c, <2>0, <2>3, <3>1, <4>1 DEF LockAgain, TypeOK, Stage, Lock
    <3>2. CASE ~(Visible /\ row.offset = handler[r].offset /\ row.state = "uploading")
      BY <1>0c, <2>3, <3>2, Ended DEF LockAgain, TypeOK
    <3> QED BY <3>1, <3>2
  <2>4. CASE StorePart(r)
    <3> DEFINE h == handler[r]
    <3>1. /\ row \in Row /\ h \in Handler /\ h.offset \in 0 .. Chunks
          /\ h.offset < Chunks /\ Chunks \in Nat
      BY <1>0, <1>0b, <2>0, <2>4 DEF StorePart, Held, Holds
    <3>2. h.offset + 1 \in 0 .. Chunks /\ h.offset + 1 \in Chunk
      BY <3>1 DEF Chunk
    <3>3. row' = [row EXCEPT !.parts = row.parts \cup {h.offset + 1}, !.offset = h.offset + 1,
                             !.state = "uploading"]
      BY <2>4 DEF StorePart
    <3>4. handler' = [handler EXCEPT ![r].stage = "check", ![r].offset = h.offset + 1]
      BY <2>4 DEF StorePart
    <3> HIDE DEF h
    <3>5. row' \in Row
      BY <3>1, <3>2, <3>3 DEF Row, State
    <3>6. [h EXCEPT !.stage = "check", !.offset = h.offset + 1] \in Handler
      <4>1. "check" \in Stage
        BY DEF Stage
      <4> QED BY <3>1, <3>2, <4>1 DEF Handler
    <3>7. handler' \in [Process -> Handler]
      BY <3>4, <3>6 DEF TypeOK, h
    <3> QED BY <1>0c, <2>4, <3>5, <3>7 DEF StorePart, TypeOK
  <2>5. CASE CheckAgain(r)
    BY <1>0c, <2>5, Ended, Moved DEF CheckAgain, TypeOK, Stage
  <2>6. CASE ReadFinish(r)
    <3>1. CASE Visible
      <4>1. /\ row.multipart \in Id \cup {None} /\ row.state \in State
        BY <1>0b, <3>1 DEF Visible
      <4>2. [handler[r] EXCEPT !.stage = "lease", !.multipart = row.multipart,
                               !.state = row.state] \in Handler
        <5>1. "lease" \in Stage
          BY DEF Stage
        <5> QED BY <2>0, <4>1, <5>1 DEF Handler
      <4> QED BY <1>0c, <2>6, <4>2, Ended, Confirmed DEF ReadFinish, TypeOK
    <3>2. CASE ~Visible
      BY <1>0c, <2>6, <3>2, Ended DEF ReadFinish, TypeOK
    <3> QED BY <3>1, <3>2
  <2>7. CASE TakeLease(r)
    <3>1. CASE MayLease
      <4>1. row \in Row /\ r \in Request
        BY <1>0b, <2>7, <3>1 DEF MayLease, TakeLease, Held, Holds, Process
      <4>2. [row EXCEPT !.token = r, !.leased = TRUE] \in Row
        BY <4>1, EditedRow
      <4>3. handler' \in [Process -> Handler]
        BY <2>0, <2>7, <3>1, <4>1 DEF TakeLease, TypeOK, Stage
      <4> QED BY <1>0c, <2>7, <3>1, <4>2, <4>3 DEF TakeLease, TypeOK
    <3>2. CASE ~MayLease
      BY <1>0c, <2>7, <3>2, Ended, Confirmed DEF TakeLease, TypeOK
    <3> QED BY <3>1, <3>2
  <2>8. CASE Assemble(r)
    <3>1. object' \subseteq Chunk
      <4>1. row # None => row.parts \subseteq Chunk
        BY DEF TypeOK, Row
      <4> QED BY <2>8, <4>1 DEF Assemble, TypeOK
    <3>2. multiparts' \in [Id -> {"none", "open", "completed", "aborted"}]
      BY <2>8 DEF Assemble, TypeOK
    <3>3. handler' \in [Process -> Handler]
      BY <2>8, Ended, Moved DEF Assemble, Stage
    <3>4. row' \in Row \cup {None}
      BY <2>8, ReleasedRow DEF Assemble, TypeOK
    <3> QED BY <1>0c, <2>8, <3>1, <3>2, <3>3, <3>4 DEF Assemble, TypeOK
  <2>9. CASE MarkAssembled(r)
    <3>1. row' \in Row \cup {None}
      BY <1>0b, <2>9, EditedRow DEF MarkAssembled, Mine, TypeOK, State
    <3>2. handler' \in [Process -> Handler]
      BY <2>9, Moved, Confirmed DEF MarkAssembled, Stage
    <3> QED BY <1>0c, <2>9, <3>1, <3>2 DEF MarkAssembled, TypeOK
  <2>10. CASE CompleteResumable(r)
    <3>1. row' \in Row \cup {None}
      BY <1>0b, <2>10, EditedRow DEF CompleteResumable, Mine, TypeOK
    <3>2. handler' \in [Process -> Handler]
      BY <2>10, Moved, Confirmed DEF CompleteResumable, Stage
    <3> QED BY <1>0c, <2>10, <3>1, <3>2 DEF CompleteResumable, TypeOK
  <2>11. CASE ReadCancel(r)
    <3>1. handler' \in [Process -> Handler]
      BY <1>0b, <2>0, <2>11, Ended DEF ReadCancel, TypeOK, Stage, Visible
    <3> QED BY <1>0c, <2>11, <3>1 DEF ReadCancel, TypeOK
  <2>12. CASE Tombstone(r)
    <3>1. row' \in Row \cup {None}
      <4>1. CASE MayCancel(handler[r])
        <5>1. row \in Row /\ row.deleted \in BOOLEAN /\ row.ready \in BOOLEAN /\ row.sent \in BOOLEAN
          BY <1>0b, <4>1 DEF MayCancel, Row
        <5>2. row' = [row EXCEPT !.state = "cancelled", !.deleted = row.deleted \/ ~row.sent,
                                 !.ready = row.ready \/ ~row.sent]
          BY <2>12, <4>1 DEF Tombstone
        <5> QED BY <5>1, <5>2, EditedRow
      <4>2. CASE ~MayCancel(handler[r])
        BY <2>12, <4>2, ReleasedRow DEF Tombstone
      <4> QED BY <4>1, <4>2
    <3>2. handler' \in [Process -> Handler]
      BY <2>12, Ended, Moved DEF Tombstone, Stage
    <3> QED BY <1>0c, <2>12, <3>1, <3>2 DEF Tombstone, TypeOK
  <2>13. CASE AbortMultipart(r)
    <3>1. row' \in Row \cup {None}
      BY <1>0b, <2>13, EditedRow DEF AbortMultipart, Forgotten, TypeOK
    <3>2. multiparts' \in [Id -> {"none", "open", "completed", "aborted"}]
      BY <2>13 DEF AbortMultipart, TypeOK
    <3> QED BY <1>0c, <2>13, <3>1, <3>2, Moved DEF AbortMultipart, TypeOK, Stage
  <2>14. CASE Erase(r)
    BY <1>0c, <2>14, Ended, ReleasedRow DEF Erase, TypeOK
  <2>15. CASE DiscardRow(r)
    <3>1. row' \in Row \cup {None} /\ discarded' \subseteq Id
      BY <1>0b, <2>15 DEF DiscardRow, TypeOK
    <3> QED BY <1>0c, <2>15, <3>1, Ended DEF DiscardRow, TypeOK
  <2> QED BY <1>5, <2>1, <2>2, <2>3, <2>4, <2>5, <2>6, <2>7, <2>8, <2>9, <2>10, <2>11,
             <2>12, <2>13, <2>14, <2>15 DEF Handle
<1>6. ASSUME NEW r \in Process, Fails(r) PROVE TypeOK' /\ Waits'
  <2>1. failures' \in 0 .. MaxFailures /\ locked' \in Process \cup {None}
    BY <1>6 DEF Fails, Failure, TypeOK
  <2>2. multiparts' \in [Id -> {"none", "open", "completed", "aborted"}]
    BY <1>6 DEF Fails, AbortLost, TypeOK
  <2> QED BY <1>0c, <1>6, <2>1, <2>2, Ended, ReleasedRow DEF Fails, TypeOK, worldVars
<1>7. ASSUME NEW r \in Process, StoreFails(r) PROVE TypeOK' /\ Waits'
  BY <1>0c, <1>7, Ended, Moved, ReleasedRow DEF StoreFails, Failure, TypeOK, worldVars, storeVars, Stage
<1>7a. ASSUME NEW r \in Process, FailsToCancel(r) PROVE TypeOK' /\ Waits'
  BY <1>0c, <1>7a, Moved DEF FailsToCancel, Failure, TypeOK, worldVars, storeVars, Stage
<1>7b. ASSUME NEW r \in Process, DiscardRowFails(r) PROVE TypeOK' /\ Waits'
  BY <1>0c, <1>7b, Ended DEF DiscardRowFails, Failure, TypeOK, worldVars
<1>7c. ASSUME NEW r \in Request, Discard(r) PROVE TypeOK' /\ Waits'
  <2>1. row' \in Row
    BY <1>0b, <1>7c, EditedRow DEF Discard
  <2> QED BY <1>0c, <1>7c, <2>1, Moved DEF Discard, TypeOK, Stage, Process, storeVars, Quietly, worldVars
<1>8. ASSUME NEW r \in Process, AnswerLost(r) PROVE TypeOK' /\ Waits'
  <2>1. failures' \in 0 .. MaxFailures
    BY <1>8 DEF AnswerLost, Failure, TypeOK
  <2>2. multiparts' \in [Id -> {"none", "open", "completed", "aborted"}]
    BY <1>8 DEF AnswerLost, TypeOK
  <2>3. object' \subseteq Chunk
    BY <1>8 DEF AnswerLost, TypeOK, Row
  <2> QED BY <1>0c, <1>8, <2>1, <2>2, <2>3, Ended, ReleasedRow DEF AnswerLost, TypeOK, worldVars
<1>9. CASE Restart
  <2>1. failures' \in 0 .. MaxFailures
    BY <1>9 DEF Restart, Failure, TypeOK
  <2>2. client' \in Client /\ client'.stage # "waiting"
    BY <1>0a, <1>9 DEF Restart, TypeOK
  <2> QED BY <1>0, <1>9, <2>1, <2>2 DEF Restart, TypeOK, Waits, worldVars, storeVars
<1>10. CASE Send \/ DeleteMessage \/ LeaseEnds
  <2>1. row' \in Row
    BY <1>0b, <1>10, EditedRow DEF Send, DeleteMessage, LeaseEnds
  <2> QED BY <1>0c, <1>10, <2>1 DEF Send, DeleteMessage, LeaseEnds, TypeOK, storeVars, Quietly, worldVars
<1>11. CASE EndSession \/ DayPasses
  BY <1>0c, <1>11 DEF EndSession, DayPasses, TypeOK, storeVars, serverVars
<1>12. CASE Cleanup
  <2>1. CASE CleanStorageFeatures
    <3>1. row.multipart \in Id \cup {None} /\ Cleaner \in Process
      BY <1>0b, <2>1 DEF CleanStorageFeatures, Process
    <3>2. [Idle EXCEPT !.stage = "cancel", !.multipart = row.multipart] \in Handler
      BY <1>0, <3>1 DEF Handler, Stage
    <3> QED BY <1>0c, <2>1, <3>1, <3>2 DEF CleanStorageFeatures, TypeOK, Quietly, worldVars, storeVars
  <2>2. CASE CleanPendingAttachments \/ RemoveRow
    <3>1. Cleaner \in Process
      BY DEF Process
    <3> QED BY <1>0c, <2>2, <3>1, Moved DEF CleanPendingAttachments, RemoveRow, Lock, TypeOK, Stage,
               Quietly, worldVars, storeVars
  <2> QED BY <1>12, <2>1, <2>2 DEF Cleanup
<1>13. CASE UNCHANGED vars
  BY <1>0c, <1>13 DEF vars, serverVars, storeVars, worldVars, TypeOK
<1> QED
  BY <1>1, <1>2, <1>3, <1>4, <1>5, <1>6, <1>7, <1>7a, <1>7b, <1>7c, <1>8, <1>9, <1>10, <1>11, <1>12, <1>13 DEF Next

-----------------------------------------------------------------------------
(* A multipart upload that takes no part any more.                         *)
Over == {"completed", "aborted"}

(* What a handler knows of the upload stays so until its step has ended:   *)
(* a chunk that is being stored is the next one; a finalization has a      *)
(* lease, and a file with all its chunks; the multipart id it has read is  *)
(* the upload's for good, or forgotten with a cancelled one; what it has   *)
(* joined is whole unless the upload was cancelled.                        *)
Fits(r) ==
  /\ Holds(r)
  /\ handler[r].stage \in {"begun", "put"} =>
       row.state \in {"creating", "uploading"} /\ handler[r].offset = row.offset
  /\ handler[r].stage = "begun" => row.multipart = None
  /\ handler[r].stage \in {"lease", "assemble", "assembled", "abort"} => handler[r].multipart # None
  /\ handler[r].stage \in {"assemble", "assembled"} => handler[r].token # None
  /\ handler[r].stage \in {"idle", "remove", "discard"} => handler[r].multipart = None
  /\ r = Cleaner => handler[r].token = None
  /\ handler[r].token # None /\ handler[r].stage \notin {"ok", "error"} =>
       row # None /\ row.leased /\ row.token = r
  /\ handler[r].stage \in {"lease", "assemble", "assembled"} /\ row # None => row.offset = Chunks
  /\ handler[r].multipart # None /\ handler[r].stage \notin {"ok", "error"} =>
       multiparts[handler[r].multipart] # "none"
  /\ handler[r].multipart # None /\ handler[r].stage \notin {"begun", "ok", "error"} =>
       \/ row = None
       \/ row.multipart = handler[r].multipart
       \/ row.multipart = None /\ row.state = "cancelled"
  /\ handler[r].stage \in {"abort", "erase"} => row = None \/ row.state = "cancelled"
  /\ handler[r].stage = "discard" => row = None \/ (row.ready /\ row.deleted)
  /\ handler[r].stage = "assembled" =>
       /\ multiparts[handler[r].multipart] \in Over
       /\ row.state \in {"uploading", "assembled"} => object = Chunk

(* The upload itself: its parts are the chunks up to its offset; it can be *)
(* sent or downloaded only when complete; it is complete only with all of  *)
(* its chunks in the stored object; no other multipart upload of its is    *)
(* open.                                                                   *)
Sound ==
  row # None =>
    /\ row.parts = 1 .. row.offset
    /\ row.ready => row.state = "complete" \/ (row.state = "cancelled" /\ row.deleted)
    /\ row.sent => row.state = "complete"
    /\ row.state = "complete" => row.token = None
    /\ row.state \in {"assembled", "complete"} =>
         row.offset = Chunks /\ row.multipart # None /\ multiparts[row.multipart] \in Over
    /\ row.state = "assembled" => object = Chunk
    /\ row.state = "complete" /\ ~row.deleted /\ (row.sent \/ ~old) => object = Chunk
    /\ row.multipart # None => multiparts[row.multipart] # "none"
    /\ \A i \in recorded : multiparts[i] = "open" => i = row.multipart
    /\ \A i \in recorded : multiparts[i] # "none"

(* The cleanup has erased the object before it removes the row.            *)
Removing ==
  handler[Cleaner].stage = "remove" =>
    /\ ~row.leased /\ object = {}
    /\ row.state = "complete" \/ (row.state = "cancelled" /\ row.multipart = None)

AllFit == \A r \in Process : Fits(r)
Inv == AllFit /\ Sound /\ Removing /\ NothingUnnamed

(* A handler whose step another's, or the world's, does not concern.       *)
LEMMA StillFits ==
  ASSUME TypeOK, TypeOK', NEW q \in Process, Fits(q), handler'[q] = handler[q],
         locked = q => locked' = q,
         locked = q /\ row # None =>
           /\ row' # None /\ row'.state = row.state
           /\ row'.offset = row.offset /\ row'.multipart = row.multipart,
         row = None => row' = None,
         Finalizing(q) => row' # None /\ row'.leased /\ row'.token = q,
         row # None /\ row' # None =>
           /\ (row.ready => row'.ready) /\ (row.deleted => row'.deleted)
           /\ row.offset = Chunks => row'.offset = Chunks
           /\ row.state = "cancelled" => row'.state = "cancelled"
           /\ \/ row'.multipart = row.multipart
              \/ row.multipart = None /\ row.state # "cancelled"
              \/ row'.multipart = None /\ row'.state = "cancelled"
           /\ row.offset = Chunks /\ row'.state \in {"uploading", "assembled"} =>
                row.state \in {"uploading", "assembled"} /\ object' \in {object, Chunk},
         \A i \in Id : multiparts'[i] = multiparts[i] \/ multiparts'[i] \in Over
                       \/ (multiparts[i] = "none" /\ multiparts'[i] = "open")
  PROVE  Fits(q)'
<1> USE UploadAssumption
<1>1. handler[q].multipart \in Id \cup {None} /\ q # None
  BY DEF TypeOK, Handler
<1>2. Holds(q)'
  BY <1>1 DEF Fits, Holds
<1>3. handler'[q].stage \in {"begun", "put"} =>
        row'.state \in {"creating", "uploading"} /\ handler'[q].offset = row'.offset
  BY <1>1 DEF Fits, Holds
<1>4. handler'[q].stage = "begun" => row'.multipart = None
  BY <1>1 DEF Fits, Holds
<1>5. handler'[q].token # None /\ handler'[q].stage \notin {"ok", "error"} =>
        row' # None /\ row'.leased /\ row'.token = q
  BY DEF Finalizing
<1>6. handler'[q].stage \in {"lease", "assemble", "assembled"} /\ row' # None => row'.offset = Chunks
  BY DEF Fits
<1>7. handler'[q].multipart # None /\ handler'[q].stage \notin {"ok", "error"} =>
        multiparts'[handler'[q].multipart] # "none"
  BY <1>1 DEF Fits, Over
<1>8. handler'[q].multipart # None /\ handler'[q].stage \notin {"begun", "ok", "error"} =>
        \/ row' = None
        \/ row'.multipart = handler'[q].multipart
        \/ row'.multipart = None /\ row'.state = "cancelled"
  BY DEF Fits
<1>9. /\ handler'[q].stage \in {"abort", "erase"} => row' = None \/ row'.state = "cancelled"
      /\ handler'[q].stage = "discard" => row' = None \/ (row'.ready /\ row'.deleted)
  BY DEF Fits
<1>10. handler'[q].stage = "assembled" =>
         /\ multiparts'[handler'[q].multipart] \in Over
         /\ row'.state \in {"uploading", "assembled"} => object' = Chunk
  <2> SUFFICES ASSUME handler[q].stage = "assembled"
               PROVE  /\ multiparts'[handler[q].multipart] \in Over
                      /\ row'.state \in {"uploading", "assembled"} => object' = Chunk
    OBVIOUS
  <2>1. row # None /\ row' # None /\ row.offset = Chunks
    BY DEF Fits, Finalizing
  <2>2. multiparts[handler[q].multipart] \in Over /\ handler[q].multipart \in Id
    BY <1>1 DEF Fits
  <2>3. multiparts'[handler[q].multipart] \in Over
    BY <2>2 DEF Over
  <2> QED BY <2>1, <2>3 DEF Fits
<1> QED BY <1>2, <1>3, <1>4, <1>5, <1>6, <1>7, <1>8, <1>9, <1>10 DEF Fits

(* A handler that is over knows nothing any more.                          *)
LEMMA OverFits ==
  ASSUME TypeOK, NEW r \in Process,
         handler'[r] = Idle \/ (r = client.request /\ handler'[r].stage \in {"ok", "error"})
  PROVE  Fits(r)'
<1>1. r # Cleaner \/ handler'[r] = Idle
  BY UploadAssumption DEF TypeOK, Client
<1>2. Idle.stage = "idle" /\ Idle.multipart = None /\ Idle.token = None
  BY DEF Idle
<1> HIDE DEF Idle
<1> QED BY <1>1, <1>2 DEF Fits, Holds

(* Steps that leave the upload as it is, but for its lease and its lock.   *)
Unmoved(r) ==
  /\ UNCHANGED <<multiparts, object, recorded, discarded, old>>
  /\ row' = None <=> row = None
  /\ row # None =>
       /\ row'.state = row.state /\ row'.offset = row.offset /\ row'.parts = row.parts
       /\ row'.multipart = row.multipart /\ row'.deleted = row.deleted
       /\ row'.ready = row.ready /\ row'.sent = row.sent
       /\ row'.leased = row.leased \/ (row'.leased /\ locked = None)
       /\ row'.token = row.token \/ row.token = r \/ row.token = None \/ ~row.leased
       /\ row.state = "complete" /\ row.token = None => row'.token = None

LEMMA UnmovedStep ==
  ASSUME TypeOK, TypeOK', Inv, NEW r \in Process, Unmoved(r),
         \A q \in Process : q # r => handler'[q] = handler[q],
         locked' = locked \/ locked \in {None, r},
         Fits(r)', handler'[r].stage # "remove"
  PROVE  Inv'
<1> USE UploadAssumption
<1>1. ASSUME NEW q \in Process, q # r PROVE Fits(q)'
  <2>1. Fits(q) /\ q # None
    BY DEF Inv, AllFit
  <2>2. Finalizing(q) => row # None /\ row.leased /\ row.token = q
    BY <2>1 DEF Fits, Finalizing
  <2>3. locked = q => locked' = q
    BY <1>1, <2>1
  <2>4. Finalizing(q) => row' # None /\ row'.leased /\ row'.token = q
    BY <1>1, <2>1, <2>2 DEF Unmoved
  <2>5. (row = None <=> row' = None) /\ UNCHANGED <<multiparts, object>>
    BY DEF Unmoved
  <2>6. row # None => /\ row'.state = row.state /\ row'.offset = row.offset
                      /\ row'.multipart = row.multipart
                      /\ row'.deleted = row.deleted /\ row'.ready = row.ready
    BY DEF Unmoved
  <2> QED BY <1>1, <2>1, <2>3, <2>4, <2>5, <2>6, StillFits
<1>2. Sound'
  BY DEF Inv, Sound, Unmoved
<1>3. Removing'
  <2>1. handler'[Cleaner].stage = "remove" => /\ handler[Cleaner].stage = "remove"
                                             /\ locked = Cleaner /\ row # None
    BY DEF Inv, AllFit, Fits, Holds, Process
  <2> QED BY <2>1 DEF Inv, Removing, Unmoved, Process
<1>4. NothingUnnamed'
  BY DEF Inv, NothingUnnamed, Unmoved
<1> QED BY <1>1, <1>2, <1>3, <1>4 DEF Inv, AllFit

(* Steps that only end a handler, or only move it on.                      *)
LEMMA OverStep ==
  ASSUME TypeOK, TypeOK', Inv, NEW r \in Process, Unmoved(r),
         \A q \in Process : q # r => handler'[q] = handler[q],
         locked' = locked \/ locked \in {None, r},
         handler'[r] = Idle \/ (r = client.request /\ handler'[r].stage \in {"ok", "error"})
  PROVE  Inv'
<1>1. Fits(r)'
  BY OverFits
<1>2. handler'[r].stage # "remove"
  BY DEF Idle
<1> QED BY <1>1, <1>2, UnmovedStep

(* The steps of a handler that leave the upload as it is.                  *)
LEMMA ReadingStep ==
  ASSUME TypeOK, TypeOK', Inv, NEW r \in Process,
         \/ LockAgain(r) \/ CheckAgain(r) \/ ReadFinish(r) \/ TakeLease(r) \/ ReadCancel(r)
  PROVE  Inv'
<1> USE UploadAssumption DEF Unlocked, Quietly, worldVars, storeVars
<1>0. /\ handler[r] \in Handler /\ Fits(r) /\ Holds(r) /\ r # None
      /\ row # None => row \in Row
  BY DEF TypeOK, Inv, AllFit, Fits
<1>1. UNCHANGED row => (UNCHANGED <<multiparts, object, recorded, discarded, old>> => Unmoved(r))
  BY DEF Unmoved
<1>2. CASE LockAgain(r)
  <2>1. Unmoved(r)
    BY <1>1, <1>2 DEF LockAgain
  <2>2. CASE Visible /\ row.offset = handler[r].offset /\ row.state = "uploading"
    <3>1. /\ handler'[r].stage = "put" /\ handler'[r].multipart = row.multipart
          /\ handler'[r].token = handler[r].token /\ handler'[r].offset = handler[r].offset
          /\ locked = None /\ locked' = r /\ row' = row /\ multiparts' = multiparts
          /\ \A q \in Process : q # r => handler'[q] = handler[q]
      BY <1>0, <1>2, <2>2 DEF LockAgain, Lock, TypeOK, Handler
    <3>2. Fits(r)'
      BY <1>0, <1>2, <2>2, <3>1 DEF LockAgain, Fits, Holds, Visible, Inv, Sound
    <3> QED BY <2>1, <3>1, <3>2, UnmovedStep
  <2>3. CASE ~(Visible /\ row.offset = handler[r].offset /\ row.state = "uploading")
    BY <1>2, <2>1, <2>3, Ended, OverStep DEF LockAgain
  <2> QED BY <2>2, <2>3
<1>3. CASE CheckAgain(r)
  <2>1. Unmoved(r)
    BY <1>1, <1>3 DEF CheckAgain
  <2>2. CASE session
    BY <1>3, <2>1, <2>2, Ended, OverStep DEF CheckAgain
  <2>3. CASE ~session
    <3>1. To(r, "cancel") /\ UNCHANGED <<row, locked, multiparts>>
      BY <1>3, <2>3 DEF CheckAgain
    <3>2. Fits(r)'
      BY <1>0, <1>3, <3>1, Moved DEF CheckAgain, Fits, Holds, Stage
    <3> QED BY <2>1, <3>1, <3>2, Moved, UnmovedStep DEF Stage
  <2> QED BY <2>2, <2>3
<1>4. CASE ReadFinish(r)
  <2>1. Unmoved(r)
    BY <1>1, <1>4 DEF ReadFinish
  <2>2. CASE Confirm(r)
    BY <1>4, <2>1, <2>2, Confirmed, OverStep DEF ReadFinish
  <2>3. CASE End(r, "error")
    BY <1>4, <2>1, <2>3, Ended, OverStep DEF ReadFinish
  <2>4. CASE ~Confirm(r) /\ ~End(r, "error")
    <3>1. /\ Visible /\ row.offset = Chunks /\ row.multipart # None
          /\ handler' = [handler EXCEPT ![r].stage = "lease", ![r].multipart = row.multipart,
                                        ![r].state = row.state]
          /\ UNCHANGED <<row, locked, multiparts>> /\ handler[r].stage = "finish"
      BY <1>4, <2>4 DEF ReadFinish
    <3>2. /\ handler'[r].stage = "lease" /\ handler'[r].multipart = row.multipart
          /\ handler'[r].token = handler[r].token
          /\ \A q \in Process : q # r => handler'[q] = handler[q]
      BY <1>0, <3>1 DEF TypeOK, Handler
    <3>3. Fits(r)'
      BY <1>0, <3>1, <3>2 DEF Fits, Holds, Visible, Inv, Sound
    <3> QED BY <2>1, <3>1, <3>2, <3>3, UnmovedStep
  <2> QED BY <2>2, <2>3, <2>4
<1>5. CASE TakeLease(r)
  <2>1. CASE MayLease
    <3>1. /\ row \in Row /\ row # None /\ row' = [row EXCEPT !.token = r, !.leased = TRUE]
          /\ locked = None /\ UNCHANGED <<locked, multiparts, object, recorded, discarded, old>>
          /\ handler[r].stage = "lease"
      BY <1>0, <1>5, <2>1 DEF TakeLease, MayLease
    <3>2. /\ row' # None /\ row'.leased /\ row'.state = row.state /\ row'.offset = row.offset
          /\ row'.parts = row.parts /\ row'.multipart = row.multipart
          /\ row'.deleted = row.deleted /\ row'.ready = row.ready /\ row'.sent = row.sent
          /\ row'.token = r
      <4>1. row' \in Row
        <5>1. r \in Request
          BY <1>0, <3>1 DEF Holds, Process
        <5> QED BY <3>1, <5>1, EditedRow
      <4> QED BY <3>1, <4>1 DEF Row
    <3>3. Unmoved(r)
      BY <2>1, <3>1, <3>2 DEF Unmoved, MayLease
    <3>4. PICK stage \in {"complete", "assemble"} :
            handler' = [handler EXCEPT ![r].token = r, ![r].stage = stage]
      BY <1>5, <2>1 DEF TakeLease
    <3>5. /\ handler'[r].stage = stage /\ handler'[r].multipart = handler[r].multipart
          /\ handler'[r].token = r
          /\ \A q \in Process : q # r => handler'[q] = handler[q]
      BY <1>0, <3>4 DEF TypeOK, Handler
    <3>6. Fits(r)'
      BY <1>0, <3>1, <3>2, <3>5 DEF Fits, Holds
    <3> QED BY <3>1, <3>3, <3>5, <3>6, UnmovedStep
  <2>2. CASE ~MayLease
    <3>1. Unmoved(r)
      BY <1>1, <1>5, <2>2 DEF TakeLease
    <3> QED BY <1>5, <2>2, <3>1, Ended, Confirmed, OverStep DEF TakeLease
  <2> QED BY <2>1, <2>2
<1>6. CASE ReadCancel(r)
  <2>1. Unmoved(r)
    BY <1>1, <1>6 DEF ReadCancel
  <2>2. CASE Visible
    <3>1. /\ handler'[r].stage = "cancel" /\ handler'[r].multipart = row.multipart
          /\ handler'[r].token = handler[r].token
          /\ UNCHANGED <<row, locked, multiparts>> /\ handler[r].stage = "delete"
          /\ \A q \in Process : q # r => handler'[q] = handler[q]
      BY <1>0, <1>6, <2>2 DEF ReadCancel, TypeOK, Handler
    <3>2. Fits(r)'
      BY <1>0, <2>2, <3>1 DEF Fits, Holds, Visible, Inv, Sound
    <3> QED BY <2>1, <3>1, <3>2, UnmovedStep
  <2>3. CASE ~Visible
    BY <1>6, <2>1, <2>3, Ended, OverStep DEF ReadCancel
  <2> QED BY <2>2, <2>3
<1> QED BY <1>2, <1>3, <1>4, <1>5, <1>6

(* The steps of uploadChunk that touch the upload.                         *)
LEMMA ChunkStep ==
  ASSUME TypeOK, TypeOK', Inv, NEW r \in Process,
         ReadChunk(r) \/ RecordMultipart(r) \/ StorePart(r)
  PROVE  Inv'
<1> USE UploadAssumption DEF Unlocked, Quietly, worldVars, storeVars
<1>0. /\ handler[r] \in Handler /\ Fits(r) /\ Holds(r) /\ r # None
      /\ row # None => row \in Row
      /\ \A q \in Process : Fits(q) /\ Holds(q) /\ q # None
  BY DEF TypeOK, Inv, AllFit, Fits
<1>1. \A q \in Process : Finalizing(q) => row # None /\ row.leased /\ row.token = q
  BY <1>0 DEF Fits, Finalizing
<1>2. handler[r].multipart \in Id \cup {None} /\ handler[r].offset \in 0 .. Chunks /\ Chunks \in Nat
  BY <1>0 DEF Handler
<1>3. CASE ReadChunk(r)
  <2>1. UNCHANGED <<row, object, recorded, discarded, old>>
    BY <1>3 DEF ReadChunk
  <2>2. CASE UNCHANGED multiparts
    <3>1. Unmoved(r)
      BY <2>1, <2>2 DEF Unmoved
    <3>2. CASE End(r, "error") /\ UNCHANGED locked
      BY <3>1, <3>2, Ended, OverStep
    <3>3. CASE handler' = [handler EXCEPT ![r] =
                 IF client.request = r THEN [handler[r] EXCEPT !.stage = "ok", !.offset = row.offset]
                 ELSE Idle] /\ UNCHANGED locked
      <4>1. handler'[r] = Idle \/ (r = client.request /\ handler'[r].stage = "ok")
        BY <1>0, <3>3 DEF TypeOK, Handler
      <4>2. \A q \in Process : q # r => handler'[q] = handler[q]
        BY <3>3 DEF TypeOK
      <4> QED BY <3>1, <3>3, <4>1, <4>2, OverStep
    <3>4. CASE /\ Expected(handler[r]) /\ row.multipart # None /\ Lock(r)
               /\ handler' = [handler EXCEPT ![r].stage = "put", ![r].multipart = row.multipart]
      <4>1. /\ handler'[r].stage = "put" /\ handler'[r].multipart = row.multipart
            /\ handler'[r].token = handler[r].token /\ handler'[r].offset = handler[r].offset
            /\ locked = None /\ locked' = r
            /\ \A q \in Process : q # r => handler'[q] = handler[q]
        BY <1>0, <3>4 DEF Lock, TypeOK, Handler
      <4>2. Fits(r)'
        BY <1>0, <1>3, <2>1, <2>2, <3>4, <4>1
           DEF ReadChunk, Fits, Holds, Expected, Visible, Inv, Sound
      <4> QED BY <3>1, <4>1, <4>2, UnmovedStep
    <3>5. CASE \E i \in Id : /\ multiparts[i] = "none"
                             /\ multiparts' = [multiparts EXCEPT ![i] = "open"]
      BY <2>2, <3>5 DEF TypeOK
    <3> QED BY <1>3, <3>2, <3>3, <3>4, <3>5 DEF ReadChunk
  <2>3. CASE ~UNCHANGED multiparts
    <3>1. PICK i \in Id :
            /\ multiparts[i] = "none" /\ multiparts' = [multiparts EXCEPT ![i] = "open"]
            /\ handler' = [handler EXCEPT ![r].stage = "begun", ![r].multipart = i]
            /\ Expected(handler[r]) /\ row.multipart = None /\ Lock(r)
            /\ handler[r].stage = "chunk"
      BY <1>3, <2>3 DEF ReadChunk
    <3>2. /\ handler'[r].stage = "begun" /\ handler'[r].multipart = i
          /\ handler'[r].token = handler[r].token /\ handler'[r].offset = handler[r].offset
          /\ locked = None /\ locked' = r /\ multiparts'[i] = "open"
          /\ \A q \in Process : q # r => handler'[q] = handler[q]
          /\ \A j \in Id : j # i => multiparts'[j] = multiparts[j]
      BY <1>0, <3>1 DEF Lock, TypeOK, Handler
    <3>3. Fits(r)'
      BY <1>0, <2>1, <3>1, <3>2 DEF Fits, Holds, Expected, Visible
    <3>4. ASSUME NEW q \in Process, q # r PROVE Fits(q)'
      <4>1. \A j \in Id : multiparts'[j] = multiparts[j] \/ multiparts'[j] \in Over
                          \/ (multiparts[j] = "none" /\ multiparts'[j] = "open")
        BY <3>1, <3>2
      <4> QED BY <1>0, <1>1, <2>1, <3>2, <3>4, <4>1, StillFits
    <3>5. row # None /\ row.state \in {"creating", "uploading"} /\ row.multipart = None
      BY <3>1 DEF Expected, Visible
    <3>6. Sound'
      <4>1. recorded \subseteq Id
        BY DEF TypeOK
      <4> QED BY <2>1, <3>1, <3>2, <3>5, <4>1 DEF Inv, Sound
    <3>7. Removing'
      BY <2>1, <3>2, <1>0 DEF Inv, Removing, Holds, Process
    <3>8. NothingUnnamed'
      BY <2>1, <3>5 DEF NothingUnnamed
    <3> QED BY <3>3, <3>4, <3>6, <3>7, <3>8 DEF Inv, AllFit
  <2> QED BY <2>2, <2>3
<1>4. CASE RecordMultipart(r)
  <2> DEFINE i == handler[r].multipart
  <2>1. /\ handler[r].stage = "begun" /\ locked = r /\ row \in Row /\ row # None /\ i \in Id
        /\ row.state \in {"creating", "uploading"} /\ row.multipart = None
        /\ handler[r].offset = row.offset /\ handler[r].offset < Chunks
        /\ multiparts[i] # "none"
    BY <1>0, <1>2, <1>4 DEF RecordMultipart, Fits, Holds
  <2>2. /\ row' = [row EXCEPT !.multipart = i, !.state = "uploading"]
        /\ recorded' = recorded \cup {i} /\ locked' = None
        /\ UNCHANGED <<multiparts, object, discarded, old>> /\ To(r, "again")
    BY <1>4 DEF RecordMultipart
  <2> HIDE DEF i
  <2>3. row' # None
    <3>1. row' \in Row
      BY <2>1, <2>2, EditedRow
    <3> QED BY <3>1
  <2>4. /\ row'.multipart = i /\ row'.state = "uploading" /\ row'.offset = row.offset
        /\ row'.parts = row.parts /\ row'.leased = row.leased /\ row'.deleted = row.deleted
        /\ row'.ready = row.ready /\ row'.sent = row.sent /\ row'.token = row.token
    BY <2>1, <2>2 DEF Row
  <2>5. /\ handler'[r].stage = "again" /\ handler'[r].multipart = i
        /\ handler'[r].token = handler[r].token /\ handler'[r].offset = handler[r].offset
        /\ \A q \in Process : q # r => handler'[q] = handler[q]
    BY <2>2, Moved DEF Stage, i
  <2>6. Fits(r)'
    BY <1>0, <2>1, <2>2, <2>3, <2>4, <2>5 DEF Fits, Holds
  <2>7. ASSUME NEW q \in Process, q # r PROVE Fits(q)'
    <3>1. Finalizing(q) => row' # None /\ row'.leased /\ row'.token = q
      BY <1>1, <2>3, <2>4
    <3>2. row.offset # Chunks
      BY <1>2, <2>1
    <3> QED BY <1>0, <2>1, <2>2, <2>3, <2>4, <2>5, <2>7, <3>1, <3>2, StillFits
  <2>8. Sound'
    <3>1. \A j \in recorded : j # None
      BY DEF TypeOK
    <3> QED BY <2>1, <2>2, <2>3, <2>4, <3>1 DEF Inv, Sound
  <2>9. Removing'
    BY <1>0, <2>1, <2>5 DEF Removing, Holds, Process
  <2>10. NothingUnnamed'
    BY <2>3 DEF NothingUnnamed
  <2> QED BY <2>6, <2>7, <2>8, <2>9, <2>10 DEF Inv, AllFit
<1>5. CASE StorePart(r)
  <2> DEFINE n == handler[r].offset
  <2>1. /\ handler[r].stage = "put" /\ locked = r /\ row \in Row /\ row # None
        /\ row.state \in {"creating", "uploading"} /\ n = row.offset /\ n < Chunks
        /\ n \in Nat
    BY <1>0, <1>2, <1>5 DEF StorePart, Fits, Holds
  <2>2. /\ row' = [row EXCEPT !.parts = row.parts \cup {n + 1}, !.offset = n + 1,
                              !.state = "uploading"]
        /\ handler' = [handler EXCEPT ![r].stage = "check", ![r].offset = n + 1]
        /\ locked' = None /\ UNCHANGED <<multiparts, object, recorded, discarded, old>>
    BY <1>5 DEF StorePart
  <2> HIDE DEF n
  <2>3. row' # None
    <3>1. n + 1 \in 0 .. Chunks /\ n + 1 \in Chunk
      BY <1>2, <2>1 DEF Chunk
    <3>2. row' \in Row
      BY <2>1, <2>2, <3>1 DEF Row, State
    <3> QED BY <3>2
  <2>4. /\ row'.multipart = row.multipart /\ row'.state = "uploading" /\ row'.offset = n + 1
        /\ row'.parts = row.parts \cup {n + 1} /\ row'.leased = row.leased
        /\ row'.token = row.token
        /\ row'.deleted = row.deleted /\ row'.ready = row.ready /\ row'.sent = row.sent
    BY <2>1, <2>2 DEF Row
  <2>5. /\ handler'[r].stage = "check" /\ handler'[r].multipart = handler[r].multipart
        /\ handler'[r].token = handler[r].token
        /\ \A q \in Process : q # r => handler'[q] = handler[q]
    BY <1>0, <2>2 DEF TypeOK, Handler
  <2>6. Fits(r)'
    BY <1>0, <2>1, <2>2, <2>3, <2>4, <2>5 DEF Fits, Holds
  <2>7. ASSUME NEW q \in Process, q # r PROVE Fits(q)'
    <3>1. Finalizing(q) => row' # None /\ row'.leased /\ row'.token = q
      BY <1>1, <2>3, <2>4
    <3>2. row.offset # Chunks
      BY <1>2, <2>1
    <3> QED BY <1>0, <2>1, <2>2, <2>3, <2>4, <2>5, <2>7, <3>1, <3>2, StillFits
  <2>8. Sound'
    <3>1. row'.parts = 1 .. row'.offset
      <4>1. row.parts = 1 .. n
        BY <2>1 DEF Inv, Sound
      <4>2. 1 .. (n + 1) = (1 .. n) \cup {n + 1}
        BY <2>1
      <4> QED BY <2>4, <4>1, <4>2
    <3> QED BY <2>1, <2>2, <2>3, <2>4, <3>1 DEF Inv, Sound
  <2>9. Removing'
    BY <1>0, <2>1, <2>5 DEF Removing, Holds, Process
  <2>10. NothingUnnamed'
    BY <2>3 DEF NothingUnnamed
  <2> QED BY <2>6, <2>7, <2>8, <2>9, <2>10 DEF Inv, AllFit
<1> QED BY <1>3, <1>4, <1>5

(* The store joins the parts: what it has then is the whole file.          *)
LEMMA JoinStep ==
  ASSUME TypeOK, TypeOK', Inv, NEW r \in Process, Assemble(r) \/ AnswerLost(r)
  PROVE  Inv'
<1> USE UploadAssumption DEF Unlocked, Quietly, worldVars, storeVars
<1> DEFINE i == handler[r].multipart
<1>0. /\ handler[r] \in Handler /\ Fits(r) /\ Holds(r) /\ r # None
      /\ row # None => row \in Row
      /\ \A q \in Process : Fits(q) /\ Holds(q) /\ q # None
  BY DEF TypeOK, Inv, AllFit, Fits
<1>1. \A q \in Process : Finalizing(q) => row # None /\ row.leased /\ row.token = q
  BY <1>0 DEF Fits, Finalizing
<1>2. /\ handler[r].stage = "assemble" /\ row # None /\ row \in Row /\ row.leased /\ row.token = r
      /\ i \in Id /\ row.offset = Chunks /\ multiparts[i] # "none"
  <2>1. handler[r].stage = "assemble" /\ i \in Id \cup {None}
    BY <1>0 DEF Assemble, AnswerLost, Handler
  <2> HIDE DEF i
  <2>2. handler[r].token # None /\ i # None
    BY <1>0, <2>1 DEF Fits, i
  <2>3. row # None /\ row.leased /\ row.token = r
    BY <1>0, <2>1, <2>2 DEF Fits
  <2> QED BY <1>0, <2>1, <2>2, <2>3 DEF Fits, i
<1>3. handler[Cleaner].stage # "remove"
  BY <1>2 DEF Inv, Removing
<1>4. row.parts = Chunk
  BY <1>2 DEF Inv, Sound, Chunk
<1>5. UNCHANGED <<locked, recorded, discarded, old>>
  BY DEF Assemble, AnswerLost
<1>6. /\ row' = row \/ row' = Released(r)
      /\ \A q \in Process : q # r => handler'[q] = handler[q]
      /\ \/ handler'[r] = Idle \/ (r = client.request /\ handler'[r].stage = "error")
         \/ /\ handler'[r].stage = "assembled" /\ handler'[r].multipart = i
            /\ handler'[r].token = handler[r].token /\ handler'[r].offset = handler[r].offset
            /\ multiparts[i] # "open" \/ multiparts'[i] = "completed"
            /\ object' = Chunk /\ row' = row
      /\ \/ UNCHANGED <<multiparts, object>>
         \/ multiparts' = [multiparts EXCEPT ![i] = "completed"] /\ object' = Chunk
  <2>1. CASE AnswerLost(r)
    BY <1>2, <1>4, <2>1, Ended DEF AnswerLost
  <2>2. CASE Assemble(r) /\ multiparts[i] = "open"
    BY <1>2, <1>4, <2>2, Moved DEF Assemble, Stage, TypeOK
  <2>3. CASE Assemble(r) /\ multiparts[i] # "open" /\ Cardinality(object) = Chunks
    <3>1. object = Chunk
      <4>1. IsFiniteSet(Chunk) /\ Cardinality(Chunk) = Chunks
        BY FS_Interval DEF Chunk
      <4> QED BY <2>3, <4>1, FS_Subset DEF TypeOK
    <3> QED BY <1>2, <2>3, <3>1, Moved DEF Assemble, Stage
  <2>4. CASE Assemble(r) /\ multiparts[i] # "open" /\ Cardinality(object) # Chunks
    BY <1>2, <2>4, Ended DEF Assemble
  <2> QED BY <2>1, <2>2, <2>3, <2>4
<1> HIDE DEF i
<1>7. /\ row' # None /\ row'.state = row.state /\ row'.offset = row.offset
      /\ row'.parts = row.parts /\ row'.multipart = row.multipart
      /\ row'.deleted = row.deleted /\ row'.ready = row.ready /\ row'.sent = row.sent
      /\ row'.leased
  BY <1>2, <1>6, ReleasedRow
<1>8. \A j \in Id : multiparts'[j] = multiparts[j] \/ multiparts'[j] \in Over
  BY <1>2, <1>6 DEF Over, TypeOK
<1>9. ASSUME NEW q \in Process, q # r PROVE Fits(q)'
  BY <1>0, <1>1, <1>2, <1>5, <1>6, <1>7, <1>8, <1>9, StillFits
<1>10. Fits(r)'
  <2>1. CASE handler'[r] = Idle \/ (r = client.request /\ handler'[r].stage = "error")
    BY <2>1, OverFits
  <2>2. CASE ~(handler'[r] = Idle \/ (r = client.request /\ handler'[r].stage = "error"))
    <3>1. multiparts'[i] \in Over
      BY <1>2, <1>6, <1>8, <2>2 DEF Over, TypeOK
    <3> QED BY <1>0, <1>2, <1>6, <1>7, <2>2, <3>1 DEF Fits, Holds, Over, i
  <2> QED BY <2>1, <2>2
<1>11. Sound'
  <2>1. row.multipart \in Id \cup {None} /\ recorded \subseteq Id
    BY <1>2 DEF TypeOK, Row
  <2> QED BY <1>2, <1>5, <1>6, <1>7, <1>8, <2>1 DEF Inv, Sound, Over
<1>12. Removing'
  BY <1>3, <1>6 DEF Removing, Idle, Process
<1>13. NothingUnnamed'
  BY <1>7 DEF NothingUnnamed
<1> QED BY <1>9, <1>10, <1>11, <1>12, <1>13 DEF Inv, AllFit

(* What is joined becomes assembled, then complete: the lease is still     *)
(* this handler's, and all the chunks are there.                           *)
LEMMA FinishStep ==
  ASSUME TypeOK, TypeOK', Inv, NEW r \in Process, MarkAssembled(r) \/ CompleteResumable(r)
  PROVE  Inv'
<1> USE UploadAssumption DEF Unlocked, Quietly, worldVars, storeVars
<1>0. /\ handler[r] \in Handler /\ Fits(r) /\ Holds(r) /\ r # None
      /\ row # None => row \in Row
      /\ \A q \in Process : Fits(q) /\ Holds(q) /\ q # None
  BY DEF TypeOK, Inv, AllFit, Fits
<1>1. \A q \in Process : Finalizing(q) => row # None /\ row.leased /\ row.token = q
  BY <1>0 DEF Fits, Finalizing
<1>2. /\ locked = None /\ locked' = locked /\ UNCHANGED <<multiparts, object, recorded, discarded, old>>
      /\ handler[r].stage \in {"assembled", "complete"}
  BY DEF MarkAssembled, CompleteResumable
<1>3. ASSUME row' = row, To(r, "cancel") PROVE Inv'
  <2>1. Unmoved(r)
    BY <1>2, <1>3 DEF Unmoved
  <2>2. Fits(r)'
    BY <1>0, <1>2, <1>3, Moved DEF Fits, Holds, Stage
  <2> QED BY <1>2, <1>3, <2>1, <2>2, Moved, UnmovedStep DEF Stage
<1>4. ASSUME row' = row, Confirm(r) PROVE Inv'
  <2>1. Unmoved(r)
    BY <1>2, <1>4 DEF Unmoved
  <2> QED BY <1>2, <1>4, <2>1, Confirmed, OverStep
<1>5. handler[Cleaner].stage # "remove"
  BY <1>0, <1>2 DEF Holds, Process
<1>6. CASE MarkAssembled(r) /\ Mine(r) /\ row.state \in {"uploading", "assembled"}
  <2>1. /\ row # None /\ row \in Row /\ row' = [row EXCEPT !.state = "assembled"]
        /\ To(r, "complete") /\ handler[r].stage = "assembled"
    BY <1>0, <1>6 DEF MarkAssembled, Mine
  <2>2. row' # None
    <3>1. row' \in Row
      BY <2>1, EditedRow DEF State
    <3> QED BY <3>1
  <2>3. /\ row'.state = "assembled" /\ row'.offset = row.offset
        /\ row'.parts = row.parts /\ row'.multipart = row.multipart
        /\ row'.deleted = row.deleted /\ row'.ready = row.ready /\ row'.sent = row.sent
        /\ row'.leased = row.leased /\ row'.token = row.token
    BY <2>1 DEF Row
  <2>4. /\ row.offset = Chunks /\ object = Chunk /\ handler[r].multipart # None
        /\ multiparts[handler[r].multipart] \in Over /\ row.multipart = handler[r].multipart
    BY <1>0, <1>6, <2>1 DEF Fits
  <2>5. Fits(r)'
    BY <1>0, <1>2, <2>1, <2>2, <2>3, <2>4, Moved DEF Fits, Holds, Stage
  <2>6. ASSUME NEW q \in Process, q # r PROVE Fits(q)'
    <3>1. handler'[q] = handler[q]
      BY <2>1, <2>6, Moved DEF Stage
    <3>2. Finalizing(q) => row'.leased /\ row'.token = q
      BY <1>1, <2>3
    <3> QED BY <1>0, <1>2, <1>6, <2>1, <2>2, <2>3, <3>1, <3>2, StillFits
  <2>7. Sound'
    BY <1>2, <1>6, <2>1, <2>2, <2>3, <2>4 DEF Inv, Sound
  <2>8. Removing' /\ NothingUnnamed'
    BY <1>5, <2>1, <2>2, Moved DEF Removing, NothingUnnamed, Process, Stage
  <2> QED BY <2>5, <2>6, <2>7, <2>8 DEF Inv, AllFit
<1>7. CASE /\ CompleteResumable(r)
           /\ session /\ Mine(r) /\ row.state = "assembled" /\ row.offset = Chunks
  <2>1. /\ row # None /\ row \in Row /\ Confirm(r) /\ handler[r].stage = "complete"
        /\ row' = [row EXCEPT !.state = "complete", !.ready = TRUE, !.token = None]
    BY <1>0, <1>7 DEF CompleteResumable, Mine
  <2>2. row' # None
    <3>1. row' \in Row
      BY <2>1, EditedRow
    <3> QED BY <3>1
  <2>3. /\ row'.state = "complete" /\ row'.offset = row.offset
        /\ row'.parts = row.parts /\ row'.multipart = row.multipart
        /\ row'.deleted = row.deleted /\ row'.ready /\ row'.sent = row.sent
        /\ row'.leased = row.leased /\ row'.token = None
    BY <2>1 DEF Row
  <2>4. Fits(r)'
    BY <2>1, Confirmed, OverFits
  <2>5. ASSUME NEW q \in Process, q # r PROVE Fits(q)'
    <3>1. handler'[q] = handler[q]
      BY <2>1, <2>5, Confirmed
    <3>2. ~Finalizing(q)
      BY <1>1, <1>7, <2>5 DEF Mine
    <3> QED BY <1>0, <1>2, <1>7, <2>1, <2>2, <2>3, <3>1, <3>2, StillFits
  <2>6. Sound'
    BY <1>2, <1>7, <2>1, <2>2, <2>3 DEF Inv, Sound
  <2>7. Removing' /\ NothingUnnamed'
    BY <1>5, <2>1, <2>2, Confirmed DEF Removing, NothingUnnamed, Process, Idle
  <2> QED BY <2>4, <2>5, <2>6, <2>7 DEF Inv, AllFit
<1> QED BY <1>3, <1>4, <1>6, <1>7 DEF MarkAssembled, CompleteResumable

(* An upload is cancelled, its multipart upload aborted, its object erased.*)
LEMMA CancelStep ==
  ASSUME TypeOK, TypeOK', Inv, NEW r \in Process, Tombstone(r) \/ AbortMultipart(r) \/ Erase(r)
  PROVE  Inv'
<1> USE UploadAssumption DEF Unlocked, Quietly, worldVars, storeVars
<1>0. /\ handler[r] \in Handler /\ Fits(r) /\ Holds(r) /\ r # None
      /\ row # None => row \in Row
      /\ \A q \in Process : Fits(q) /\ Holds(q) /\ q # None
  BY DEF TypeOK, Inv, AllFit, Fits
<1>1. \A q \in Process : Finalizing(q) => row # None /\ row.leased /\ row.token = q
  BY <1>0 DEF Fits, Finalizing
<1>2. CASE Tombstone(r) /\ ~MayCancel(handler[r])
  <2>1. Unmoved(r)
    BY <1>2, ReleasedRow DEF Tombstone, Unmoved
  <2> QED BY <1>2, <2>1, Ended, OverStep DEF Tombstone
<1>3. CASE Tombstone(r) /\ MayCancel(handler[r])
  <2>1. /\ row # None /\ row \in Row /\ ~row.sent /\ locked = None /\ handler[r].stage = "cancel"
        /\ row' = [row EXCEPT !.state = "cancelled", !.deleted = @ \/ ~row.sent,
                              !.ready = @ \/ ~row.sent]
        /\ UNCHANGED <<locked, multiparts, object, recorded, discarded, old>>
    BY <1>0, <1>3 DEF Tombstone, MayCancel
  <2>2. /\ row'.state = "cancelled" /\ row'.offset = row.offset
        /\ row'.parts = row.parts /\ row'.multipart = row.multipart
        /\ row'.deleted /\ row'.ready /\ row'.sent = row.sent /\ row'.leased = row.leased
        /\ row'.token = row.token
    BY <2>1 DEF Row
  <2>3. row' # None
    <3>1. row.deleted \in BOOLEAN /\ row.ready \in BOOLEAN
      BY <2>1 DEF Row
    <3>2. row' = [row EXCEPT !.state = "cancelled", !.deleted = row.deleted \/ ~row.sent,
                             !.ready = row.ready \/ ~row.sent]
      BY <2>1
    <3>3. row' \in Row
      BY <2>1, <3>1, <3>2, EditedRow
    <3> QED BY <3>3
  <2>4. /\ handler'[r].stage = IF handler[r].multipart = None THEN "erase" ELSE "abort"
        /\ handler'[r].multipart = handler[r].multipart /\ handler'[r].token = handler[r].token
        /\ \A q \in Process : q # r => handler'[q] = handler[q]
    BY <1>3, Moved DEF Tombstone, Stage
  <2>5. Fits(r)'
    BY <1>0, <2>1, <2>2, <2>3, <2>4 DEF Fits, Holds
  <2>6. ASSUME NEW q \in Process, q # r PROVE Fits(q)'
    <3>1. Finalizing(q) => row'.leased /\ row'.token = q
      BY <1>1, <2>2
    <3> QED BY <1>0, <2>1, <2>2, <2>3, <2>4, <2>6, <3>1, StillFits
  <2>7. Sound'
    BY <2>1, <2>2, <2>3 DEF Inv, Sound
  <2>8. Removing' /\ NothingUnnamed'
    BY <1>0, <2>1, <2>3, <2>4 DEF Removing, NothingUnnamed, Process, Holds
  <2> QED BY <2>5, <2>6, <2>7, <2>8 DEF Inv, AllFit
<1>4. CASE AbortMultipart(r)
  <2> DEFINE i == handler[r].multipart
  <2>1. /\ handler[r].stage = "abort" /\ locked = None /\ i \in Id
        /\ multiparts' = [multiparts EXCEPT ![i] = IF multiparts[i] = "open" THEN "aborted"
                                                   ELSE multiparts[i]]
        /\ row' = Forgotten /\ To(r, "erase") /\ UNCHANGED <<locked, object, recorded, discarded, old>>
        /\ row = None \/ row.state = "cancelled"
    BY <1>0, <1>4 DEF AbortMultipart, Fits, Handler
  <2>2. row = None => row' = None
    BY <2>1 DEF Forgotten
  <2>3. row # None => /\ row' # None /\ row'.state = "cancelled" /\ row'.multipart = None
                      /\ row'.offset = row.offset /\ row'.parts = row.parts
                      /\ row'.deleted = row.deleted /\ row'.ready = row.ready
                      /\ row'.sent = row.sent /\ row'.leased = row.leased
                      /\ row'.token = row.token
    <3> SUFFICES ASSUME row # None PROVE /\ row' # None /\ row'.state = "cancelled"
                      /\ row'.multipart = None
                      /\ row'.offset = row.offset /\ row'.parts = row.parts
                      /\ row'.deleted = row.deleted /\ row'.ready = row.ready
                      /\ row'.sent = row.sent /\ row'.leased = row.leased
                      /\ row'.token = row.token
      OBVIOUS
    <3>1. row' = [row EXCEPT !.multipart = None] /\ row \in Row
      BY <1>0, <2>1 DEF Forgotten
    <3>2. row' \in Row
      BY <3>1, EditedRow
    <3> QED BY <2>1, <3>1, <3>2 DEF Row
  <2>4. /\ handler'[r].stage = "erase" /\ handler'[r].multipart = i
        /\ handler'[r].token = handler[r].token
        /\ \A q \in Process : q # r => handler'[q] = handler[q]
    BY <2>1, Moved DEF Stage
  <2>5. /\ \A j \in Id : multiparts'[j] = multiparts[j] \/ multiparts'[j] \in Over
        /\ multiparts'[i] # "open"
    BY <2>1 DEF TypeOK, Over
  <2>6. multiparts[i] # "none"
    BY <1>0, <2>1 DEF Fits
  <2>7. row # None => row.multipart \in {i, None}
    BY <1>0, <2>1 DEF Fits
  <2> HIDE DEF i
  <2>8. Fits(r)'
    BY <1>0, <2>1, <2>2, <2>3, <2>4, <2>5, <2>6 DEF Fits, Holds, Over, i
  <2>9. ASSUME NEW q \in Process, q # r PROVE Fits(q)'
    <3>1. Finalizing(q) => row' # None /\ row'.leased /\ row'.token = q
      BY <1>1, <2>3
    <3> QED BY <1>0, <2>1, <2>2, <2>3, <2>4, <2>5, <2>9, <3>1, StillFits
  <2>10. \A j \in Id : multiparts'[j] = "open" => multiparts[j] = "open" /\ j # i
    BY <2>5 DEF Over
  <2>11. recorded \subseteq Id /\ \A j \in recorded : j # None
    BY DEF TypeOK
  <2>12. Sound'
    <3> SUFFICES ASSUME row' # None PROVE Sound'
      BY DEF Sound
    <3>1. row # None /\ row.state = "cancelled"
      BY <2>1, <2>2
    <3>2. \A j \in recorded' : multiparts'[j] # "open" /\ multiparts'[j] # "none"
      BY <2>1, <2>5, <2>7, <2>10, <2>11, <3>1 DEF Inv, Sound, Over
    <3> QED BY <2>1, <2>3, <3>1, <3>2 DEF Inv, Sound
  <2>13. Removing'
    BY <1>0, <2>1, <2>4 DEF Removing, Process, Holds
  <2>14. NothingUnnamed'
    BY <2>1, <2>2, <2>3, <2>10, <2>11 DEF Inv, NothingUnnamed
  <2> QED BY <2>8, <2>9, <2>12, <2>13, <2>14 DEF Inv, AllFit
<1>5. CASE Erase(r)
  <2>1. /\ handler[r].stage = "erase" /\ object' = {} /\ row' = Released(r) /\ End(r, "error")
        /\ UNCHANGED <<locked, multiparts, recorded, discarded, old>>
        /\ row = None \/ row.state = "cancelled"
    BY <1>0, <1>5 DEF Erase, Fits
  <2>2. /\ row' = None <=> row = None
        /\ row # None => /\ row'.state = "cancelled" /\ row'.offset = row.offset
                         /\ row'.parts = row.parts /\ row'.multipart = row.multipart
                         /\ row'.deleted = row.deleted /\ row'.ready = row.ready
                         /\ row'.sent = row.sent /\ row'.leased = row.leased
                         /\ row'.token = IF row.token = r THEN None ELSE row.token
    BY <2>1, ReleasedRow
  <2>3. /\ \A q \in Process : q # r => handler'[q] = handler[q]
        /\ handler'[r] = Idle \/ (r = client.request /\ handler'[r].stage = "error")
    BY <2>1, Ended
  <2>4. Fits(r)'
    BY <2>3, OverFits
  <2>5. ASSUME NEW q \in Process, q # r PROVE Fits(q)'
    <3>1. Finalizing(q) => row' # None /\ row'.leased /\ row'.token = q
      BY <1>1, <2>2, <2>5
    <3> QED BY <1>0, <2>1, <2>2, <2>3, <2>5, <3>1, StillFits
  <2>6. Sound'
    BY <2>1, <2>2 DEF Inv, Sound
  <2>7. Removing'
    BY <1>0, <2>1, <2>2, <2>3 DEF Inv, Removing, Process, Holds, Idle
  <2>8. NothingUnnamed'
    BY <2>1, <2>2 DEF Inv, NothingUnnamed
  <2> QED BY <2>4, <2>5, <2>6, <2>7, <2>8 DEF Inv, AllFit
<1> QED BY <1>2, <1>3, <1>4, <1>5

(* A call fails: what was locked is rolled back, a multipart upload that   *)
(* was just begun is aborted.                                              *)
LEMMA FailureStep ==
  ASSUME TypeOK, TypeOK', Inv, NEW r \in Process, Fails(r) \/ FailsToCancel(r) \/ StoreFails(r)
  PROVE  Inv'
<1> USE UploadAssumption DEF worldVars, storeVars
<1>0. /\ handler[r] \in Handler /\ Fits(r) /\ Holds(r) /\ r # None
      /\ row # None => row \in Row
      /\ \A q \in Process : Fits(q) /\ Holds(q) /\ q # None
  BY DEF TypeOK, Inv, AllFit, Fits
<1>1. CASE StoreFails(r)
  <2>1. Unmoved(r)
    BY <1>1, ReleasedRow DEF StoreFails, Unmoved
  <2>2. CASE handler[r].stage = "erase"
    BY <1>1, <2>1, <2>2, Ended, OverStep DEF StoreFails
  <2>3. CASE handler[r].stage = "abort"
    <3>1. To(r, "erase") /\ UNCHANGED <<row, locked, multiparts>>
      BY <1>1, <2>3 DEF StoreFails
    <3>2. Fits(r)'
      BY <1>0, <2>3, <3>1, Moved DEF Fits, Holds, Stage
    <3> QED BY <2>1, <3>1, <3>2, Moved, UnmovedStep DEF Stage
  <2> QED BY <1>1, <2>2, <2>3 DEF StoreFails
<1>2. CASE Fails(r) /\ handler[r].stage # "begun"
  <2>1. Unmoved(r) /\ (locked' = locked \/ locked = r) /\ End(r, "error")
    BY <1>2, ReleasedRow DEF Fails, AbortLost, Unmoved
  <2> QED BY <2>1, Ended, OverStep
<1>3. CASE Fails(r) /\ handler[r].stage = "begun"
  <2> DEFINE i == handler[r].multipart
  <2>1. /\ multiparts' = [multiparts EXCEPT ![i] = "aborted"] /\ row' = Released(r)
        /\ End(r, "error") /\ UNCHANGED <<object, recorded, discarded, old>>
        /\ locked' = None /\ locked = r /\ row # None /\ row.multipart = None
        /\ row.state \in {"creating", "uploading"}
    BY <1>0, <1>3 DEF Fails, AbortLost, Fits, Holds
  <2>2. /\ row' # None /\ row'.state = row.state /\ row'.offset = row.offset
        /\ row'.parts = row.parts /\ row'.multipart = row.multipart
        /\ row'.deleted = row.deleted /\ row'.ready = row.ready
        /\ row'.sent = row.sent /\ row'.leased = row.leased
        /\ row'.token = IF row.token = r THEN None ELSE row.token
    BY <2>1, ReleasedRow
  <2>3. /\ \A q \in Process : q # r => handler'[q] = handler[q]
        /\ handler'[r] = Idle \/ (r = client.request /\ handler'[r].stage = "error")
    BY <2>1, Ended
  <2>4. \A j \in Id : multiparts'[j] = multiparts[j] \/ multiparts'[j] \in Over
    BY <2>1 DEF TypeOK, Over
  <2>5. Fits(r)'
    BY <2>3, OverFits
  <2>6. ASSUME NEW q \in Process, q # r PROVE Fits(q)'
    <3>1. Finalizing(q) => row' # None /\ row'.leased /\ row'.token = q
      BY <1>0, <2>2, <2>6 DEF Fits, Finalizing
    <3> QED BY <1>0, <2>1, <2>2, <2>3, <2>4, <2>6, <3>1, StillFits
  <2>7. Sound'
    <3>1. recorded \subseteq Id
      BY DEF TypeOK
    <3> QED BY <2>1, <2>2, <2>4, <3>1 DEF Inv, Sound, Over
  <2>8. Removing' /\ NothingUnnamed'
    BY <1>0, <2>1, <2>2, <2>3 DEF Removing, NothingUnnamed, Process, Holds, Idle
  <2> QED BY <2>5, <2>6, <2>7, <2>8 DEF Inv, AllFit
<1>4. CASE FailsToCancel(r)
  <2>1. Unmoved(r)
    BY <1>4 DEF FailsToCancel, Unmoved
  <2>2. To(r, "cancel") /\ UNCHANGED <<row, locked, multiparts>>
    BY <1>4 DEF FailsToCancel
  <2>3. Fits(r)'
    BY <1>0, <1>4, <2>2, Moved DEF FailsToCancel, Fits, Holds, Stage
  <2> QED BY <2>1, <2>2, <2>3, Moved, UnmovedStep DEF Stage
<1> QED BY <1>1, <1>2, <1>3, <1>4

(* A file is deleted by its owner: it has been marked as deleted before    *)
(* its object goes, and no finalization is under way when its row goes.    *)
LEMMA DiscardStep ==
  ASSUME TypeOK, TypeOK', Inv, NEW r \in Process, DiscardRow(r) \/ DiscardRowFails(r)
  PROVE  Inv'
<1> USE UploadAssumption DEF Unlocked, worldVars, storeVars
<1>0. /\ Fits(r) /\ r # None
      /\ row # None => row \in Row
      /\ \A q \in Process : Fits(q) /\ Holds(q) /\ q # None
  BY DEF TypeOK, Inv, AllFit, Fits
<1>1. \A q \in Process : Finalizing(q) => row # None /\ row.leased /\ row.token = q
  BY <1>0 DEF Fits, Finalizing
<1>2. /\ handler[r].stage = "discard" /\ object' = {} /\ End(r, "ok")
      /\ UNCHANGED <<locked, multiparts, recorded, old>>
      /\ row # None => row.ready /\ row.deleted
  BY <1>0 DEF DiscardRow, DiscardRowFails, Fits
<1>3. /\ \A q \in Process : q # r => handler'[q] = handler[q]
      /\ handler'[r] = Idle \/ (r = client.request /\ handler'[r].stage = "ok")
  BY <1>2, Ended
<1>4. Fits(r)'
  BY <1>3, OverFits
<1>5. r # Cleaner
  BY <1>0, <1>2 DEF Fits, Holds
<1>6. CASE row' = row /\ UNCHANGED discarded
  <2>1. row # None => row.state \notin {"uploading", "assembled"}
    BY <1>2 DEF Inv, Sound
  <2>2. ASSUME NEW q \in Process, q # r PROVE Fits(q)'
    BY <1>0, <1>1, <1>2, <1>3, <1>6, <2>1, <2>2, StillFits
  <2>3. Sound'
    BY <1>2, <1>6, <2>1 DEF Inv, Sound
  <2>4. Removing' /\ NothingUnnamed'
    BY <1>2, <1>3, <1>5, <1>6 DEF Inv, Removing, NothingUnnamed, Process
  <2> QED BY <1>4, <2>2, <2>3, <2>4 DEF Inv, AllFit
<1>7. CASE /\ row # None /\ row' = None /\ locked = None
           /\ row.sent \/ ~row.leased
           /\ discarded' = discarded \cup ({row.multipart} \ {None})
  <2>1. \A q \in Process : ~Finalizing(q)
    BY <1>0, <1>1, <1>7 DEF Inv, Sound
  <2>2. ASSUME NEW q \in Process, q # r PROVE Fits(q)'
    BY <1>0, <1>2, <1>3, <1>7, <2>1, <2>2, StillFits
  <2>3. Sound'
    BY <1>7 DEF Sound
  <2>4. Removing'
    BY <1>0, <1>3, <1>5, <1>7 DEF Removing, Holds, Process
  <2>5. NothingUnnamed'
    <3>1. recorded \subseteq Id
      BY DEF TypeOK
    <3> QED BY <1>2, <1>7, <3>1 DEF Inv, Sound, NothingUnnamed
  <2> QED BY <1>4, <2>2, <2>3, <2>4, <2>5 DEF Inv, AllFit
<1> QED BY <1>6, <1>7 DEF DiscardRow, DiscardRowFails

(* The cleanup: an object goes only when nobody wants it, a row only when  *)
(* its object is gone.                                                     *)
LEMMA CleanupStep ==
  ASSUME TypeOK, TypeOK', Inv, Cleanup
  PROVE  Inv'
<1> USE UploadAssumption DEF Quietly, worldVars, storeVars
<1>0. /\ Cleaner \in Process /\ handler[Cleaner] \in Handler /\ Cleaner # None
      /\ row # None => row \in Row
      /\ \A q \in Process : Fits(q) /\ Holds(q) /\ q # None
  BY DEF TypeOK, Inv, AllFit, Fits, Process
<1>1. \A q \in Process : Finalizing(q) => row # None /\ row.leased /\ row.token = q
  BY <1>0 DEF Fits, Finalizing
<1>2. CASE CleanStorageFeatures
  <2>1. /\ Unmoved(Cleaner) /\ row # None /\ UNCHANGED <<row, locked, multiparts>>
        /\ handler' = [handler EXCEPT ![Cleaner] =
             [Idle EXCEPT !.stage = "cancel", !.multipart = row.multipart]]
    BY <1>2 DEF CleanStorageFeatures, Unmoved
  <2>2. /\ handler'[Cleaner].stage = "cancel" /\ handler'[Cleaner].multipart = row.multipart
        /\ handler'[Cleaner].token = None
        /\ \A q \in Process : q # Cleaner => handler'[q] = handler[q]
    BY <1>0, <2>1 DEF TypeOK, Idle
  <2>3. Fits(Cleaner)'
    BY <2>1, <2>2 DEF Fits, Holds, Inv, Sound
  <2> QED BY <1>0, <2>1, <2>2, <2>3, UnmovedStep
<1>3. CASE CleanPendingAttachments
  <2>1. /\ row # None /\ MayRemove /\ locked = None /\ locked' = Cleaner /\ object' = {}
        /\ To(Cleaner, "remove") /\ UNCHANGED <<row, multiparts, recorded, discarded, old>>
        /\ handler[Cleaner].multipart = None /\ handler[Cleaner].token = None
    BY <1>0, <1>3 DEF CleanPendingAttachments, Lock, Fits
  <2>2. /\ handler'[Cleaner].stage = "remove" /\ handler'[Cleaner].multipart = None
        /\ handler'[Cleaner].token = None
        /\ \A q \in Process : q # Cleaner => handler'[q] = handler[q]
    BY <1>0, <2>1, Moved DEF Stage
  <2>3. Fits(Cleaner)'
    BY <2>1, <2>2 DEF Fits, Holds
  <2>4. row.state \in {"complete", "cancelled"} /\ ~row.leased
    BY <2>1 DEF MayRemove
  <2>5. ASSUME NEW q \in Process, q # Cleaner PROVE Fits(q)'
    <3>1. ~Finalizing(q)
      BY <1>1, <2>4
    <3> QED BY <1>0, <2>1, <2>2, <2>4, <2>5, <3>1, StillFits
  <2>6. Sound'
    BY <2>1, <2>4 DEF Inv, Sound, MayRemove, Unwanted
  <2>7. Removing' /\ NothingUnnamed'
    BY <2>1, <2>4 DEF Removing, NothingUnnamed, MayRemove
  <2> QED BY <2>3, <2>5, <2>6, <2>7 DEF Inv, AllFit
<1>4. CASE RemoveRow
  <2>1. /\ handler[Cleaner].stage = "remove" /\ row' = None /\ locked' = None /\ locked = Cleaner
        /\ To(Cleaner, "idle") /\ UNCHANGED <<multiparts, object, recorded, discarded, old>> /\ row # None
    BY <1>0, <1>4 DEF RemoveRow, Holds
  <2>2. /\ ~row.leased /\ object = {}
        /\ row.state = "complete" \/ (row.state = "cancelled" /\ row.multipart = None)
    BY <2>1 DEF Inv, Removing
  <2>3. handler'[Cleaner].stage = "idle" /\ \A q \in Process : q # Cleaner => handler'[q] = handler[q]
    BY <1>0, <2>1, Moved DEF Stage
  <2>4. Fits(Cleaner)'
    <3>1. handler'[Cleaner].multipart = None /\ handler'[Cleaner].token = None
      BY <1>0, <2>1, Moved DEF Stage, Fits
    <3> QED BY <2>3, <3>1 DEF Fits, Holds
  <2>5. ASSUME NEW q \in Process, q # Cleaner PROVE Fits(q)'
    <3>1. ~Finalizing(q)
      BY <1>1, <2>2
    <3> QED BY <1>0, <2>1, <2>3, <2>5, <3>1, StillFits
  <2>6. Sound' /\ Removing'
    BY <2>1, <2>3 DEF Sound, Removing
  <2>7. NothingUnnamed'
    <3>1. recorded \subseteq Id
      BY DEF TypeOK
    <3> QED BY <1>0, <2>1, <2>2, <3>1 DEF Inv, Sound, NothingUnnamed, Over
  <2> QED BY <2>4, <2>5, <2>6, <2>7 DEF Inv, AllFit
<1> QED BY <1>2, <1>3, <1>4 DEF Cleanup

(* The client's requests and its answers.                                  *)
LEMMA ClientStep ==
  ASSUME TypeOK, TypeOK', Waits, Inv,
         \/ \E r \in Request : PutChunk(r) \/ Complete(r) \/ CancelUpload(r)
         \/ Answered
  PROVE  Inv'
<1> USE UploadAssumption DEF worldVars, storeVars
<1>1. ASSUME NEW r \in Request, PutChunk(r) \/ Complete(r) \/ CancelUpload(r) PROVE Inv'
  <2>0. PICK asked \in {"chunk", "finish", "delete"} :
          Ask(r, asked) /\ (asked = "chunk" => client.offset < Chunks)
    BY <1>1 DEF PutChunk, Complete, CancelUpload
  <2>1. PICK stage \in {"chunk", "finish", "delete", "error"} :
          /\ stage = "chunk" => client.offset < Chunks
          /\ handler' = [handler EXCEPT ![r] =
               [Idle EXCEPT !.stage = stage, !.offset = client.offset]]
    BY <2>0 DEF Ask
  <2>2. /\ r \in Process /\ r # Cleaner
        /\ UNCHANGED <<row, locked, multiparts, object, recorded, discarded, old>>
    BY <2>0 DEF Ask, Process
  <2>3. /\ handler'[r].stage = stage /\ handler'[r].offset = client.offset
        /\ handler'[r].multipart = None /\ handler'[r].token = None
        /\ \A q \in Process : q # r => handler'[q] = handler[q]
    BY <2>1, <2>2 DEF TypeOK, Idle
  <2>4. Fits(r)'
    BY <2>1, <2>2, <2>3 DEF Fits, Holds
  <2>5. Unmoved(r)
    BY <2>2 DEF Unmoved
  <2> QED BY <2>2, <2>3, <2>4, <2>5, UnmovedStep
<1>2. CASE Answered
  <2>1. client.request \in Process /\ handler' = [handler EXCEPT ![client.request] = Idle]
        /\ UNCHANGED <<row, locked, multiparts, object, recorded, discarded, old>>
    BY <1>2 DEF Answered, Waits, TypeOK, Client, Process
  <2>2. handler'[client.request] = Idle
        /\ \A q \in Process : q # client.request => handler'[q] = handler[q]
    BY <2>1 DEF TypeOK
  <2>3. Unmoved(client.request)
    BY <2>1 DEF Unmoved
  <2> QED BY <2>1, <2>2, <2>3, OverStep
<1> QED BY <1>1, <1>2

(* What the user, the clock and the operator of the server do.             *)
LEMMA WorldStep ==
  ASSUME TypeOK, TypeOK', Inv,
         \/ Resume \/ Interrupted \/ Restart \/ Send \/ DeleteMessage \/ EndSession
         \/ DayPasses \/ LeaseEnds \/ UNCHANGED vars
         \/ \E r \in Request : Discard(r)
  PROVE  Inv'
<1> USE UploadAssumption DEF worldVars, storeVars, serverVars, Unlocked, Quietly
<1>0. /\ row # None => row \in Row
      /\ \A q \in Process : Fits(q) /\ Holds(q) /\ q # None
  BY DEF TypeOK, Inv, AllFit, Fits
<1>1. \A q \in Process : Finalizing(q) => row # None /\ row.leased /\ row.token = q
  BY <1>0 DEF Fits, Finalizing
<1>2. CASE Resume \/ Interrupted \/ EndSession \/ UNCHANGED vars
  <2>1. UNCHANGED <<row, locked, handler, multiparts, object, recorded, discarded, old>>
    BY <1>2 DEF Resume, Interrupted, EndSession, vars
  <2> QED BY <2>1 DEF Inv, AllFit, Fits, Holds, Sound, Removing, NothingUnnamed
<1>3. CASE DayPasses
  <2>1. UNCHANGED <<row, locked, handler, multiparts, object, recorded, discarded>> /\ old' = TRUE
    BY <1>3 DEF DayPasses
  <2> QED BY <2>1 DEF Inv, AllFit, Fits, Holds, Sound, Removing, NothingUnnamed
<1>4. CASE Restart
  <2>1. UNCHANGED <<row, multiparts, object, recorded, discarded, old>> /\ handler' = [r \in Process |-> Idle]
    BY <1>4 DEF Restart
  <2>2. \A q \in Process : Fits(q)'
    BY <2>1, OverFits
  <2>3. Removing'
    BY <2>1 DEF Removing, Idle, Process
  <2> QED BY <2>1, <2>2, <2>3 DEF Inv, AllFit, Sound, NothingUnnamed
<1>5. ASSUME row # None, row' # None, locked = None,
             UNCHANGED <<locked, handler, multiparts, object, recorded, discarded, old>>,
             row'.state = row.state, row'.offset = row.offset, row'.multipart = row.multipart,
             row.deleted => row'.deleted, row.ready => row'.ready,
             \A q \in Process : Finalizing(q) => row'.leased /\ row'.token = q
      PROVE  AllFit' /\ Removing' /\ NothingUnnamed'
  <2>1. ASSUME NEW q \in Process PROVE Fits(q)'
    BY <1>0, <1>5, StillFits
  <2>2. handler[Cleaner].stage # "remove"
    BY <1>0, <1>5 DEF Holds, Process
  <2> QED BY <1>5, <2>1, <2>2 DEF AllFit, Removing, NothingUnnamed
<1>6. CASE Send
  <2>1. /\ row \in Row /\ row' = [row EXCEPT !.sent = TRUE] /\ row # None /\ locked = None
        /\ row.ready /\ ~row.deleted /\ ~row.sent /\ ~old
        /\ UNCHANGED <<locked, handler, multiparts, object, recorded, discarded, old>>
    BY <1>0, <1>6 DEF Send
  <2>2. row' # None
    <3>1. row' \in Row
      BY <2>1, EditedRow
    <3> QED BY <3>1
  <2>3. /\ row'.state = row.state /\ row'.offset = row.offset /\ row'.parts = row.parts
        /\ row'.multipart = row.multipart /\ row'.deleted = row.deleted
        /\ row'.ready = row.ready /\ row'.sent /\ row'.leased = row.leased /\ row'.token = row.token
    BY <2>1 DEF Row
  <2>4. AllFit' /\ Removing' /\ NothingUnnamed'
    BY <1>1, <1>5, <2>1, <2>2, <2>3
  <2>5. Sound'
    BY <2>1, <2>2, <2>3 DEF Inv, Sound
  <2> QED BY <2>4, <2>5 DEF Inv
<1>7. CASE DeleteMessage
  <2>1. /\ row \in Row /\ row' = [row EXCEPT !.deleted = TRUE] /\ row # None /\ locked = None
        /\ UNCHANGED <<locked, handler, multiparts, object, recorded, discarded, old>>
    BY <1>0, <1>7 DEF DeleteMessage
  <2>2. row' # None
    <3>1. row' \in Row
      BY <2>1, EditedRow
    <3> QED BY <3>1
  <2>3. /\ row'.state = row.state /\ row'.offset = row.offset /\ row'.parts = row.parts
        /\ row'.multipart = row.multipart /\ row'.deleted
        /\ row'.ready = row.ready /\ row'.sent = row.sent /\ row'.leased = row.leased
        /\ row'.token = row.token
    BY <2>1 DEF Row
  <2>4. AllFit' /\ Removing' /\ NothingUnnamed'
    BY <1>1, <1>5, <2>1, <2>2, <2>3
  <2>5. Sound'
    BY <2>1, <2>2, <2>3 DEF Inv, Sound
  <2> QED BY <2>4, <2>5 DEF Inv
<1>8. CASE LeaseEnds
  <2>1. /\ row \in Row /\ row' = [row EXCEPT !.leased = FALSE] /\ row # None
        /\ \A q \in Request : ~Finalizing(q)
        /\ UNCHANGED <<locked, handler, multiparts, object, recorded, discarded, old>>
    BY <1>0, <1>8 DEF LeaseEnds
  <2>2. row' # None
    <3>1. row' \in Row
      BY <2>1, EditedRow
    <3> QED BY <3>1
  <2>3. /\ row'.state = row.state /\ row'.offset = row.offset /\ row'.parts = row.parts
        /\ row'.multipart = row.multipart /\ row'.deleted = row.deleted
        /\ row'.ready = row.ready /\ row'.sent = row.sent /\ ~row'.leased /\ row'.token = row.token
    BY <2>1 DEF Row
  <2>4. \A q \in Process : ~Finalizing(q)
    BY <1>0, <2>1 DEF Finalizing, Fits, Process
  <2>5. ASSUME NEW q \in Process PROVE Fits(q)'
    BY <1>0, <2>1, <2>2, <2>3, <2>4, StillFits
  <2>6. Sound'
    BY <2>1, <2>2, <2>3 DEF Inv, Sound
  <2>7. Removing' /\ NothingUnnamed'
    BY <2>1, <2>2, <2>3 DEF Inv, Removing, NothingUnnamed
  <2> QED BY <2>5, <2>6, <2>7 DEF Inv, AllFit
<1>9. ASSUME NEW r \in Request, Discard(r) PROVE Inv'
  <2>1. /\ row \in Row /\ row' = [row EXCEPT !.deleted = TRUE] /\ row # None /\ locked = None
        /\ row.ready /\ To(r, "discard") /\ handler[r].stage = "idle" /\ r \in Process
        /\ UNCHANGED <<locked, multiparts, object, recorded, discarded, old>>
    BY <1>0, <1>9 DEF Discard, Process
  <2>2. row' # None
    <3>1. row' \in Row
      BY <2>1, EditedRow
    <3> QED BY <3>1
  <2>3. /\ row'.state = row.state /\ row'.offset = row.offset /\ row'.parts = row.parts
        /\ row'.multipart = row.multipart /\ row'.deleted
        /\ row'.ready = row.ready /\ row'.sent = row.sent /\ row'.leased = row.leased
        /\ row'.token = row.token
    BY <2>1 DEF Row
  <2>4. /\ \A q \in Process : q # r => handler'[q] = handler[q]
        /\ handler'[r].stage = "discard" /\ handler'[r].multipart = handler[r].multipart
        /\ handler'[r].token = handler[r].token
    BY <2>1, Moved DEF Stage
  <2>5. ASSUME NEW q \in Process, q # r PROVE Fits(q)'
    BY <1>0, <1>1, <2>1, <2>2, <2>3, <2>4, <2>5, StillFits
  <2>6. Fits(r)'
    BY <1>0, <1>9, <2>1, <2>2, <2>3, <2>4 DEF Fits, Holds
  <2>7. Sound'
    BY <2>1, <2>2, <2>3 DEF Inv, Sound
  <2>8. Removing' /\ NothingUnnamed'
    BY <1>0, <2>1, <2>2, <2>4 DEF Removing, NothingUnnamed, Holds, Process
  <2> QED BY <2>5, <2>6, <2>7, <2>8 DEF Inv, AllFit
<1> QED BY <1>2, <1>3, <1>4, <1>6, <1>7, <1>8, <1>9

LEMMA InvStep ==
  ASSUME TypeOK, TypeOK', Waits, Inv, [Next]_vars PROVE Inv'
<1>1. ASSUME NEW r \in Process, Handle(r) PROVE Inv'
  BY <1>1, ReadingStep, ChunkStep, JoinStep, FinishStep, CancelStep, DiscardStep DEF Handle
<1> QED
  BY <1>1, ClientStep, WorldStep, FailureStep, JoinStep, CleanupStep, DiscardStep DEF Next

(* The whole invariant holds in every state.                               *)
LEMMA InvHolds == Spec => [](TypeOK /\ Waits /\ Inv)
<1>1. Init => TypeOK /\ Waits
  <2> SUFFICES ASSUME Init PROVE TypeOK /\ Waits
    OBVIOUS
  <2>1. row \in Row
    BY UploadAssumption DEF Init, Row, State
  <2>2. Idle \in Handler
    BY UploadAssumption DEF Idle, Handler, Stage, State
  <2>3. /\ handler \in [Process -> Handler] /\ failures \in 0 .. MaxFailures
        /\ client \in Client
    BY <2>2, UploadAssumption DEF Init, Client
  <2> QED BY <2>1, <2>3 DEF Init, TypeOK, Waits
<1>2. Init => Inv
  <2> SUFFICES ASSUME Init, TypeOK PROVE Inv
    BY <1>1
  <2>1. ASSUME NEW r \in Process PROVE Fits(r)
    BY <2>1, UploadAssumption DEF Init, Idle, Fits, Holds
  <2>2. Sound
    BY DEF Init, Sound
  <2>3. Removing /\ NothingUnnamed
    BY UploadAssumption DEF Init, Idle, Removing, NothingUnnamed, Process, TypeOK, Row
  <2> QED BY <2>1, <2>2, <2>3 DEF Inv, AllFit
<1>3. (TypeOK /\ Waits /\ Inv) /\ [Next]_vars => (TypeOK /\ Waits /\ Inv)'
  <2> SUFFICES ASSUME TypeOK, Waits, Inv, [Next]_vars PROVE TypeOK' /\ Waits' /\ Inv'
    OBVIOUS
  <2>1. Held
    BY DEF Inv, AllFit, Fits, Held
  <2>2. TypeOK' /\ Waits'
    BY <2>1, TypeStep
  <2> QED BY <2>2, InvStep
<1> QED BY <1>1, <1>2, <1>3, PTL DEF Spec

(* Every variable of AttachmentUpload keeps its type in every step.        *)
THEOREM TypeCorrect == Spec => []TypeOK
<1> QED BY InvHolds, PTL

(* A file that can be sent or downloaded is all of its chunks in one       *)
(* stored object, whatever requests overlap, fail, lose their answers or   *)
(* are cut off by a restart (uploadChunk, finishResumable,                 *)
(* cancelResumable, CleanPendingAttachments).                              *)
THEOREM WholeWhenReady == Spec => []ReadyIsWhole
<1>1. Inv => ReadyIsWhole
  BY DEF Inv, Sound, ReadyIsWhole, Kept
<1> QED BY <1>1, InvHolds, PTL

(* Nothing stays in the object store that no row names: the object and the *)
(* multipart upload are gone before the row is (cancelResumable,           *)
(* CleanStorageFeatures, CleanPendingAttachments, deletePendingAttachment),*)
(* but for a multipart upload that a cancellation could not abort and      *)
(* whose file the user has then deleted (removePendingAttachment).         *)
THEOREM AllNamed == Spec => []NothingUnnamed
<1>1. Inv => NothingUnnamed
  BY DEF Inv
<1> QED BY <1>1, InvHolds, PTL
=============================================================================
