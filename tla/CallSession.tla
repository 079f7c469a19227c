----------------------------- MODULE CallSession -----------------------------
(***************************************************************************)
(* The call screen's session (useCallSession,                              *)
(* apps/web/src/features/call/useCallSession.ts): joining is a chain of    *)
(* awaits, and while one is pending the person may leave, join elsewhere   *)
(* or close the page, and the signaling socket may end for good. What the  *)
(* continuation then finds in the hook's refs decides what it does.        *)
(*                                                                         *)
(* An attempt is one call of join, with the controller, the engine and the *)
(* signaling connection it makes; a toggle is any other task of perform    *)
(* (camera, screen, stopping a recording); a session is one recording      *)
(* (TrackRecordingSession, apps/web/src/media/recording.ts).               *)
(***************************************************************************)
EXTENDS FiniteSets

CONSTANTS
  Attempt, Toggle, Session, Room, None

SessionAssumption ==
  /\ None \notin Attempt \cup Toggle \cup Session
  /\ Attempt \cap Toggle = {}

VARIABLES
  active,         \* the component is mounted
  refs,           \* the hook's refs and the state it shows
  aborted,        \* attempts whose controller has been aborted
  attempt,        \* attempt -> the await it is at
  roomOf,         \* attempt -> its room
  engineOf,       \* attempt -> its media engine: none, live or disposed
  socketOf,       \* attempt -> its connection: none, idle, connecting, open, retrying, closed
  toggle,         \* toggle -> unused, running or done
  recording,      \* session -> its state
  waiters,        \* session -> who waits for it to stop
  forgotten       \* sessions whose ref another session's callback has cleared

resources == <<engineOf, socketOf>>
recordings == <<recording, waiters, forgotten>>
vars == <<active, refs, aborted, attempt, roomOf, resources, toggle, recordings>>

Await == {"unused", "preparing", "audio", "capturing", "connecting", "done"}

Refs ==
  [engine : Attempt \cup {None}, socket : Attempt \cup {None},
   joinedRoom : Attempt \cup {None}, joined : BOOLEAN, busy : BOOLEAN,
   action : Attempt \cup Toggle \cup {None}, join : Attempt \cup {None},
   abort : Attempt \cup {None}, recorder : Session \cup {None},
   microphone : BOOLEAN, playback : BOOLEAN, signalingDown : BOOLEAN]

TypeOK ==
  /\ active \in BOOLEAN
  /\ refs \in Refs
  /\ aborted \subseteq Attempt /\ attempt \in [Attempt -> Await]
  /\ roomOf \in [Attempt -> Room \cup {None}]
  /\ engineOf \in [Attempt -> {"none", "live", "disposed"}]
  /\ socketOf \in [Attempt -> {"none", "idle", "connecting", "open", "retrying", "closed"}]
  /\ toggle \in [Toggle -> {"unused", "running", "done"}]
  /\ recording \in [Session -> {"unused", "recording", "stopping", "saving", "ended"}]
  /\ waiters \in [Session -> SUBSET ({"finish", "auto"} \cup Toggle)]
  /\ forgotten \subseteq Session

Init ==
  /\ active = TRUE
  /\ refs = [engine |-> None, socket |-> None, joinedRoom |-> None, joined |-> FALSE,
             busy |-> FALSE, action |-> None, join |-> None, abort |-> None, recorder |-> None,
             microphone |-> FALSE, playback |-> FALSE, signalingDown |-> FALSE]
  /\ aborted = {} /\ attempt = [a \in Attempt |-> "unused"] /\ roomOf = [a \in Attempt |-> None]
  /\ engineOf = [a \in Attempt |-> "none"] /\ socketOf = [a \in Attempt |-> "none"]
  /\ toggle = [t \in Toggle |-> "unused"]
  /\ recording = [s \in Session |-> "unused"] /\ waiters = [s \in Session |-> {}]
  /\ forgotten = {}

-----------------------------------------------------------------------------
(* perform: one task at a time; only the current task clears `busy`.       *)
Performing(r, task) == [r EXCEPT !.busy = TRUE, !.action = task]

(* Mutant: any task that ends clears `busy`, the current one or not.       *)
PerformedAnyway(r, task) == [r EXCEPT !.busy = FALSE, !.action = None]

Performed(r, task) ==
  IF r.action = task THEN [r EXCEPT !.busy = FALSE, !.action = None] ELSE r

(* What ending a call clears, whoever ends it.                             *)
Cleared(r) ==
  [r EXCEPT !.engine = None, !.socket = None, !.joinedRoom = None, !.joined = FALSE,
            !.microphone = FALSE, !.playback = FALSE, !.signalingDown = FALSE]

Disposed(a) == IF a = None THEN engineOf ELSE [engineOf EXCEPT ![a] = "disposed"]
Closed(a) == IF a = None THEN socketOf ELSE [socketOf EXCEPT ![a] = "closed"]

(* leave: nobody's task or join is current any more.                       *)
Left(r) ==
  [Cleared(r) EXCEPT !.join = None, !.abort = None, !.action = None, !.busy = FALSE,
                     !.recorder = None]

AbortedBy(r) == aborted \cup ({r.abort} \ {None})

(* Mutant: only the person's own stop ends a recording.                    *)
FinishOnDemand(s, who) ==
  IF s = None \/ who \notin Toggle THEN UNCHANGED recordings
  ELSE /\ recording' = [recording EXCEPT ![s] = IF @ = "recording" THEN "stopping" ELSE @]
       /\ waiters' = [waiters EXCEPT ![s] = @ \cup {who}]
       /\ UNCHANGED forgotten

(* finishRecording: the session is asked to stop, and `who` archives it.   *)
Finish(s, who) ==
  IF s = None THEN UNCHANGED recordings
  ELSE /\ recording' = [recording EXCEPT ![s] = IF @ = "recording" THEN "stopping" ELSE @]
       /\ waiters' = [waiters EXCEPT ![s] = @ \cup {who}]
       /\ UNCHANGED forgotten

Leave ==
  /\ active /\ (refs.engine # None \/ refs.abort # None)
  /\ aborted' = AbortedBy(refs)
  /\ Finish(refs.recorder, "finish")
  /\ socketOf' = Closed(refs.socket) /\ engineOf' = Disposed(refs.engine)
  /\ refs' = Left(refs)
  /\ UNCHANGED <<active, attempt, roomOf, toggle>>

(* The page goes away: the refs stay, what they name is shut down.         *)
Unmount ==
  /\ active /\ active' = FALSE
  /\ aborted' = AbortedBy(refs)
  /\ Finish(refs.recorder, "finish")
  /\ socketOf' = Closed(refs.socket) /\ engineOf' = Disposed(refs.engine)
  /\ refs' = [refs EXCEPT !.join = None, !.abort = None, !.recorder = None, !.playback = FALSE]
  /\ UNCHANGED <<attempt, roomOf, toggle>>

-----------------------------------------------------------------------------
(* join: ends a call in another room first. A call in this room stands.    *)
InRoom(room) == refs.joinedRoom # None /\ roomOf[refs.joinedRoom] = room

Join(a, room) ==
  /\ active /\ attempt[a] = "unused" /\ ~refs.busy
  /\ ~(refs.engine # None /\ InRoom(room))
  /\ LET ends == refs.engine # None \/ refs.socket # None \/ refs.recorder # None
         r == IF ends THEN Left(refs) ELSE refs
     IN /\ aborted' = IF ends THEN AbortedBy(refs) ELSE aborted
        /\ IF ends THEN Finish(refs.recorder, "finish") ELSE UNCHANGED recordings
        /\ IF ends
           THEN socketOf' = Closed(refs.socket) /\ engineOf' = Disposed(refs.engine)
           ELSE UNCHANGED resources
        /\ refs' = [Performing(r, a) EXCEPT !.join = a, !.abort = a, !.playback = TRUE]
  /\ attempt' = [attempt EXCEPT ![a] = "preparing"]
  /\ roomOf' = [roomOf EXCEPT ![a] = room]
  /\ UNCHANGED <<active, toggle>>

(* Mutant: a join only asks whether the page is still there.               *)
StillMounted(a) == active

(* assertCurrent, after every await.                                       *)
Current(a) == active /\ a \notin aborted /\ refs.join = a

(* join after perform, when there is no engine to show for it.             *)
AfterJoin(r, a) ==
  IF r.engine = None /\ r.abort \in {a, None}
  THEN [r EXCEPT !.abort = None, !.playback = FALSE] ELSE r

(* The room, the permission or the relay servers are refused, or the       *)
(* attempt is no longer the current one.                                   *)
NotPrepared(a) ==
  /\ attempt[a] = "preparing"
  /\ attempt' = [attempt EXCEPT ![a] = "done"]
  /\ refs' = AfterJoin(Performed(refs, a), a)
  /\ aborted' = IF refs.engine = None /\ refs.abort = a THEN aborted \cup {a} ELSE aborted
  /\ UNCHANGED <<active, roomOf, resources, toggle, recordings>>

Prepared(a) ==
  /\ attempt[a] = "preparing" /\ Current(a)
  /\ engineOf' = [engineOf EXCEPT ![a] = "live"] /\ socketOf' = [socketOf EXCEPT ![a] = "idle"]
  /\ refs' = [refs EXCEPT !.engine = a, !.socket = a, !.microphone = TRUE]
  /\ attempt' = [attempt EXCEPT ![a] = "audio"]
  /\ UNCHANGED <<active, aborted, roomOf, toggle, recordings>>

(* The iPhone's audio session is on, or is not; the microphone follows.    *)
AudioStarted(a) ==
  /\ attempt[a] = "audio" /\ Current(a)
  /\ attempt' = [attempt EXCEPT ![a] = "capturing"]
  /\ UNCHANGED <<active, refs, aborted, roomOf, resources, toggle, recordings>>

Captured(a) ==
  /\ attempt[a] = "capturing" /\ Current(a) /\ engineOf[a] = "live"
  /\ attempt' = [attempt EXCEPT ![a] = "connecting"]
  /\ socketOf' = [socketOf EXCEPT ![a] = "connecting"]
  /\ UNCHANGED <<active, refs, aborted, roomOf, engineOf, toggle, recordings>>

Connected(a) ==
  /\ attempt[a] = "connecting" /\ Current(a) /\ socketOf[a] = "connecting"
  /\ socketOf' = [socketOf EXCEPT ![a] = "open"]
  /\ attempt' = [attempt EXCEPT ![a] = "done"]
  /\ refs' = [Performed(refs, a) EXCEPT !.joinedRoom = a, !.joined = TRUE]
  /\ UNCHANGED <<active, aborted, roomOf, engineOf, toggle, recordings>>

(* The catch block: a step failed or the attempt was overtaken. What this  *)
(* attempt made is shut down; the refs are cleared only if they are its.   *)
TearDown(a) ==
  /\ attempt[a] \in {"audio", "capturing", "connecting"}
  /\ attempt[a] = "audio" => ~Current(a)
  /\ LET owned == refs.engine = a
         r == IF owned THEN [Cleared(refs) EXCEPT !.signalingDown = refs.signalingDown] ELSE refs
         given == [r EXCEPT !.abort = IF @ = a THEN None ELSE @]
     IN refs' = AfterJoin(Performed(given, a), a)
  /\ aborted' = aborted \cup {a}
  /\ engineOf' = Disposed(a) /\ socketOf' = Closed(a)
  /\ attempt' = [attempt EXCEPT ![a] = "done"]
  /\ UNCHANGED <<active, roomOf, toggle, recordings>>

-----------------------------------------------------------------------------
(* The connection's own events reach the hook until its attempt is aborted.*)
Listening(a) == a \notin aborted
OwnsSession(a) == active /\ refs.engine = a /\ refs.socket = a

SocketCloses(a) ==
  /\ socketOf[a] \in {"connecting", "open", "retrying"}
  /\ IF Listening(a) /\ OwnsSession(a)
     THEN /\ aborted' = aborted \cup {a}
          /\ Finish(refs.recorder, "finish")
          /\ engineOf' = Disposed(a)
          /\ refs' = [Cleared(refs) EXCEPT !.join = None, !.recorder = None,
                                           !.abort = IF @ = a THEN None ELSE @]
     ELSE UNCHANGED <<aborted, recordings, engineOf, refs>>
  /\ socketOf' = Closed(a)
  /\ UNCHANGED <<active, attempt, roomOf, toggle>>

SignalingLost(a) ==
  /\ socketOf[a] = "open" /\ socketOf' = [socketOf EXCEPT ![a] = "retrying"]
  /\ refs' = IF Listening(a) /\ refs.socket = a THEN [refs EXCEPT !.signalingDown = TRUE] ELSE refs
  /\ UNCHANGED <<active, aborted, attempt, roomOf, engineOf, toggle, recordings>>

SignalingBack(a) ==
  /\ socketOf[a] = "retrying" /\ socketOf' = [socketOf EXCEPT ![a] = "open"]
  /\ refs' = IF Listening(a) /\ refs.socket = a THEN [refs EXCEPT !.signalingDown = FALSE] ELSE refs
  /\ UNCHANGED <<active, aborted, attempt, roomOf, engineOf, toggle, recordings>>

(* toggleCamera, selectCamera and toggleScreen: a capture of some length.  *)
StartToggle(t) ==
  /\ active /\ ~refs.busy /\ refs.engine # None /\ toggle[t] = "unused"
  /\ toggle' = [toggle EXCEPT ![t] = "running"]
  /\ refs' = Performing(refs, t)
  /\ UNCHANGED <<active, aborted, attempt, roomOf, resources, recordings>>

EndToggle(t) ==
  /\ toggle[t] = "running" /\ \A s \in Session : t \notin waiters[s]
  /\ toggle' = [toggle EXCEPT ![t] = "done"]
  /\ refs' = Performed(refs, t)
  /\ UNCHANGED <<active, aborted, attempt, roomOf, resources, recordings>>

-----------------------------------------------------------------------------
(* toggleRecord, with nothing recorded and with a recording going on.      *)
StartRecording(s) ==
  /\ active /\ ~refs.busy /\ refs.engine # None /\ refs.recorder = None
  /\ recording[s] = "unused"
  /\ recording' = [recording EXCEPT ![s] = "recording"]
  /\ refs' = [refs EXCEPT !.recorder = s]
  /\ UNCHANGED <<active, aborted, attempt, roomOf, resources, toggle, waiters, forgotten>>

StopRecording(t) ==
  /\ active /\ ~refs.busy /\ refs.recorder # None /\ toggle[t] = "unused"
  /\ Finish(refs.recorder, t)
  /\ toggle' = [toggle EXCEPT ![t] = "running"]
  /\ refs' = [Performing(refs, t) EXCEPT !.recorder = None]
  /\ UNCHANGED <<active, aborted, attempt, roomOf, resources>>

(* The limit is reached: the session stops itself.                         *)
AutoStop(s) ==
  /\ recording[s] = "recording"
  /\ Finish(s, "auto")
  /\ UNCHANGED <<active, refs, aborted, attempt, roomOf, resources, toggle>>

(* The last chunks are there: whoever waited archives the result; the      *)
(* callback of a session that stopped itself also clears the recorder,     *)
(* without asking whether the ref still names this session (onAutoStop).   *)
Stopped(s) ==
  /\ recording[s] = "stopping"
  /\ recording' = [recording EXCEPT ![s] = "saving"]
  /\ IF "auto" \in waiters[s]
     THEN /\ refs' = [refs EXCEPT !.recorder = None]
          /\ forgotten' = forgotten \cup ({refs.recorder} \ {None, s})
     ELSE UNCHANGED <<refs, forgotten>>
  /\ UNCHANGED <<active, aborted, attempt, roomOf, resources, toggle, waiters>>

Archived(s) ==
  /\ recording[s] = "saving"
  /\ recording' = [recording EXCEPT ![s] = "ended"]
  /\ waiters' = [waiters EXCEPT ![s] = {}]
  /\ UNCHANGED <<active, refs, aborted, attempt, roomOf, resources, toggle, forgotten>>

Next ==
  \/ Leave \/ Unmount
  \/ \E a \in Attempt :
       \/ \E room \in Room : Join(a, room)
       \/ NotPrepared(a) \/ Prepared(a) \/ AudioStarted(a) \/ Captured(a) \/ Connected(a)
       \/ TearDown(a) \/ SocketCloses(a) \/ SignalingLost(a) \/ SignalingBack(a)
  \/ \E t \in Toggle : StartToggle(t) \/ EndToggle(t) \/ StopRecording(t)
  \/ \E s \in Session : StartRecording(s) \/ AutoStop(s) \/ Stopped(s) \/ Archived(s)

Spec == Init /\ [][Next]_vars

-----------------------------------------------------------------------------
(* No engine and no connection outlives the refs that name it: whatever    *)
(* order joins, leaves, failures and closes come in, a microphone is never *)
(* captured, and a room never joined, for a call nobody can hang up.       *)
NoOrphans ==
  \A a \in Attempt :
    engineOf[a] = "live" \/ socketOf[a] \notin {"none", "closed"} =>
      refs.engine = a /\ refs.socket = a

(* What the screen says about the call is what the call is.                *)
ShownAsItIs ==
  active =>
    /\ refs.joined => /\ refs.engine = refs.joinedRoom /\ engineOf[refs.engine] = "live"
                      /\ socketOf[refs.engine] \in {"open", "retrying"}
                      /\ refs.signalingDown <=> socketOf[refs.engine] = "retrying"
    /\ ~refs.joined => refs.joinedRoom = None /\ ~refs.signalingDown
    /\ refs.microphone <=> refs.engine # None
    /\ refs.playback <=> refs.engine # None \/ refs.abort # None
    /\ refs.busy => \/ refs.action \in Toggle /\ toggle[refs.action] = "running"
                    \/ refs.action \in Attempt /\ attempt[refs.action] # "done"
    /\ \A a \in Attempt : attempt[a] \notin {"unused", "done"} /\ Current(a) => refs.busy

(* A recording runs only while the call it records can still stop it:      *)
(* leave's comment promises that "one that is still running is stopped and *)
(* archived below". The one exception is a session that began while an     *)
(* earlier one, which had reached its limit, was waiting for its last      *)
(* chunks: that one's callback clears the new one's ref.                   *)
RecordingsEnd ==
  \A s \in Session : recording[s] = "recording" => refs.recorder = s \/ s \in forgotten
=============================================================================
