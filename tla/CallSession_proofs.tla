------------------------- MODULE CallSession_proofs -------------------------
(***************************************************************************)
(* Theorems about CallSession, for any number of attempts, other tasks,    *)
(* recordings and rooms.                                                   *)
(***************************************************************************)
EXTENDS CallSession, TLAPS

-----------------------------------------------------------------------------
(* What Finish does to the recordings, whoever asks for it.                *)
LEMMA FinishType ==
  ASSUME TypeOK, NEW s \in Session \cup {None}, NEW who \in {"finish", "auto"} \cup Toggle,
         Finish(s, who)
  PROVE  /\ recording' \in [Session -> {"unused", "recording", "stopping", "saving", "ended"}]
         /\ waiters' \in [Session -> SUBSET ({"finish", "auto"} \cup Toggle)]
         /\ forgotten' \subseteq Session
BY DEF TypeOK, Finish, recordings

(* What the helpers do to the hook's refs.                                 *)
LEMMA PerformedRefs ==
  ASSUME NEW r \in Refs, NEW task
  PROVE  /\ Performed(r, task) \in Refs
         /\ Performed(r, task).engine = r.engine /\ Performed(r, task).socket = r.socket
         /\ Performed(r, task).joinedRoom = r.joinedRoom /\ Performed(r, task).joined = r.joined
         /\ Performed(r, task).join = r.join /\ Performed(r, task).abort = r.abort
         /\ Performed(r, task).recorder = r.recorder
         /\ Performed(r, task).microphone = r.microphone
         /\ Performed(r, task).playback = r.playback
         /\ Performed(r, task).signalingDown = r.signalingDown
         /\ r.action # task => Performed(r, task) = r
         /\ r.action = task => Performed(r, task).action = None /\ ~Performed(r, task).busy
<1>1. CASE r.action = task
  BY <1>1 DEF Performed, Refs
<1>2. CASE r.action # task
  BY <1>2 DEF Performed
<1> QED BY <1>1, <1>2

LEMMA PerformingRefs ==
  ASSUME NEW r \in Refs, NEW task \in Attempt \cup Toggle
  PROVE  /\ Performing(r, task) \in Refs
         /\ Performing(r, task).busy /\ Performing(r, task).action = task
         /\ Performing(r, task).engine = r.engine /\ Performing(r, task).socket = r.socket
         /\ Performing(r, task).joinedRoom = r.joinedRoom /\ Performing(r, task).joined = r.joined
         /\ Performing(r, task).join = r.join /\ Performing(r, task).abort = r.abort
         /\ Performing(r, task).recorder = r.recorder
         /\ Performing(r, task).microphone = r.microphone
         /\ Performing(r, task).playback = r.playback
         /\ Performing(r, task).signalingDown = r.signalingDown
BY DEF Performing, Refs

LEMMA TailRefs ==
  ASSUME NEW r \in Refs, NEW a \in Attempt
  PROVE  /\ AfterJoin(r, a) \in Refs
         /\ r.engine # None \/ r.abort \notin {a, None} => AfterJoin(r, a) = r
         /\ r.engine = None /\ r.abort \in {a, None} =>
              AfterJoin(r, a).abort = None /\ ~AfterJoin(r, a).playback
         /\ AfterJoin(r, a).engine = r.engine /\ AfterJoin(r, a).socket = r.socket
         /\ AfterJoin(r, a).joinedRoom = r.joinedRoom /\ AfterJoin(r, a).joined = r.joined
         /\ AfterJoin(r, a).join = r.join /\ AfterJoin(r, a).recorder = r.recorder
         /\ AfterJoin(r, a).busy = r.busy /\ AfterJoin(r, a).action = r.action
         /\ AfterJoin(r, a).microphone = r.microphone
         /\ AfterJoin(r, a).signalingDown = r.signalingDown
<1>1. CASE r.engine = None /\ r.abort \in {a, None}
  <2>1. AfterJoin(r, a) = [r EXCEPT !.abort = None, !.playback = FALSE]
    BY <1>1 DEF AfterJoin
  <2>2. AfterJoin(r, a) \in Refs /\ AfterJoin(r, a).abort = None /\ ~AfterJoin(r, a).playback
    BY <2>1 DEF Refs
  <2>3. /\ AfterJoin(r, a).engine = r.engine /\ AfterJoin(r, a).socket = r.socket
        /\ AfterJoin(r, a).joinedRoom = r.joinedRoom /\ AfterJoin(r, a).joined = r.joined
        /\ AfterJoin(r, a).join = r.join /\ AfterJoin(r, a).recorder = r.recorder
        /\ AfterJoin(r, a).busy = r.busy /\ AfterJoin(r, a).action = r.action
        /\ AfterJoin(r, a).microphone = r.microphone
        /\ AfterJoin(r, a).signalingDown = r.signalingDown
    BY <2>1 DEF Refs
  <2> QED BY <1>1, <2>2, <2>3
<1>2. CASE ~(r.engine = None /\ r.abort \in {a, None})
  BY <1>2 DEF AfterJoin
<1> QED BY <1>1, <1>2

LEMMA ClearedRefs ==
  ASSUME NEW r \in Refs
  PROVE  /\ Cleared(r) \in Refs
         /\ Cleared(r).engine = None /\ Cleared(r).socket = None
         /\ Cleared(r).joinedRoom = None /\ ~Cleared(r).joined
         /\ ~Cleared(r).microphone /\ ~Cleared(r).playback /\ ~Cleared(r).signalingDown
         /\ Cleared(r).busy = r.busy /\ Cleared(r).action = r.action
         /\ Cleared(r).join = r.join /\ Cleared(r).abort = r.abort
         /\ Cleared(r).recorder = r.recorder
BY DEF Cleared, Refs

LEMMA LeftRefs ==
  ASSUME NEW r \in Refs
  PROVE  /\ Left(r) \in Refs
         /\ Left(r).engine = None /\ Left(r).socket = None
         /\ Left(r).joinedRoom = None /\ ~Left(r).joined
         /\ ~Left(r).microphone /\ ~Left(r).playback /\ ~Left(r).signalingDown
         /\ ~Left(r).busy /\ Left(r).action = None
         /\ Left(r).join = None /\ Left(r).abort = None /\ Left(r).recorder = None
BY DEF Left, Cleared, Refs

(* Every variable of CallSession keeps its type in every step.             *)
THEOREM TypeCorrect == Spec => []TypeOK
<1>1. Init => TypeOK
  BY DEF Init, TypeOK, Await, Refs
<1>2. TypeOK /\ [Next]_vars => TypeOK'
  <2> SUFFICES ASSUME TypeOK, [Next]_vars PROVE TypeOK'
    OBVIOUS
  <2> USE DEF TypeOK, Await, resources, recordings
  <2>0. ASSUME NEW a \in Attempt \cup {None}
        PROVE  /\ Disposed(a) \in [Attempt -> {"none", "live", "disposed"}]
               /\ Closed(a) \in [Attempt -> {"none", "idle", "connecting", "open", "retrying", "closed"}]
    BY DEF Disposed, Closed
  <2>1. /\ AbortedBy(refs) \subseteq Attempt
        /\ refs.engine \in Attempt \cup {None} /\ refs.socket \in Attempt \cup {None}
        /\ refs.recorder \in Session \cup {None}
    BY DEF AbortedBy, Refs
  <2>2. CASE Leave
    BY <2>2, <2>0, <2>1, FinishType, LeftRefs DEF Leave
  <2>3. CASE Unmount
    <3>1. refs' \in Refs
      BY <2>3 DEF Unmount, Refs
    <3> QED BY <2>3, <2>0, <2>1, <3>1, FinishType DEF Unmount
  <2>4. ASSUME NEW a \in Attempt, NEW room \in Room, Join(a, room) PROVE TypeOK'
    <3> DEFINE ends == refs.engine # None \/ refs.socket # None \/ refs.recorder # None
               r == IF ends THEN Left(refs) ELSE refs
    <3>1. r \in Refs
      BY LeftRefs
    <3>2. ASSUME NEW q \in Refs
          PROVE  [q EXCEPT !.join = a, !.abort = a, !.playback = TRUE] \in Refs
      BY DEF Refs
    <3>3. refs' \in Refs
      <4>1. Performing(r, a) \in Refs
        BY <3>1, PerformingRefs
      <4> QED BY <2>4, <3>2, <4>1 DEF Join
    <3>4. /\ recording' \in [Session -> {"unused", "recording", "stopping", "saving", "ended"}]
          /\ waiters' \in [Session -> SUBSET ({"finish", "auto"} \cup Toggle)]
          /\ forgotten' \subseteq Session
      BY <2>4, <2>1, FinishType DEF Join
    <3> QED BY <2>4, <2>0, <2>1, <3>3, <3>4 DEF Join
  <2>5. ASSUME NEW a \in Attempt, NotPrepared(a) PROVE TypeOK'
    BY <2>5, PerformedRefs, TailRefs DEF NotPrepared
  <2>6. ASSUME NEW a \in Attempt, Prepared(a) PROVE TypeOK'
    BY <2>6 DEF Prepared, Refs
  <2>7. ASSUME NEW a \in Attempt, AudioStarted(a) \/ Captured(a) PROVE TypeOK'
    BY <2>7 DEF AudioStarted, Captured
  <2>8. ASSUME NEW a \in Attempt, Connected(a) PROVE TypeOK'
    <3>1. Performed(refs, a) \in Refs
      BY PerformedRefs
    <3>2. ASSUME NEW q \in Refs PROVE [q EXCEPT !.joinedRoom = a, !.joined = TRUE] \in Refs
      BY DEF Refs
    <3> QED BY <2>8, <3>1, <3>2 DEF Connected
  <2>9. ASSUME NEW a \in Attempt, TearDown(a) PROVE TypeOK'
    <3> DEFINE r == IF refs.engine = a
                    THEN [Cleared(refs) EXCEPT !.signalingDown = refs.signalingDown] ELSE refs
               given == [r EXCEPT !.abort = IF @ = a THEN None ELSE @]
    <3>1. r \in Refs
      BY ClearedRefs DEF Refs
    <3>2. given \in Refs
      BY <3>1 DEF Refs
    <3>3. refs' \in Refs
      BY <2>9, <3>2, PerformedRefs, TailRefs DEF TearDown
    <3> QED BY <2>9, <2>0, <3>3 DEF TearDown
  <2>10. ASSUME NEW a \in Attempt, SocketCloses(a) PROVE TypeOK'
    <3>1. ASSUME NEW q \in Refs, NEW b \in Attempt \cup {None}
          PROVE  [q EXCEPT !.join = None, !.recorder = None, !.abort = b] \in Refs
      BY DEF Refs
    <3> DEFINE q == Cleared(refs)
               b == IF q.abort = a THEN None ELSE q.abort
    <3>4. q \in Refs /\ b \in Attempt \cup {None}
      BY ClearedRefs DEF Refs
    <3>5. [q EXCEPT !.join = None, !.recorder = None, !.abort = IF @ = a THEN None ELSE @]
            = [q EXCEPT !.join = None, !.recorder = None, !.abort = b]
      BY <3>4 DEF Refs
    <3>2. refs' \in Refs
      <4>1. [q EXCEPT !.join = None, !.recorder = None, !.abort = b] \in Refs
        <5> HIDE DEF q, b
        <5> QED BY <3>1, <3>4
      <4>2. CASE Listening(a) /\ OwnsSession(a)
        BY <2>10, <3>5, <4>1, <4>2 DEF SocketCloses
      <4>3. CASE ~(Listening(a) /\ OwnsSession(a))
        BY <2>10, <4>3 DEF SocketCloses
      <4> QED BY <4>2, <4>3
    <3>3. /\ recording' \in [Session -> {"unused", "recording", "stopping", "saving", "ended"}]
          /\ waiters' \in [Session -> SUBSET ({"finish", "auto"} \cup Toggle)]
          /\ forgotten' \subseteq Session
      BY <2>10, <2>1, FinishType DEF SocketCloses
    <3> QED BY <2>10, <2>0, <3>2, <3>3 DEF SocketCloses
  <2>11. ASSUME NEW a \in Attempt, SignalingLost(a) \/ SignalingBack(a) PROVE TypeOK'
    <3>0. ASSUME NEW down \in BOOLEAN PROVE [refs EXCEPT !.signalingDown = down] \in Refs
      BY DEF Refs
    <3>1. refs' \in Refs
      BY <2>11, <3>0 DEF SignalingLost, SignalingBack
    <3> QED BY <2>11, <3>1 DEF SignalingLost, SignalingBack
  <2>12. ASSUME NEW t \in Toggle, StartToggle(t) \/ EndToggle(t) PROVE TypeOK'
    <3>1. Performing(refs, t) \in Refs /\ Performed(refs, t) \in Refs
      BY PerformingRefs, PerformedRefs
    <3> QED BY <2>12, <3>1 DEF StartToggle, EndToggle
  <2>13. ASSUME NEW t \in Toggle, StopRecording(t) PROVE TypeOK'
    <3>1. refs' \in Refs
      BY <2>13, PerformingRefs DEF StopRecording, Refs
    <3> QED BY <2>13, <2>1, <3>1, FinishType DEF StopRecording
  <2>14. ASSUME NEW s \in Session, StartRecording(s) \/ Stopped(s) \/ Archived(s) PROVE TypeOK'
    BY <2>14 DEF StartRecording, Stopped, Archived, Refs
  <2>15. ASSUME NEW s \in Session, AutoStop(s) PROVE TypeOK'
    BY <2>15, FinishType DEF AutoStop
  <2>16. CASE UNCHANGED vars
    BY <2>16 DEF vars
  <2> QED
    BY <2>2, <2>3, <2>4, <2>5, <2>6, <2>7, <2>8, <2>9, <2>10, <2>11, <2>12, <2>13, <2>14,
       <2>15, <2>16 DEF Next
<1> QED BY <1>1, <1>2, PTL DEF Spec

-----------------------------------------------------------------------------
Alive(a) == socketOf[a] \notin {"none", "closed"}
Pending(a) == attempt[a] \notin {"unused", "done"}

(* Engines and connections against the refs that name them: what is alive  *)
(* is named and not aborted, a connection has its engine, and the current  *)
(* attempt finds the place of its engine free.                             *)
Held ==
  /\ NoOrphans
  /\ \A a \in Attempt : Alive(a) => engineOf[a] = "live" /\ a \notin aborted
  /\ \A a \in Attempt : refs.join = a /\ attempt[a] = "preparing" => refs.engine = None

(* Shutting down what the refs name leaves nothing alive.                  *)
LEMMA ShutDown ==
  ASSUME TypeOK, SessionAssumption, Held,
         socketOf' = Closed(refs.socket), engineOf' = Disposed(refs.engine),
         refs'.engine = None \/ ~active',
         refs'.join = None \/ refs'.engine = None
  PROVE  Held'
<1>1. \A a \in Attempt : ~Alive(a)' /\ engineOf'[a] # "live"
  BY DEF TypeOK, Held, NoOrphans, Alive, Closed, Disposed, SessionAssumption
<1>2. \A a \in Attempt : refs'.join = a => refs'.engine = None
  BY DEF SessionAssumption
<1> QED BY <1>1, <1>2 DEF Held, NoOrphans, Alive

(* Steps that move no engine, no connection and no attempt.                *)
LEMMA HeldStays ==
  ASSUME Held, UNCHANGED <<engineOf, socketOf, attempt, aborted>>,
         refs'.engine = refs.engine, refs'.socket = refs.socket, refs'.join = refs.join
  PROVE  Held'
BY DEF Held, NoOrphans, Alive

(* No step lets an engine or a connection outlive its name.                *)
LEMMA HeldStep ==
  ASSUME SessionAssumption, TypeOK, TypeOK', Held, [Next]_vars
  PROVE  Held'
<1> USE DEF resources, recordings
<1>0. refs \in Refs /\ refs' \in Refs
  BY DEF TypeOK
<1>1. CASE Leave
  BY <1>0, <1>1, LeftRefs, ShutDown DEF Leave
<1>2. CASE Unmount
  <2>1. refs'.join = None
    BY <1>0, <1>2 DEF Unmount, Refs
  <2> QED BY <1>2, <2>1, ShutDown DEF Unmount
<1>3. ASSUME NEW a \in Attempt, NEW room \in Room, Join(a, room) PROVE Held'
  <2> DEFINE ends == refs.engine # None \/ refs.socket # None \/ refs.recorder # None
             r == IF ends THEN Left(refs) ELSE refs
  <2>1. r \in Refs /\ r.engine = None /\ (~ends => r.socket = None)
    BY <1>0, LeftRefs
  <2>2. refs' = [Performing(r, a) EXCEPT !.join = a, !.abort = a, !.playback = TRUE]
    BY <1>3 DEF Join
  <2> HIDE DEF r
  <2>3. refs'.engine = None
    BY <2>1, <2>2, PerformingRefs DEF Refs
  <2>4. CASE ends
    BY <1>3, <2>3, <2>4, ShutDown DEF Join
  <2>5. CASE ~ends
    <3>1. UNCHANGED <<engineOf, socketOf, aborted>>
      BY <1>3, <2>5 DEF Join
    <3>2. \A b \in Attempt : engineOf[b] # "live" /\ ~Alive(b)
      BY <2>5 DEF Held, NoOrphans, Alive, SessionAssumption
    <3> QED BY <2>3, <3>1, <3>2 DEF Held, NoOrphans, Alive
  <2> QED BY <2>4, <2>5
<1>4. ASSUME NEW a \in Attempt, NotPrepared(a) PROVE Held'
  <2>1. refs'.engine = refs.engine /\ refs'.socket = refs.socket /\ refs'.join = refs.join
    BY <1>0, <1>4, PerformedRefs, TailRefs DEF NotPrepared
  <2>2. attempt' = [attempt EXCEPT ![a] = "done"] /\ UNCHANGED <<engineOf, socketOf>>
    BY <1>4 DEF NotPrepared
  <2>3. aborted' = aborted \/ refs.engine = None
    BY <1>4 DEF NotPrepared
  <2>4. \A b \in Attempt : Alive(b) => b \notin aborted'
    BY <2>3 DEF Held, NoOrphans, Alive, SessionAssumption
  <2> QED BY <2>1, <2>2, <2>4 DEF Held, NoOrphans, Alive, TypeOK
<1>5. ASSUME NEW a \in Attempt, Prepared(a) PROVE Held'
  <2>1. /\ refs.engine = None /\ refs.join = a /\ a \notin aborted
    BY <1>5 DEF Prepared, Current, Held
  <2>2. refs'.engine = a /\ refs'.socket = a /\ refs'.join = refs.join
    BY <1>0, <1>5 DEF Prepared, Refs
  <2>3. /\ engineOf' = [engineOf EXCEPT ![a] = "live"] /\ socketOf' = [socketOf EXCEPT ![a] = "idle"]
        /\ attempt' = [attempt EXCEPT ![a] = "audio"] /\ aborted' = aborted
    BY <1>5 DEF Prepared
  <2>4. \A b \in Attempt : engineOf[b] # "live" /\ ~Alive(b)
    BY <2>1 DEF Held, NoOrphans, Alive, SessionAssumption
  <2>5. \A b \in Attempt : b # a => engineOf'[b] # "live" /\ ~Alive(b)'
    BY <2>3, <2>4 DEF Alive
  <2>6. engineOf'[a] = "live"
    BY <2>3 DEF TypeOK
  <2>7. \A b \in Attempt : refs'.join = b => attempt'[b] # "preparing"
    BY <2>1, <2>2, <2>3 DEF TypeOK
  <2> QED BY <2>1, <2>2, <2>3, <2>5, <2>6, <2>7 DEF Held, NoOrphans, Alive
<1>6. ASSUME NEW a \in Attempt, AudioStarted(a) \/ Captured(a) \/ Connected(a) PROVE Held'
  <2>1. refs'.engine = refs.engine /\ refs'.socket = refs.socket /\ refs'.join = refs.join
    <3>1. CASE AudioStarted(a) \/ Captured(a)
      BY <3>1 DEF AudioStarted, Captured
    <3>2. CASE Connected(a)
      BY <1>0, <3>2, PerformedRefs DEF Connected, Refs
    <3> QED BY <1>6, <3>1, <3>2
  <2>2. UNCHANGED <<engineOf, aborted>> /\ \A b \in Attempt : attempt'[b] = "preparing" => attempt[b] = "preparing"
    BY <1>6 DEF AudioStarted, Captured, Connected, TypeOK
  <2>3. a \notin aborted /\ (socketOf' = socketOf \/ engineOf[a] = "live")
    BY <1>6 DEF AudioStarted, Captured, Connected, Current, Held, Alive
  <2>4. \A b \in Attempt : b # a => socketOf'[b] = socketOf[b]
    BY <1>6 DEF AudioStarted, Captured, Connected, TypeOK
  <2> QED BY <2>1, <2>2, <2>3, <2>4 DEF Held, NoOrphans, Alive
<1>7. ASSUME NEW a \in Attempt, TearDown(a) PROVE Held'
  <2> DEFINE r == IF refs.engine = a
                  THEN [Cleared(refs) EXCEPT !.signalingDown = refs.signalingDown] ELSE refs
             given == [r EXCEPT !.abort = IF @ = a THEN None ELSE @]
  <2>1. /\ engineOf' = [engineOf EXCEPT ![a] = "disposed"]
        /\ socketOf' = [socketOf EXCEPT ![a] = "closed"]
        /\ attempt' = [attempt EXCEPT ![a] = "done"] /\ aborted' = aborted \cup {a}
        /\ refs' = AfterJoin(Performed(given, a), a)
    BY <1>7 DEF TearDown, Disposed, Closed, SessionAssumption
  <2>2. /\ r \in Refs /\ r.join = refs.join
        /\ refs.engine # a => r = refs
        /\ refs.engine = a => r.engine = None
    <3>1. CASE refs.engine = a
      BY <1>0, <3>1, ClearedRefs DEF Refs
    <3>2. CASE refs.engine # a
      BY <1>0, <3>2
    <3> QED BY <3>1, <3>2
  <2> HIDE DEF r
  <2>3. given \in Refs /\ given.engine = r.engine /\ given.socket = r.socket /\ given.join = r.join
    BY <2>2 DEF Refs
  <2> HIDE DEF given
  <2>4. refs'.engine = r.engine /\ refs'.socket = r.socket /\ refs'.join = r.join
    BY <2>1, <2>3, PerformedRefs, TailRefs
  <2>5. \A b \in Attempt : b # a => /\ engineOf'[b] = engineOf[b] /\ socketOf'[b] = socketOf[b]
                                    /\ attempt'[b] = attempt[b]
    BY <2>1
  <2>6. engineOf'[a] = "disposed" /\ socketOf'[a] = "closed" /\ attempt'[a] = "done"
    BY <2>1 DEF TypeOK
  <2>7. \A b \in Attempt : b # a /\ (engineOf[b] = "live" \/ Alive(b)) => refs.engine # a
    BY DEF Held, NoOrphans, Alive
  <2> QED BY <2>1, <2>2, <2>4, <2>5, <2>6, <2>7 DEF Held, NoOrphans, Alive
<1>8. ASSUME NEW a \in Attempt, SocketCloses(a) PROVE Held'
  <2>1. socketOf' = [socketOf EXCEPT ![a] = "closed"] /\ attempt' = attempt
    BY <1>8 DEF SocketCloses, Closed, SessionAssumption
  <2>2. refs.engine = a /\ refs.socket = a
    BY <1>8 DEF SocketCloses, Held, NoOrphans
  <2>3. CASE Listening(a) /\ OwnsSession(a)
    <3>1. socketOf' = Closed(refs.socket) /\ engineOf' = Disposed(refs.engine)
      BY <1>8, <2>2, <2>3 DEF SocketCloses
    <3>2. refs'.engine = None /\ refs'.join = None
      <4>1. refs' = [Cleared(refs) EXCEPT !.join = None, !.recorder = None,
                                          !.abort = IF @ = a THEN None ELSE @]
        BY <1>8, <2>3 DEF SocketCloses
      <4>2. Cleared(refs) \in Refs /\ Cleared(refs).engine = None
        BY <1>0, ClearedRefs
      <4> QED BY <4>1, <4>2 DEF Refs
    <3> QED BY <3>1, <3>2, ShutDown
  <2>4. CASE ~(Listening(a) /\ OwnsSession(a))
    <3>1. UNCHANGED <<aborted, engineOf, refs>>
      BY <1>8, <2>4 DEF SocketCloses
    <3> QED BY <2>1, <3>1 DEF Held, NoOrphans, Alive, TypeOK
  <2> QED BY <2>3, <2>4
<1>9. ASSUME NEW a \in Attempt, SignalingLost(a) \/ SignalingBack(a) PROVE Held'
  <2>1. refs'.engine = refs.engine /\ refs'.socket = refs.socket /\ refs'.join = refs.join
    <3>1. ASSUME NEW down \in BOOLEAN
          PROVE  LET r == [refs EXCEPT !.signalingDown = down]
                 IN r.engine = refs.engine /\ r.socket = refs.socket /\ r.join = refs.join
      BY <1>0 DEF Refs
    <3> QED BY <1>9, <3>1 DEF SignalingLost, SignalingBack
  <2>2. UNCHANGED <<engineOf, attempt, aborted>>
    BY <1>9 DEF SignalingLost, SignalingBack
  <2>3. \A b \in Attempt : Alive(b)' => Alive(b)
    BY <1>9 DEF SignalingLost, SignalingBack, Alive, TypeOK
  <2> QED BY <2>1, <2>2, <2>3 DEF Held, NoOrphans, Alive
<1>10. ASSUME NEW t \in Toggle, StartToggle(t) \/ EndToggle(t) \/ StopRecording(t) PROVE Held'
  <2>1. refs'.engine = refs.engine /\ refs'.socket = refs.socket /\ refs'.join = refs.join
    <3>1. CASE StartToggle(t) \/ EndToggle(t)
      BY <1>0, <3>1, PerformingRefs, PerformedRefs DEF StartToggle, EndToggle
    <3>2. CASE StopRecording(t)
      BY <1>0, <3>2, PerformingRefs DEF StopRecording, Refs
    <3> QED BY <1>10, <3>1, <3>2
  <2> QED BY <1>10, <2>1, HeldStays DEF StartToggle, EndToggle, StopRecording
<1>11. ASSUME NEW s \in Session, StartRecording(s) \/ AutoStop(s) \/ Stopped(s) \/ Archived(s)
       PROVE  Held'
  <2>1. refs'.engine = refs.engine /\ refs'.socket = refs.socket /\ refs'.join = refs.join
    BY <1>0, <1>11 DEF StartRecording, AutoStop, Stopped, Archived, Refs
  <2> QED BY <1>11, <2>1, HeldStays DEF StartRecording, AutoStop, Stopped, Archived
<1>12. CASE UNCHANGED vars
  BY <1>12, HeldStays DEF vars
<1> QED
  BY <1>1, <1>2, <1>3, <1>4, <1>5, <1>6, <1>7, <1>8, <1>9, <1>10, <1>11, <1>12 DEF Next

LEMMA HeldHolds ==
  ASSUME SessionAssumption PROVE Spec => []Held
<1>1. Init => Held
  BY DEF Init, Held, NoOrphans, Alive
<1>2. TypeOK /\ TypeOK' /\ Held /\ [Next]_vars => Held'
  BY HeldStep
<1> QED BY <1>1, <1>2, TypeCorrect, PTL DEF Spec

(* No engine and no connection outlives the refs that name it, whatever    *)
(* joins, departures, failures and closes overlap (join, leave, unmount).  *)
THEOREM NothingOrphaned ==
  ASSUME SessionAssumption PROVE Spec => []NoOrphans
<1>1. Held => NoOrphans
  BY DEF Held
<1> QED BY <1>1, HeldHolds, PTL

-----------------------------------------------------------------------------
(* What the refs of a mounted page refer to: the joined room is that of a  *)
(* finished attempt, the abort controller is the engine's, only a joined   *)
(* call has an open connection, and an attempt that is under way and       *)
(* current is the task that keeps the call busy.                           *)
Refers ==
  active =>
    /\ refs.joined => refs.joinedRoom \in Attempt
    /\ refs.engine # None => refs.abort = refs.engine
    /\ \A a \in Attempt :
         /\ socketOf[a] \in {"open", "retrying"} => refs.joined
         /\ refs.joinedRoom = a => attempt[a] = "done"
         /\ Pending(a) /\ Current(a) => refs.busy /\ refs.action = a /\ refs.abort = a

(* Steps that move no attempt, no engine and no connection, and change no  *)
(* ref but the recorder or the task.                                       *)
LEMMA ShownStays ==
  ASSUME TypeOK, Refers, ShownAsItIs,
         UNCHANGED <<engineOf, socketOf, attempt, aborted, active>>,
         refs'.engine = refs.engine, refs'.join = refs.join, refs'.abort = refs.abort,
         refs'.joined = refs.joined, refs'.joinedRoom = refs.joinedRoom,
         refs'.signalingDown = refs.signalingDown, refs'.microphone = refs.microphone,
         refs'.playback = refs.playback,
         \/ refs'.busy = refs.busy /\ refs'.action = refs.action
         \/ \A a \in Attempt : ~(Pending(a) /\ Current(a)),
         refs'.busy => \/ refs'.action \in Toggle /\ toggle'[refs'.action] = "running"
                       \/ refs'.action \in Attempt /\ attempt[refs'.action] # "done"
  PROVE  Refers' /\ ShownAsItIs'
BY DEF Refers, ShownAsItIs, Pending, Current

(* A page with a call that is over, and a task or none.                    *)
LEMMA ShownOver ==
  ASSUME TypeOK', SessionAssumption, refs'.engine = None, ~refs'.joined, refs'.joinedRoom = None,
         ~refs'.microphone, ~refs'.signalingDown,
         refs'.playback <=> refs'.abort # None,
         \A a \in Attempt : socketOf'[a] \notin {"open", "retrying"},
         refs'.busy => \/ refs'.action \in Toggle /\ toggle'[refs'.action] = "running"
                       \/ refs'.action \in Attempt /\ attempt'[refs'.action] # "done",
         \A a \in Attempt : Pending(a)' /\ Current(a)' =>
           refs'.busy /\ refs'.action = a /\ refs'.abort = a
  PROVE  Refers' /\ ShownAsItIs'
BY DEF Refers, ShownAsItIs, SessionAssumption, Pending

LEMMA ShownStep ==
  ASSUME SessionAssumption, TypeOK, TypeOK', Held, Held', Refers, ShownAsItIs, [Next]_vars
  PROVE  Refers' /\ ShownAsItIs'
<1> USE DEF resources, recordings
<1>0. refs \in Refs /\ refs' \in Refs
  BY DEF TypeOK
<1>1. CASE Leave
  <2>1. refs' = Left(refs)
    BY <1>1 DEF Leave
  <2>2. \A a \in Attempt : socketOf'[a] \notin {"open", "retrying"}
    BY <1>0, <2>1, LeftRefs DEF Held, NoOrphans, SessionAssumption
  <2>3. \A a \in Attempt : ~Current(a)'
    BY <1>0, <2>1, LeftRefs DEF Current, SessionAssumption
  <2> QED BY <1>0, <2>1, <2>2, <2>3, LeftRefs, ShownOver
<1>2. CASE Unmount
  BY <1>2 DEF Unmount, Refers, ShownAsItIs
<1>3. ASSUME NEW a \in Attempt, NEW room \in Room, Join(a, room) PROVE Refers' /\ ShownAsItIs'
  <2> DEFINE ends == refs.engine # None \/ refs.socket # None \/ refs.recorder # None
             r == IF ends THEN Left(refs) ELSE refs
             q == Performing(r, a)
  <2>1. /\ r \in Refs /\ r.engine = None /\ ~r.joined /\ r.joinedRoom = None
        /\ ~r.microphone /\ ~r.signalingDown
    <3>1. CASE ends
      BY <1>0, <3>1, LeftRefs
    <3>2. CASE ~ends
      BY <1>0, <1>3, <3>2 DEF Join, Refers, ShownAsItIs, SessionAssumption
    <3> QED BY <3>1, <3>2
  <2>2. refs' = [q EXCEPT !.join = a, !.abort = a, !.playback = TRUE]
    BY <1>3 DEF Join
  <2> HIDE DEF r
  <2>3. /\ q \in Refs /\ q.engine = None /\ ~q.joined /\ q.joinedRoom = None
        /\ ~q.microphone /\ ~q.signalingDown /\ q.busy /\ q.action = a
    BY <2>1, PerformingRefs
  <2> HIDE DEF q
  <2>4. /\ refs'.engine = None /\ ~refs'.joined /\ refs'.joinedRoom = None
        /\ ~refs'.microphone /\ ~refs'.signalingDown /\ refs'.busy /\ refs'.action = a
        /\ refs'.join = a /\ refs'.abort = a /\ refs'.playback
    BY <2>2, <2>3 DEF Refs
  <2>5. \A b \in Attempt : socketOf'[b] \notin {"open", "retrying"}
    BY <2>4 DEF Held, NoOrphans, SessionAssumption
  <2>6. attempt'[a] = "preparing"
    BY <1>3 DEF Join, TypeOK
  <2> QED BY <2>4, <2>5, <2>6, ShownOver DEF Current, SessionAssumption
<1>4. ASSUME NEW a \in Attempt, NotPrepared(a) PROVE Refers' /\ ShownAsItIs'
  <2>1. refs' = AfterJoin(Performed(refs, a), a) /\ Performed(refs, a) \in Refs
    BY <1>0, <1>4, PerformedRefs DEF NotPrepared
  <2>2. /\ attempt' = [attempt EXCEPT ![a] = "done"] /\ aborted \subseteq aborted'
        /\ UNCHANGED <<active, engineOf, socketOf, toggle>>
    BY <1>4 DEF NotPrepared
  <2>3. /\ refs'.engine = refs.engine /\ refs'.joined = refs.joined
        /\ refs'.joinedRoom = refs.joinedRoom /\ refs'.join = refs.join
        /\ refs'.microphone = refs.microphone /\ refs'.signalingDown = refs.signalingDown
    BY <1>0, <2>1, PerformedRefs, TailRefs
  <2>4. /\ refs.action = a => ~refs'.busy
        /\ refs.action # a => refs'.busy = refs.busy /\ refs'.action = refs.action
    BY <1>0, <2>1, PerformedRefs, TailRefs
  <2>5. /\ refs.engine # None \/ refs.abort \notin {a, None} =>
             refs'.abort = refs.abort /\ refs'.playback = refs.playback
        /\ refs.engine = None /\ refs.abort \in {a, None} => refs'.abort = None /\ ~refs'.playback
    BY <1>0, <2>1, PerformedRefs, TailRefs
  <2>6. \A b \in Attempt : Pending(b)' => b # a /\ Pending(b)
    BY <2>2 DEF Pending, TypeOK
  <2>7. \A b \in Attempt : Current(b)' => Current(b)
    BY <2>2, <2>3 DEF Current
  <2>8. \A b \in Attempt : attempt'[b] # "done" <=> b # a /\ attempt[b] # "done"
    BY <2>2 DEF TypeOK
  <2>9. Refers'
    BY <2>2, <2>3, <2>4, <2>5, <2>6, <2>7, <2>8 DEF Refers, SessionAssumption
  <2>10. ShownAsItIs'
    <3>1. ASSUME active PROVE refs'.playback <=> refs'.engine # None \/ refs'.abort # None
      BY <2>3, <2>5, <3>1 DEF ShownAsItIs
    <3>2. ASSUME active, refs'.busy
          PROVE  \/ refs'.action \in Toggle /\ toggle'[refs'.action] = "running"
                 \/ refs'.action \in Attempt /\ attempt'[refs'.action] # "done"
      BY <2>2, <2>4, <2>8, <3>2 DEF ShownAsItIs
    <3>3. ASSUME active, NEW b \in Attempt, Pending(b)', Current(b)' PROVE refs'.busy
      BY <2>2, <2>9, <3>3 DEF Refers
    <3> QED BY <2>2, <2>3, <3>1, <3>2, <3>3 DEF ShownAsItIs, Pending
  <2> QED BY <2>9, <2>10
<1>5. ASSUME NEW a \in Attempt, Prepared(a) PROVE Refers' /\ ShownAsItIs'
  <2>1. /\ active /\ Pending(a) /\ Current(a) /\ refs.engine = None
    BY <1>5 DEF Prepared, Current, Held, Pending
  <2>2. /\ ~refs.joined /\ refs.joinedRoom = None /\ ~refs.signalingDown
        /\ refs.busy /\ refs.action = a /\ refs.abort = a /\ refs.playback
    BY <2>1 DEF Refers, ShownAsItIs, SessionAssumption
  <2>3. /\ refs'.engine = a /\ refs'.socket = a /\ refs'.microphone
        /\ refs'.joined = refs.joined /\ refs'.joinedRoom = refs.joinedRoom
        /\ refs'.signalingDown = refs.signalingDown /\ refs'.playback = refs.playback
        /\ refs'.busy = refs.busy /\ refs'.action = refs.action
        /\ refs'.join = refs.join /\ refs'.abort = refs.abort
    BY <1>0, <1>5 DEF Prepared, Refs
  <2>4. /\ attempt' = [attempt EXCEPT ![a] = "audio"] /\ attempt'[a] = "audio"
        /\ UNCHANGED <<active, aborted, toggle>>
        /\ \A b \in Attempt : socketOf'[b] \in {"open", "retrying"} => socketOf[b] \in {"open", "retrying"}
    BY <1>5 DEF Prepared, TypeOK
  <2>5. \A b \in Attempt : Current(b)' => b = a
    BY <2>1, <2>3 DEF Current
  <2> QED BY <2>1, <2>2, <2>3, <2>4, <2>5 DEF Refers, ShownAsItIs, SessionAssumption
<1>6. ASSUME NEW a \in Attempt, AudioStarted(a) \/ Captured(a) PROVE Refers' /\ ShownAsItIs'
  <2>1. /\ Pending(a) /\ Current(a) /\ attempt'[a] # "done"
        /\ UNCHANGED <<active, refs, aborted, toggle, engineOf>>
        /\ \A b \in Attempt : b # a => attempt'[b] = attempt[b] /\ socketOf'[b] = socketOf[b]
        /\ socketOf' = socketOf \/ socketOf'[a] = "connecting"
    BY <1>6 DEF AudioStarted, Captured, Pending, TypeOK
  <2>2. refs.joinedRoom # a /\ attempt[a] # "done"
    BY <2>1 DEF Refers, Pending, Current
  <2>3. Refers'
    BY <2>1, <2>2 DEF Refers, Pending, Current
  <2>4. ASSUME active, refs.joined PROVE engineOf[refs.engine] = "live" /\ refs.engine # a
    BY <2>2, <2>4 DEF ShownAsItIs
  <2>5. ASSUME active, refs.joined PROVE socketOf'[refs.engine] = socketOf[refs.engine]
    BY <2>1, <2>4, <2>5 DEF ShownAsItIs, Refers
  <2>6. ASSUME active, refs.busy
        PROVE  \/ refs.action \in Toggle /\ toggle[refs.action] = "running"
               \/ refs.action \in Attempt /\ attempt'[refs.action] # "done"
    BY <2>1, <2>6 DEF ShownAsItIs
  <2>7. ASSUME active, NEW b \in Attempt, Pending(b)', Current(b)' PROVE refs.busy
    BY <2>1, <2>3, <2>7 DEF Refers
  <2>8. active /\ refs.joined => /\ refs.engine = refs.joinedRoom
                                 /\ socketOf[refs.engine] \in {"open", "retrying"}
                                 /\ refs.signalingDown <=> socketOf[refs.engine] = "retrying"
    BY DEF ShownAsItIs
  <2>9. ShownAsItIs'
    BY <2>1, <2>4, <2>5, <2>6, <2>7, <2>8 DEF ShownAsItIs, Pending
  <2> QED BY <2>3, <2>9
<1>7. ASSUME NEW a \in Attempt, Connected(a) PROVE Refers' /\ ShownAsItIs'
  <2>1. /\ active /\ Pending(a) /\ Current(a) /\ attempt[a] = "connecting"
        /\ socketOf[a] = "connecting"
        /\ socketOf' = [socketOf EXCEPT ![a] = "open"] /\ attempt' = [attempt EXCEPT ![a] = "done"]
        /\ UNCHANGED <<active, aborted, engineOf, toggle>>
    BY <1>7 DEF Connected, Current, Pending
  <2>2. engineOf[a] = "live" /\ refs.engine = a /\ refs.socket = a
    BY <2>1 DEF Held, NoOrphans, Alive
  <2>3. ~refs.joined
    BY <2>1, <2>2 DEF ShownAsItIs, Refers
  <2>4. ~refs.signalingDown /\ refs.microphone /\ refs.playback /\ refs.action = a /\ refs.abort = a
    BY <2>1, <2>2, <2>3 DEF Refers, ShownAsItIs, SessionAssumption
  <2> DEFINE q == Performed(refs, a)
  <2>5. /\ q \in Refs /\ q.engine = a /\ ~q.busy /\ q.action = None /\ q.abort = a /\ q.join = refs.join
        /\ ~q.signalingDown /\ q.microphone /\ q.playback
    BY <1>0, <2>2, <2>4, PerformedRefs
  <2>6. refs' = [q EXCEPT !.joinedRoom = a, !.joined = TRUE]
    BY <1>7 DEF Connected
  <2> HIDE DEF q
  <2>7. /\ refs'.engine = a /\ ~refs'.busy /\ refs'.abort = a /\ refs'.join = refs.join
        /\ ~refs'.signalingDown /\ refs'.microphone /\ refs'.playback
        /\ refs'.joined /\ refs'.joinedRoom = a
    BY <2>5, <2>6 DEF Refs
  <2>8. \A b \in Attempt : ~(Pending(b)' /\ Current(b)')
    BY <2>1, <2>7 DEF Pending, Current, TypeOK
  <2>9. attempt'[a] = "done" /\ socketOf'[a] = "open"
    BY <2>1 DEF TypeOK
  <2> QED BY <2>1, <2>2, <2>7, <2>8, <2>9 DEF Refers, ShownAsItIs, Pending, SessionAssumption
<1>8. ASSUME NEW a \in Attempt, TearDown(a) PROVE Refers' /\ ShownAsItIs'
  <2> DEFINE r == IF refs.engine = a
                  THEN [Cleared(refs) EXCEPT !.signalingDown = refs.signalingDown] ELSE refs
             given == [r EXCEPT !.abort = IF @ = a THEN None ELSE @]
             done == Performed(given, a)
  <2>1. /\ engineOf' = [engineOf EXCEPT ![a] = "disposed"]
        /\ socketOf' = [socketOf EXCEPT ![a] = "closed"]
        /\ attempt' = [attempt EXCEPT ![a] = "done"] /\ aborted' = aborted \cup {a}
        /\ refs' = AfterJoin(done, a) /\ UNCHANGED <<active, toggle>> /\ Pending(a)
    BY <1>8 DEF TearDown, Disposed, Closed, SessionAssumption, Pending
  <2>2. /\ r \in Refs /\ r.join = refs.join /\ r.abort = refs.abort
        /\ r.busy = refs.busy /\ r.action = refs.action
        /\ refs.engine # a => r = refs
        /\ refs.engine = a => /\ r.engine = None /\ ~r.joined /\ r.joinedRoom = None
                              /\ ~r.microphone /\ ~r.playback
                              /\ r.signalingDown = refs.signalingDown
    <3>1. CASE refs.engine = a
      <4>1. r = [Cleared(refs) EXCEPT !.signalingDown = refs.signalingDown]
        BY <3>1
      <4>2. refs.signalingDown \in BOOLEAN
        BY <1>0 DEF Refs
      <4> QED BY <1>0, <3>1, <4>1, <4>2, ClearedRefs DEF Refs
    <3>2. CASE refs.engine # a
      BY <1>0, <3>2
    <3> QED BY <3>1, <3>2
  <2> HIDE DEF r
  <2>3. /\ given \in Refs /\ given.engine = r.engine /\ given.join = r.join
        /\ given.joined = r.joined /\ given.joinedRoom = r.joinedRoom
        /\ given.busy = r.busy /\ given.action = r.action
        /\ given.microphone = r.microphone /\ given.playback = r.playback
        /\ given.signalingDown = r.signalingDown
        /\ given.abort = IF r.abort = a THEN None ELSE r.abort
    BY <2>2 DEF Refs
  <2> HIDE DEF given
  <2>4. /\ done \in Refs /\ done.engine = r.engine /\ done.join = r.join
        /\ done.joined = r.joined /\ done.joinedRoom = r.joinedRoom
        /\ done.microphone = r.microphone /\ done.playback = r.playback
        /\ done.signalingDown = r.signalingDown /\ done.abort = given.abort
        /\ r.action = a => ~done.busy
        /\ r.action # a => done.busy = r.busy /\ done.action = r.action
    BY <2>3, PerformedRefs
  <2> HIDE DEF done
  <2>5. /\ refs'.engine = r.engine /\ refs'.join = r.join
        /\ refs'.joined = r.joined /\ refs'.joinedRoom = r.joinedRoom
        /\ refs'.microphone = r.microphone /\ refs'.signalingDown = r.signalingDown
        /\ r.action = a => ~refs'.busy
        /\ r.action # a => refs'.busy = r.busy /\ refs'.action = r.action
        /\ r.engine = None /\ r.abort \in {a, None} => refs'.abort = None /\ ~refs'.playback
        /\ r.engine # None \/ r.abort \notin {a, None} =>
             /\ refs'.playback = r.playback
             /\ refs'.abort = IF r.abort = a THEN None ELSE r.abort
    BY <2>1, <2>3, <2>4, TailRefs
  <2>6. \A b \in Attempt : Pending(b)' => b # a /\ Pending(b)
    BY <2>1 DEF Pending, TypeOK
  <2>7. \A b \in Attempt : Current(b)' => Current(b)
    BY <2>1, <2>2, <2>5 DEF Current
  <2>8. \A b \in Attempt : attempt'[b] # "done" <=> b # a /\ attempt[b] # "done"
    BY <2>1 DEF TypeOK
  <2>9. /\ \A b \in Attempt : b # a => socketOf'[b] = socketOf[b] /\ engineOf'[b] = engineOf[b]
        /\ socketOf'[a] = "closed"
    BY <2>1 DEF TypeOK
  <2>10. active => refs.joinedRoom # a
    BY <2>1 DEF Refers, Pending
  <2>11. active /\ refs.engine = a => ~refs.joined /\ ~refs.signalingDown /\ refs.abort = a
    BY <2>10 DEF ShownAsItIs, Refers, SessionAssumption
  <2>12. ASSUME active, NEW b \in Attempt, Pending(b)', Current(b)'
         PROVE  refs'.busy /\ refs'.action = b /\ refs'.abort = b
    <3>1. b # a /\ refs.busy /\ refs.action = b /\ refs.abort = b
      BY <2>6, <2>7, <2>12 DEF Refers
    <3> QED BY <3>1, <2>2, <2>5 DEF SessionAssumption
  <2>13. Refers'
    <3>1. CASE refs.engine = a
      <4>1. \A b \in Attempt : socketOf'[b] \notin {"open", "retrying"}
        BY <3>1, <2>9 DEF Held, NoOrphans
      <4> QED BY <3>1, <4>1, <2>1, <2>2, <2>5, <2>12 DEF Refers, SessionAssumption
    <3>2. CASE refs.engine # a
      BY <3>2, <2>1, <2>2, <2>5, <2>8, <2>9, <2>12 DEF Refers
    <3> QED BY <3>1, <3>2
  <2>14. ShownAsItIs'
    <3>1. ASSUME active PROVE refs'.playback <=> refs'.engine # None \/ refs'.abort # None
      <4>1. CASE refs.engine = a
        BY <2>2, <2>5, <2>11, <3>1, <4>1
      <4>2. CASE refs.engine # a
        <5>1. refs.playback <=> refs.engine # None \/ refs.abort # None
          BY <3>1 DEF ShownAsItIs
        <5> QED BY <2>2, <2>5, <4>2, <5>1
      <4> QED BY <4>1, <4>2
    <3>2. ASSUME active, refs'.busy
          PROVE  \/ refs'.action \in Toggle /\ toggle'[refs'.action] = "running"
                 \/ refs'.action \in Attempt /\ attempt'[refs'.action] # "done"
      <4>1. refs.action # a /\ refs.busy /\ refs'.action = refs.action
        BY <2>2, <2>5, <3>2
      <4>2. refs.busy => \/ refs.action \in Toggle /\ toggle[refs.action] = "running"
                         \/ refs.action \in Attempt /\ attempt[refs.action] # "done"
        BY <3>2 DEF ShownAsItIs
      <4> QED BY <2>1, <2>8, <4>1, <4>2
    <3>3. ASSUME active
          PROVE  /\ refs'.joined =>
                      /\ refs'.engine = refs'.joinedRoom /\ engineOf'[refs'.engine] = "live"
                      /\ socketOf'[refs'.engine] \in {"open", "retrying"}
                      /\ refs'.signalingDown <=> socketOf'[refs'.engine] = "retrying"
                 /\ ~refs'.joined => refs'.joinedRoom = None /\ ~refs'.signalingDown
                 /\ refs'.microphone <=> refs'.engine # None
      <4>1. CASE refs.engine = a
        BY <2>2, <2>5, <2>11, <3>3, <4>1
      <4>2. CASE refs.engine # a
        <5>1. /\ refs'.joined = refs.joined /\ refs'.joinedRoom = refs.joinedRoom
              /\ refs'.engine = refs.engine /\ refs'.signalingDown = refs.signalingDown
              /\ refs'.microphone = refs.microphone
          BY <2>2, <2>5, <4>2
        <5>2. refs.joined => refs.engine \in Attempt \ {a}
          BY <3>3, <4>2 DEF Refers, ShownAsItIs
        <5> QED BY <2>9, <3>3, <5>1, <5>2 DEF ShownAsItIs
      <4> QED BY <4>1, <4>2
    <3> QED BY <2>1, <2>12, <3>1, <3>2, <3>3 DEF ShownAsItIs, Pending
  <2> QED BY <2>13, <2>14
<1>9. ASSUME NEW a \in Attempt, SocketCloses(a) PROVE Refers' /\ ShownAsItIs'
  <2>1. CASE ~active
    BY <1>9, <2>1 DEF SocketCloses, Refers, ShownAsItIs
  <2>2. CASE active
    <3>1. Alive(a) /\ refs.engine = a /\ refs.socket = a /\ a \notin aborted
      BY <1>9 DEF SocketCloses, Held, NoOrphans, Alive
    <3>2. /\ refs' = [Cleared(refs) EXCEPT !.join = None, !.recorder = None,
                                           !.abort = IF @ = a THEN None ELSE @]
          /\ socketOf' = [socketOf EXCEPT ![a] = "closed"] /\ UNCHANGED <<attempt, toggle>>
      BY <1>9, <2>2, <3>1 DEF SocketCloses, Listening, OwnsSession, Closed, SessionAssumption
    <3>3. refs.abort = a
      BY <2>2, <3>1 DEF Refers, SessionAssumption
    <3> DEFINE q == Cleared(refs)
    <3>4. /\ q \in Refs /\ q.engine = None /\ ~q.joined /\ q.joinedRoom = None
          /\ ~q.microphone /\ ~q.signalingDown /\ ~q.playback /\ q.abort = a
          /\ q.busy = refs.busy /\ q.action = refs.action
      BY <1>0, <3>3, ClearedRefs
    <3>5. refs' = [q EXCEPT !.join = None, !.recorder = None, !.abort = IF @ = a THEN None ELSE @]
      BY <3>2
    <3> HIDE DEF q
    <3>6. /\ refs'.engine = None /\ ~refs'.joined /\ refs'.joinedRoom = None /\ refs'.join = None
          /\ ~refs'.microphone /\ ~refs'.signalingDown /\ ~refs'.playback /\ refs'.abort = None
          /\ refs'.busy = refs.busy /\ refs'.action = refs.action
      BY <3>4, <3>5 DEF Refs
    <3>7. \A b \in Attempt : socketOf'[b] \notin {"open", "retrying"}
      BY <3>6 DEF Held, NoOrphans, SessionAssumption
    <3>8. refs'.busy => \/ refs'.action \in Toggle /\ toggle'[refs'.action] = "running"
                        \/ refs'.action \in Attempt /\ attempt'[refs'.action] # "done"
      BY <2>2, <3>2, <3>6 DEF ShownAsItIs
    <3>9. \A b \in Attempt : ~Current(b)'
      BY <3>6 DEF Current, SessionAssumption
    <3> QED BY <3>6, <3>7, <3>8, <3>9, ShownOver
  <2> QED BY <2>1, <2>2
<1>10. ASSUME NEW a \in Attempt, SignalingLost(a) \/ SignalingBack(a) PROVE Refers' /\ ShownAsItIs'
  <2>1. /\ UNCHANGED <<active, aborted, attempt, engineOf, toggle>>
        /\ Alive(a) /\ socketOf[a] \in {"open", "retrying"}
    BY <1>10 DEF SignalingLost, SignalingBack, Alive
  <2>2. refs.engine = a /\ refs.socket = a /\ a \notin aborted /\ engineOf[a] = "live"
    BY <2>1 DEF Held, NoOrphans
  <2>3. PICK down \in BOOLEAN :
          /\ refs' = [refs EXCEPT !.signalingDown = down]
          /\ socketOf' = [socketOf EXCEPT ![a] = IF down THEN "retrying" ELSE "open"]
    BY <1>10, <2>2 DEF SignalingLost, SignalingBack, Listening
  <2>4. /\ refs'.engine = refs.engine /\ refs'.join = refs.join /\ refs'.abort = refs.abort
        /\ refs'.joined = refs.joined /\ refs'.joinedRoom = refs.joinedRoom
        /\ refs'.signalingDown = down /\ refs'.microphone = refs.microphone
        /\ refs'.playback = refs.playback /\ refs'.busy = refs.busy /\ refs'.action = refs.action
    BY <1>0, <2>3 DEF Refs
  <2>5. /\ socketOf'[a] = IF down THEN "retrying" ELSE "open"
        /\ \A b \in Attempt : b # a => socketOf'[b] = socketOf[b]
    BY <2>3 DEF TypeOK
  <2>6. active => refs.joined /\ refs.joinedRoom = a
    BY <2>1, <2>2 DEF Refers, ShownAsItIs
  <2>7. Refers'
    BY <2>1, <2>4, <2>5, <2>6 DEF Refers, Pending, Current
  <2>8. ShownAsItIs'
    BY <2>1, <2>2, <2>4, <2>5, <2>6 DEF ShownAsItIs, Pending, Current
  <2> QED BY <2>7, <2>8
<1>11. ASSUME NEW t \in Toggle, StartToggle(t) \/ StopRecording(t) PROVE Refers' /\ ShownAsItIs'
  <2>1. /\ active /\ ~refs.busy /\ toggle'[t] = "running"
        /\ UNCHANGED <<engineOf, socketOf, attempt, aborted, active>>
    BY <1>11 DEF StartToggle, StopRecording, TypeOK
  <2>2. /\ refs'.engine = refs.engine /\ refs'.join = refs.join /\ refs'.abort = refs.abort
        /\ refs'.joined = refs.joined /\ refs'.joinedRoom = refs.joinedRoom
        /\ refs'.signalingDown = refs.signalingDown /\ refs'.microphone = refs.microphone
        /\ refs'.playback = refs.playback /\ refs'.action = t
    <3>1. CASE StartToggle(t)
      BY <1>0, <3>1, PerformingRefs DEF StartToggle
    <3>2. CASE StopRecording(t)
      BY <1>0, <3>2, PerformingRefs DEF StopRecording, Refs
    <3> QED BY <1>11, <3>1, <3>2
  <2>3. \A a \in Attempt : ~(Pending(a) /\ Current(a))
    BY <2>1 DEF Refers
  <2> QED BY <2>1, <2>2, <2>3, ShownStays
<1>12. ASSUME NEW t \in Toggle, EndToggle(t) PROVE Refers' /\ ShownAsItIs'
  <2>1. /\ refs' = Performed(refs, t) /\ toggle' = [toggle EXCEPT ![t] = "done"]
        /\ UNCHANGED <<engineOf, socketOf, attempt, aborted, active>>
    BY <1>12 DEF EndToggle
  <2>2. /\ refs'.engine = refs.engine /\ refs'.join = refs.join /\ refs'.abort = refs.abort
        /\ refs'.joined = refs.joined /\ refs'.joinedRoom = refs.joinedRoom
        /\ refs'.signalingDown = refs.signalingDown /\ refs'.microphone = refs.microphone
        /\ refs'.playback = refs.playback
        /\ refs.action # t => refs'.busy = refs.busy /\ refs'.action = refs.action
        /\ refs.action = t => ~refs'.busy
    BY <1>0, <2>1, PerformedRefs
  <2>3. CASE ~active
    BY <2>1, <2>3 DEF Refers, ShownAsItIs
  <2>4. CASE active
    <3>1. refs.action = t => \A a \in Attempt : ~(Pending(a) /\ Current(a))
      BY <2>4 DEF Refers, SessionAssumption
    <3>2. refs'.busy => \/ refs'.action \in Toggle /\ toggle'[refs'.action] = "running"
                        \/ refs'.action \in Attempt /\ attempt[refs'.action] # "done"
      <4>1. refs.busy => \/ refs.action \in Toggle /\ toggle[refs.action] = "running"
                         \/ refs.action \in Attempt /\ attempt[refs.action] # "done"
        BY <2>4 DEF ShownAsItIs
      <4>2. refs'.busy => refs.action # t /\ refs.busy /\ refs'.action = refs.action
        BY <2>2
      <4>3. \A x \in Toggle : x # t => toggle'[x] = toggle[x]
        BY <2>1 DEF TypeOK
      <4> QED BY <4>1, <4>2, <4>3
    <3> QED BY <2>1, <2>2, <3>1, <3>2, ShownStays
  <2> QED BY <2>3, <2>4
<1>13. ASSUME NEW s \in Session, StartRecording(s) \/ AutoStop(s) \/ Stopped(s) \/ Archived(s)
       PROVE  Refers' /\ ShownAsItIs'
  <2>1. UNCHANGED <<engineOf, socketOf, attempt, aborted, active, toggle>>
    BY <1>13 DEF StartRecording, AutoStop, Stopped, Archived
  <2>2. /\ refs'.engine = refs.engine /\ refs'.join = refs.join /\ refs'.abort = refs.abort
        /\ refs'.joined = refs.joined /\ refs'.joinedRoom = refs.joinedRoom
        /\ refs'.signalingDown = refs.signalingDown /\ refs'.microphone = refs.microphone
        /\ refs'.playback = refs.playback /\ refs'.busy = refs.busy /\ refs'.action = refs.action
    BY <1>0, <1>13 DEF StartRecording, AutoStop, Stopped, Archived, Refs
  <2>3. CASE ~active
    BY <2>1, <2>3 DEF Refers, ShownAsItIs
  <2>4. CASE active
    <3>1. refs'.busy => \/ refs'.action \in Toggle /\ toggle'[refs'.action] = "running"
                        \/ refs'.action \in Attempt /\ attempt[refs'.action] # "done"
      BY <2>1, <2>2, <2>4 DEF ShownAsItIs
    <3> QED BY <2>1, <2>2, <3>1, ShownStays
  <2> QED BY <2>3, <2>4
<1>14. CASE UNCHANGED vars
  BY <1>14 DEF vars, Refers, ShownAsItIs, Pending, Current
<1> QED
  BY <1>1, <1>2, <1>3, <1>4, <1>5, <1>6, <1>7, <1>8, <1>9, <1>10, <1>11, <1>12, <1>13,
     <1>14 DEF Next

(* While the page is there, what it shows is so, however joins, departures,*)
(* closes and other tasks overlap: it says that it is in a call only while *)
(* engine and connection are there, its microphone and playback follow the *)
(* engine, and it is busy as long as a task or a current join is pending   *)
(* (perform, join, leave, the catch block and the close listener).         *)
THEOREM ShownTruthfully ==
  ASSUME SessionAssumption PROVE Spec => []ShownAsItIs
<1>1. Init => Refers /\ ShownAsItIs
  BY DEF Init, Refers, ShownAsItIs, Pending, SessionAssumption
<1>2. /\ TypeOK /\ TypeOK' /\ Held /\ Held' /\ (Refers /\ ShownAsItIs) /\ [Next]_vars
      => (Refers /\ ShownAsItIs)'
  BY ShownStep
<1> QED BY <1>1, <1>2, TypeCorrect, HeldHolds, PTL DEF Spec

-----------------------------------------------------------------------------
(* Whoever stops the session the refs name stops every one that records    *)
(* and is not forgotten.                                                   *)
LEMMA FinishStops ==
  ASSUME TypeOK, SessionAssumption, RecordingsEnd, NEW who, Finish(refs.recorder, who)
  PROVE  \A s \in Session : recording'[s] = "recording" => s \in forgotten'
BY DEF Finish, TypeOK, RecordingsEnd, recordings, SessionAssumption

(* No step loses a session that records, or forgets one unnoticed.         *)
LEMMA RecordingsStep ==
  ASSUME SessionAssumption, TypeOK, RecordingsEnd, [Next]_vars
  PROVE  RecordingsEnd'
<1>0. refs \in Refs
  BY DEF TypeOK
<1>1. ASSUME \A s \in Session : recording'[s] = "recording" => s \in forgotten'
      PROVE  RecordingsEnd'
  BY <1>1 DEF RecordingsEnd
<1>2. ASSUME UNCHANGED recordings, refs'.recorder = refs.recorder
      PROVE  RecordingsEnd'
  BY <1>2 DEF recordings, RecordingsEnd
<1>3. CASE Leave \/ Unmount
  BY <1>1, <1>3, FinishStops DEF Leave, Unmount
<1>4. ASSUME NEW a \in Attempt, NEW room \in Room, Join(a, room)
      PROVE  RecordingsEnd'
  <2> DEFINE ends == refs.engine # None \/ refs.socket # None \/ refs.recorder # None
  <2>1. CASE ends
    <3>1. Finish(refs.recorder, "finish")
      BY <1>4, <2>1 DEF Join
    <3> QED BY <1>1, <3>1, FinishStops
  <2>2. CASE ~ends
    <3>1. /\ UNCHANGED recordings /\ refs.recorder = None
          /\ refs' = [Performing(refs, a) EXCEPT !.join = a, !.abort = a, !.playback = TRUE]
      BY <1>4, <2>2 DEF Join
    <3>2. refs'.recorder = refs.recorder
      BY <1>0, <3>1, PerformingRefs DEF Refs
    <3> QED BY <1>2, <3>1, <3>2
  <2> QED BY <2>1, <2>2
<1>5. ASSUME NEW a \in Attempt,
             NotPrepared(a) \/ Prepared(a) \/ AudioStarted(a) \/ Captured(a) \/ Connected(a)
             \/ SignalingLost(a) \/ SignalingBack(a)
      PROVE  RecordingsEnd'
  <2>1. UNCHANGED recordings
    BY <1>5 DEF NotPrepared, Prepared, AudioStarted, Captured, Connected, SignalingLost,
                SignalingBack
  <2>2. refs'.recorder = refs.recorder
    <3>1. CASE NotPrepared(a)
      BY <1>0, <3>1, PerformedRefs, TailRefs DEF NotPrepared
    <3>2. CASE Prepared(a) \/ AudioStarted(a) \/ Captured(a)
      BY <1>0, <3>2 DEF Prepared, AudioStarted, Captured, Refs
    <3>3. CASE Connected(a)
      BY <1>0, <3>3, PerformedRefs DEF Connected, Refs
    <3>4. CASE SignalingLost(a) \/ SignalingBack(a)
      <4>1. ASSUME NEW down \in BOOLEAN
            PROVE  [refs EXCEPT !.signalingDown = down].recorder = refs.recorder
        BY <1>0 DEF Refs
      <4> QED BY <3>4, <4>1 DEF SignalingLost, SignalingBack
    <3> QED BY <1>5, <3>1, <3>2, <3>3, <3>4
  <2> QED BY <1>2, <2>1, <2>2
<1>6. ASSUME NEW a \in Attempt, TearDown(a) PROVE RecordingsEnd'
  <2> DEFINE r == IF refs.engine = a
                  THEN [Cleared(refs) EXCEPT !.signalingDown = refs.signalingDown] ELSE refs
             given == [r EXCEPT !.abort = IF @ = a THEN None ELSE @]
  <2>1. UNCHANGED recordings /\ refs' = AfterJoin(Performed(given, a), a)
    BY <1>6 DEF TearDown
  <2>2. r \in Refs /\ r.recorder = refs.recorder
    <3>1. CASE refs.engine = a
      <4>1. r = [Cleared(refs) EXCEPT !.signalingDown = refs.signalingDown]
        BY <3>1
      <4>2. refs.signalingDown \in BOOLEAN
        BY <1>0 DEF Refs
      <4> QED BY <1>0, <4>1, <4>2, ClearedRefs DEF Refs
    <3>2. CASE refs.engine # a
      BY <1>0, <3>2
    <3> QED BY <3>1, <3>2
  <2> HIDE DEF r
  <2>3. given \in Refs /\ given.recorder = r.recorder
    BY <2>2 DEF Refs
  <2> HIDE DEF given
  <2>4. refs'.recorder = refs.recorder
    BY <2>1, <2>2, <2>3, PerformedRefs, TailRefs
  <2> QED BY <1>2, <2>1, <2>4
<1>7. ASSUME NEW a \in Attempt, SocketCloses(a) PROVE RecordingsEnd'
  <2>1. CASE Listening(a) /\ OwnsSession(a)
    <3>1. Finish(refs.recorder, "finish")
      BY <1>7, <2>1 DEF SocketCloses
    <3> QED BY <1>1, <3>1, FinishStops
  <2>2. CASE ~(Listening(a) /\ OwnsSession(a))
    BY <1>2, <1>7, <2>2 DEF SocketCloses
  <2> QED BY <2>1, <2>2
<1>8. ASSUME NEW t \in Toggle, StartToggle(t) \/ EndToggle(t) PROVE RecordingsEnd'
  BY <1>0, <1>2, <1>8, PerformingRefs, PerformedRefs DEF StartToggle, EndToggle
<1>9. ASSUME NEW t \in Toggle, StopRecording(t) PROVE RecordingsEnd'
  BY <1>1, <1>9, FinishStops DEF StopRecording
<1>10. ASSUME NEW s \in Session, StartRecording(s) PROVE RecordingsEnd'
  <2>1. /\ refs' = [refs EXCEPT !.recorder = s] /\ refs.recorder = None
        /\ recording' = [recording EXCEPT ![s] = "recording"] /\ forgotten' = forgotten
    BY <1>10 DEF StartRecording
  <2>2. refs'.recorder = s
    BY <1>0, <2>1 DEF Refs
  <2>3. \A d \in Session : recording'[d] = IF d = s THEN "recording" ELSE recording[d]
    BY <2>1 DEF TypeOK
  <2>4. \A d \in Session : recording[d] = "recording" => d \in forgotten
    BY <2>1 DEF RecordingsEnd, SessionAssumption
  <2> QED BY <2>1, <2>2, <2>3, <2>4 DEF RecordingsEnd
<1>11. ASSUME NEW s \in Session, AutoStop(s) PROVE RecordingsEnd'
  <2>1. /\ \A d \in Session : recording'[d] = "recording" => recording[d] = "recording"
        /\ refs' = refs /\ forgotten' = forgotten
    BY <1>11 DEF AutoStop, Finish, TypeOK, SessionAssumption
  <2> QED BY <2>1 DEF RecordingsEnd
<1>12. ASSUME NEW s \in Session, Stopped(s) \/ Archived(s) PROVE RecordingsEnd'
  <2>1. \A d \in Session : recording'[d] = "recording" => d # s /\ recording[d] = "recording"
    BY <1>12 DEF Stopped, Archived, TypeOK
  <2>2. CASE Stopped(s) /\ "auto" \in waiters[s]
    <3>1. forgotten' = forgotten \cup ({refs.recorder} \ {None, s})
      BY <2>2 DEF Stopped
    <3>2. ASSUME NEW d \in Session, recording'[d] = "recording" PROVE d \in forgotten'
      BY <2>1, <3>1, <3>2 DEF RecordingsEnd, SessionAssumption
    <3> QED BY <1>1, <3>2
  <2>3. CASE ~(Stopped(s) /\ "auto" \in waiters[s])
    <3>1. refs' = refs /\ forgotten' = forgotten
      BY <1>12, <2>3 DEF Stopped, Archived
    <3> QED BY <2>1, <3>1 DEF RecordingsEnd
  <2> QED BY <2>2, <2>3
<1>13. CASE UNCHANGED vars
  BY <1>2, <1>13 DEF vars
<1> QED
  BY <1>3, <1>4, <1>5, <1>6, <1>7, <1>8, <1>9, <1>10, <1>11, <1>12, <1>13 DEF Next

(* A recording runs only while the refs name it, so that whoever ends the  *)
(* call stops it (leave, the close listener, onAutoStop), unless the       *)
(* callback of an earlier one cleared its ref.                             *)
THEOREM RecordingsStop ==
  ASSUME SessionAssumption PROVE Spec => []RecordingsEnd
<1>1. Init => RecordingsEnd
  BY DEF Init, RecordingsEnd
<1>2. TypeOK /\ RecordingsEnd /\ [Next]_vars => RecordingsEnd'
  BY RecordingsStep
<1> QED BY <1>1, <1>2, TypeCorrect, PTL DEF Spec
=============================================================================
