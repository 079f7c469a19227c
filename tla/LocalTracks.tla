----------------------------- MODULE LocalTracks -----------------------------
(***************************************************************************)
(* The local tracks of a call (captureUserMedia, replaceLocalTrack,        *)
(* setMicrophoneEnabled, addPeer, removePeer and dispose of                *)
(* apps/web/src/media/engine.ts): a capture asks the browser for a device, *)
(* builds a processing graph, replaces the track of every peer's sender,   *)
(* and only then names the new track its own and releases the old one,     *)
(* with an await between any two of these.                                 *)
(*                                                                         *)
(* A job is one call of replaceLocalTrack together with the capture it     *)
(* belongs to; the track it publishes has the job's name.                  *)
(***************************************************************************)
EXTENDS Naturals, Sequences, FiniteSets

CONSTANTS
  Job,        \* the captures and removals a run may make
  Peer,
  Source,     \* "microphone" and others
  Nothing,    \* no track, no device, nothing asked for
  Overlap     \* two jobs may replace the same source at once

TrackAssumption ==
  /\ "microphone" \in Source /\ Nothing \notin Job /\ Nothing \notin BOOLEAN /\ Overlap \in BOOLEAN

VARIABLES
  disposed,
  microphoneEnabled,   \* what the call last asked for; Nothing before it has
  localTracks,         \* source -> the track that is its current one
  pendingMicrophones,
  overwritten,         \* tracks replaced by a job that had found another to replace
  peers,
  sender,              \* peer, source -> the track its sender carries, Nothing without a sender
  replacements,        \* peer -> its connection's replaceTrack calls, in order
  job,
  live,                \* the device captures that run
  enabled              \* the tracks that are neither gated nor stopped

engineVars == <<disposed, microphoneEnabled, localTracks, pendingMicrophones, overwritten>>
peerVars == <<peers, sender, replacements>>
tracksVars == <<engineVars, peerVars, job, live, enabled>>

JobPhase == {"unused", "asking", "processing", "publishing", "announcing", "done"}
JobState == [phase : JobPhase, source : Source, track : Job \cup {Nothing},
             raw : Job \cup {Nothing}, previous : Job \cup {Nothing}, awaiting : SUBSET Peer]
Replacement == [job : Job, source : Source, track : Job \cup {Nothing}, removed : BOOLEAN]

TracksTypeOK ==
  /\ disposed \in BOOLEAN /\ microphoneEnabled \in BOOLEAN \cup {Nothing}
  /\ localTracks \in [Source -> Job \cup {Nothing}]
  /\ pendingMicrophones \subseteq Job /\ overwritten \subseteq Job /\ peers \subseteq Peer
  /\ sender \in [Peer -> [Source -> Job \cup {Nothing}]]
  /\ replacements \in [Peer -> Seq(Replacement)]
  /\ job \in [Job -> JobState] /\ live \subseteq Job /\ enabled \subseteq Job

Working(j) == job[j].phase \notin {"unused", "done"}
NoTracks == [s \in Source |-> Nothing]

TracksInit ==
  /\ disposed = FALSE /\ microphoneEnabled = Nothing
  /\ localTracks = NoTracks /\ pendingMicrophones = {} /\ overwritten = {}
  /\ peers = {} /\ sender = [p \in Peer |-> NoTracks]
  /\ replacements = [p \in Peer |-> <<>>]
  /\ job = [j \in Job |-> [phase |-> "unused", source |-> "microphone", track |-> Nothing, raw |-> Nothing,
                           previous |-> Nothing, awaiting |-> {}]]
  /\ live = {} /\ enabled = {}

-----------------------------------------------------------------------------
(* The callers of one source wait for each other unless Overlap.           *)
MayStart(j, s) ==
  /\ job[j].phase = "unused" /\ ~disposed
  /\ Overlap \/ \A k \in Job : Working(k) => job[k].source # s

(* Releasing a track stops its device unless another track has taken it    *)
(* over (rawOwnershipTransferred).                                         *)
DeviceOf(t) ==
  IF t = Nothing \/ (\E k \in Job \ {t} : job[k].raw = job[t].raw /\ job[k].phase # "unused"
                                       /\ job[k].previous = t)
  THEN {} ELSE {job[t].raw}

(* captureUserMedia: getUserMedia is asked for the device.                 *)
Capture(j, s) ==
  /\ MayStart(j, s)
  /\ job' = [job EXCEPT ![j] = [@ EXCEPT !.phase = "asking", !.source = s, !.track = j, !.raw = j]]
  /\ UNCHANGED <<engineVars, peerVars, live, enabled>>

(* The browser grants it; a call that has ended meanwhile drops it at      *)
(* once. Or it refuses.                                                    *)
Granted(j) ==
  /\ job[j].phase = "asking"
  /\ IF disposed
     THEN job' = [job EXCEPT ![j].phase = "done"] /\ UNCHANGED live
     ELSE job' = [job EXCEPT ![j].phase = "processing"] /\ live' = live \cup {j}
  /\ UNCHANGED <<engineVars, peerVars, enabled>>

Refused(j) ==
  /\ job[j].phase = "asking"
  /\ job' = [job EXCEPT ![j].phase = "done"]
  /\ UNCHANGED <<engineVars, peerVars, live, enabled>>

(* The catch blocks: the effects, the denoiser and the device are given up.*)
GiveUp(j) ==
  /\ job' = [job EXCEPT ![j].phase = "done", ![j].awaiting = {}]
  /\ live' = IF job[j].track = Nothing THEN live ELSE live \ {job[j].raw}
  /\ pendingMicrophones' = pendingMicrophones \ {job[j].track}
  /\ enabled' = enabled \ {job[j].track}

Withdraw(j) ==
  GiveUp(j) /\ UNCHANGED <<disposed, microphoneEnabled, localTracks, overwritten, peerVars>>

(* createDenoiser or createMicrophoneEffects fails, or the call has ended. *)
ProcessingFails(j) == job[j].phase = "processing" /\ Withdraw(j)

(* A speech track starts as muted as the call is.                          *)
Gated(j, s) ==
  IF s # "microphone" \/ j = Nothing THEN enabled
  ELSE LET on == IF microphoneEnabled # Nothing THEN microphoneEnabled
                 ELSE localTracks[s] = Nothing \/ localTracks[s] \in enabled
       IN IF on THEN enabled \cup {j} ELSE enabled \ {j}

(* replaceLocalTrack until its first await: what it replaces is read here; *)
(* each peer's sender is asked to change, or is made.                      *)
Replace(j, s, t, raw) ==
  LET ask(p) == sender[p][s] # Nothing
  IN /\ job' = [job EXCEPT ![j] = [phase |-> "publishing", source |-> s, track |-> t, raw |-> raw,
                                   previous |-> localTracks[s],
                                   awaiting |-> {p \in peers : ask(p)}]]
     /\ replacements' = [p \in Peer |->
          IF p \in peers /\ ask(p)
          THEN Append(replacements[p], [job |-> j, source |-> s, track |-> t, removed |-> FALSE])
          ELSE replacements[p]]
     /\ sender' = [p \in Peer |->
          IF p \in peers /\ ~ask(p) THEN [sender[p] EXCEPT ![s] = t] ELSE sender[p]]
     /\ pendingMicrophones' = IF s = "microphone" /\ t # Nothing
                              THEN pendingMicrophones \cup {t} ELSE pendingMicrophones
     /\ enabled' = Gated(t, s)
     /\ UNCHANGED <<disposed, microphoneEnabled, localTracks, overwritten, peers>>

Publish(j) ==
  /\ job[j].phase = "processing" /\ ~disposed
  /\ Replace(j, job[j].source, j, job[j].raw)
  /\ UNCHANGED live

(* setLocalTrack(source, null): switched off, or the track's own 'ended'.  *)
RemoveTrack(j, s) ==
  /\ MayStart(j, s) /\ localTracks[s] # Nothing
  /\ Replace(j, s, Nothing, Nothing)
  /\ UNCHANGED live

(* A native denoiser fails: the same device is processed by RNNoise, whose *)
(* track takes the device over.                                            *)
DenoiserFallback(j) ==
  /\ MayStart(j, "microphone") /\ localTracks["microphone"] # Nothing
  /\ Replace(j, "microphone", j, job[localTracks["microphone"]].raw)
  /\ UNCHANGED live

(* The head of a peer's replaceTrack calls resolves; a removal then takes  *)
(* the sender away, and later calls reach a sender nobody listens to.      *)
Settle(p) ==
  /\ replacements[p] # <<>>
  /\ LET o == Head(replacements[p])
         rest == Tail(replacements[p])
         removal == o.track = Nothing
     IN /\ job' = [job EXCEPT ![o.job].awaiting = @ \ {p}]
        /\ sender' = IF p \in peers /\ ~o.removed
                     THEN [sender EXCEPT ![p][o.source] = o.track] ELSE sender
        /\ replacements' = [replacements EXCEPT ![p] =
             [i \in DOMAIN rest |->
               [rest[i] EXCEPT !.removed = @ \/ (removal /\ rest[i].source = o.source)]]]
  /\ UNCHANGED <<engineVars, peers, live, enabled>>

(* It rejects: the whole replacement is given up, whoever has it already.  *)
Reject(p) ==
  /\ replacements[p] # <<>>
  /\ LET j == Head(replacements[p]).job
     IN IF job[j].phase = "publishing" /\ p \in job[j].awaiting
        THEN GiveUp(j)
        ELSE UNCHANGED <<job, live, pendingMicrophones, enabled>>
  /\ replacements' = [replacements EXCEPT ![p] = Tail(@)]
  /\ UNCHANGED <<disposed, microphoneEnabled, localTracks, overwritten, peers, sender>>

(* Every sender has it: it becomes the current track, in the place of what *)
(* is current now, which need not be what it set out to replace.           *)
Adopt(j) ==
  /\ job[j].phase = "publishing" /\ job[j].awaiting = {} /\ ~disposed
  /\ localTracks' = [localTracks EXCEPT ![job[j].source] = job[j].track]
  /\ overwritten' = overwritten \cup ({localTracks[job[j].source]} \ {job[j].previous, Nothing})
  /\ pendingMicrophones' = pendingMicrophones \ {job[j].track}
  /\ job' = [job EXCEPT ![j].phase = "announcing"]
  /\ UNCHANGED <<disposed, microphoneEnabled, peerVars, live, enabled>>

AdoptRefused(j) ==
  /\ job[j].phase = "publishing" /\ job[j].awaiting = {} /\ disposed
  /\ Withdraw(j)

(* Mutant: no finally, so a failed announcement keeps the old device.      *)
AnnouncedOrKept(j, sent) ==
  /\ job[j].phase = "announcing"
  /\ job' = [job EXCEPT ![j].phase = "done"]
  /\ live' = IF sent THEN live \ DeviceOf(job[j].previous) ELSE live
  /\ enabled' = enabled \ {job[j].previous}
  /\ UNCHANGED <<engineVars, peerVars>>

(* The peers are told; whether or not that works, the old track goes. When *)
(* it does not, captureUserMedia takes its microphone down as well.        *)
Announced(j, sent) ==
  /\ job[j].phase = "announcing"
  /\ job' = [job EXCEPT ![j].phase = "done"]
  /\ live' = live \ (DeviceOf(job[j].previous)
                     \cup IF ~sent /\ job[j].source = "microphone" /\ job[j].track # Nothing
                          THEN {job[j].raw} ELSE {})
  /\ enabled' = enabled \ {job[j].previous}
  /\ UNCHANGED <<engineVars, peerVars>>

-----------------------------------------------------------------------------
(* Mutant: a track that is being published is not gated with the others.   *)
SetCurrentMicrophone(on) ==
  /\ microphoneEnabled' = on
  /\ LET gates == {localTracks["microphone"]} \ {Nothing}
     IN enabled' = IF on THEN enabled \cup gates ELSE enabled \ gates
  /\ UNCHANGED <<disposed, localTracks, pendingMicrophones, overwritten, peerVars, job, live>>

SetMicrophoneEnabled(on) ==
  /\ microphoneEnabled' = on
  /\ LET gates == (pendingMicrophones \cup {localTracks["microphone"]}) \ {Nothing}
     IN enabled' = IF on THEN enabled \cup gates ELSE enabled \ gates
  /\ UNCHANGED <<disposed, localTracks, pendingMicrophones, overwritten, peerVars, job, live>>

(* A peer's connection starts with the tracks that are current by now. (A  *)
(* peer that comes back does so after its old connection's calls settled.) *)
AddPeer(p) ==
  /\ ~disposed /\ p \notin peers /\ replacements[p] = <<>>
  /\ peers' = peers \cup {p}
  /\ sender' = [sender EXCEPT ![p] = localTracks]
  /\ UNCHANGED <<engineVars, replacements, job, live, enabled>>

RemovePeer(p) ==
  /\ p \in peers
  /\ peers' = peers \ {p} /\ sender' = [sender EXCEPT ![p] = NoTracks]
  /\ UNCHANGED <<engineVars, replacements, job, live, enabled>>

Dispose ==
  /\ ~disposed /\ disposed' = TRUE
  /\ live' = live \ UNION ({DeviceOf(localTracks[s]) : s \in Source}
                           \cup {{t} : t \in pendingMicrophones})
  /\ pendingMicrophones' = {} /\ localTracks' = NoTracks
  /\ peers' = {} /\ sender' = [p \in Peer |-> NoTracks]
  /\ UNCHANGED <<microphoneEnabled, overwritten, replacements, job, enabled>>

TracksNext ==
  \/ \E j \in Job :
       \/ \E s \in Source : Capture(j, s) \/ RemoveTrack(j, s)
       \/ Granted(j) \/ Refused(j) \/ ProcessingFails(j) \/ Publish(j) \/ DenoiserFallback(j)
       \/ Adopt(j) \/ AdoptRefused(j)
       \/ \E sent \in BOOLEAN : Announced(j, sent)
  \/ \E p \in Peer : Settle(p) \/ Reject(p) \/ AddPeer(p) \/ RemovePeer(p)
  \/ \E on \in BOOLEAN : SetMicrophoneEnabled(on)
  \/ Dispose

TracksSpec == TracksInit /\ [][TracksNext]_tracksVars

-----------------------------------------------------------------------------
(* A device runs only for a track the call still answers for: a current    *)
(* one, or one a replacement still holds. What is not answered for is what *)
(* leaving the call cannot stop (docs/WAILS_COMPLETION.md: "Every stop,    *)
(* error, and disconnect path must release capture tracks").               *)
Answered(d) ==
  \/ \E s \in Source : localTracks[s] # Nothing /\ job[localTracks[s]].raw = d
  \/ \E j \in Job : Working(j) /\ \/ job[j].raw = d
                                  \/ job[j].previous # Nothing /\ job[job[j].previous].raw = d

CapturesAreReleased == \A d \in live : Answered(d)

(* While the call is muted no peer is sent a microphone that is open,      *)
(* whichever of its tracks a replacement has reached. (A peer that joined  *)
(* in the middle of one is sent the old track until the news is out; and   *)
(* where replacements overlap, a peer that joined between two of them may  *)
(* have a track that the second overwrote: no mute reaches that one.)      *)
MutedIsSilent ==
  microphoneEnabled = FALSE /\ (\A j \in Job : job[j].phase # "announcing") =>
    \A p \in peers : sender[p]["microphone"] \notin enabled \ overwritten
=============================================================================
