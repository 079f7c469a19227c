-------------------------- MODULE MediaEngine_proofs --------------------------
(***************************************************************************)
(* LocalTracks: types and MutedIsSilent, whether replacements overlap or   *)
(* not; and, when those of a source come one after the other,              *)
(* CapturesAreReleased; for any number of captures, sources and peers.     *)
(* PeerNegotiation: types, with the bound on the operations chain, for any *)
(* number of changes, losses and signals under way.                        *)
(* The call as MCCallMedia puts it together: the types of all its parts.   *)
(***************************************************************************)
EXTENDS MCCallMedia, VoiceFallback_proofs, CallSession_proofs, SequenceTheorems, TLAPS

(* What may be a track, or nothing.                                        *)
Track == Job \cup {Nothing}

(* What a step leaves of a job: all but whom it waits for.                 *)
KeptJob(k) ==
  /\ job'[k].phase = job[k].phase /\ job'[k].source = job[k].source
  /\ job'[k].track = job[k].track /\ job'[k].raw = job[k].raw /\ job'[k].previous = job[k].previous

(* The types, as the steps use them.                                       *)
Fields ==
  /\ \A k \in Job : /\ job[k].phase \in JobPhase /\ job[k].source \in Source
                    /\ job[k].track \in Track /\ job[k].raw \in Track /\ job[k].previous \in Track
  /\ \A s \in Source : localTracks[s] \in Track
  /\ live \subseteq Job

(* The state a replacement leaves has its types.                           *)
LEMMA ReplaceTypes ==
  ASSUME TracksTypeOK, NEW j \in Job, NEW s \in Source, NEW t \in Track,
         NEW raw \in Track, Replace(j, s, t, raw), UNCHANGED live
  PROVE  TracksTypeOK'
<1> USE DEF TracksTypeOK, Track
<1>1. job' \in [Job -> JobState]
  <2>1. [phase |-> "publishing", source |-> s, track |-> t, raw |-> raw, previous |-> localTracks[s],
         awaiting |-> {p \in peers : sender[p][s] # Nothing}] \in JobState
    BY DEF JobState, JobPhase
  <2> QED BY <2>1 DEF Replace
<1>2. replacements' \in [Peer -> Seq(Replacement)]
  <2>1. [job |-> j, source |-> s, track |-> t, removed |-> FALSE] \in Replacement
    BY DEF Replacement
  <2>2. \A p \in Peer : Append(replacements[p], [job |-> j, source |-> s, track |-> t, removed |-> FALSE])
                          \in Seq(Replacement)
    BY <2>1, AppendProperties
  <2> QED BY <2>2 DEF Replace
<1>3. sender' \in [Peer -> [Source -> Track]]
  BY DEF Replace
<1>4. enabled' \subseteq Job
  BY DEF Replace, Gated
<1> QED BY <1>1, <1>2, <1>3, <1>4 DEF Replace

(* So has the one that giving up a replacement leaves.                     *)
LEMMA WithdrawTypes ==
  ASSUME TracksTypeOK, NEW j \in Job, GiveUp(j)
  PROVE  /\ job' \in [Job -> JobState] /\ live' \subseteq Job
         /\ pendingMicrophones' \subseteq Job /\ enabled' \subseteq Job
<1>1. [job[j] EXCEPT !.phase = "done", !.awaiting = {}] \in JobState
  BY DEF TracksTypeOK, JobState, JobPhase
<1>2. job' = [job EXCEPT ![j] = [job[j] EXCEPT !.phase = "done", !.awaiting = {}]]
  BY DEF GiveUp, TracksTypeOK, JobState
<1> QED BY <1>1, <1>2 DEF GiveUp, TracksTypeOK

(* Every step keeps the types, whether replacements overlap or not.        *)
LEMMA TracksTypeStep == TrackAssumption /\ TracksTypeOK /\ [TracksNext]_tracksVars => TracksTypeOK'
<1> SUFFICES ASSUME TrackAssumption, TracksTypeOK, [TracksNext]_tracksVars PROVE TracksTypeOK'
  OBVIOUS
<1> USE DEF TracksTypeOK, engineVars, peerVars
<1>1. ASSUME NEW j \in Job, NEW s \in Source, Capture(j, s) PROVE TracksTypeOK'
  <2>1. [job[j] EXCEPT !.phase = "asking", !.source = s, !.track = j, !.raw = j] \in JobState
    BY DEF JobState, JobPhase
  <2> QED BY <1>1, <2>1 DEF Capture
<1>2. ASSUME NEW j \in Job, NEW ph \in JobPhase PROVE [job EXCEPT ![j].phase = ph] \in [Job -> JobState]
  BY <1>2 DEF JobState
<1>3. ASSUME NEW j \in Job, Granted(j) \/ Refused(j) PROVE TracksTypeOK'
  <2>1. job' \in [Job -> JobState]
    <3>1. job' = [job EXCEPT ![j].phase = "done"] \/ job' = [job EXCEPT ![j].phase = "processing"]
      BY <1>3 DEF Granted, Refused
    <3>2. "done" \in JobPhase /\ "processing" \in JobPhase
      BY DEF JobPhase
    <3>3. CASE job' = [job EXCEPT ![j].phase = "done"]
      BY <1>2, <3>2, <3>3
    <3>4. CASE job' = [job EXCEPT ![j].phase = "processing"]
      BY <1>2, <3>2, <3>4
    <3> QED BY <3>1, <3>3, <3>4
  <2>2. live' \subseteq Job
    BY <1>3 DEF Granted, Refused
  <2> QED BY <1>3, <2>1, <2>2 DEF Granted, Refused
<1>4. ASSUME NEW j \in Job, ProcessingFails(j) \/ AdoptRefused(j) PROVE TracksTypeOK'
  <2>1. Withdraw(j)
    BY <1>4 DEF ProcessingFails, AdoptRefused
  <2> QED BY <2>1, WithdrawTypes DEF Withdraw
<1>5. ASSUME NEW j \in Job, Publish(j) PROVE TracksTypeOK'
  <2>1. job[j].source \in Source /\ job[j].raw \in Track
    BY DEF JobState, Track
  <2> QED BY <1>5, <2>1, ReplaceTypes DEF Publish, Track
<1>6. ASSUME NEW j \in Job, NEW s \in Source, RemoveTrack(j, s) PROVE TracksTypeOK'
  BY <1>6, ReplaceTypes DEF RemoveTrack, Track
<1>7. ASSUME NEW j \in Job, TrackAssumption, DenoiserFallback(j) PROVE TracksTypeOK'
  <2>1. job[localTracks["microphone"]].raw \in Track
    BY <1>7 DEF DenoiserFallback, JobState, Track, TrackAssumption
  <2> QED BY <1>7, <2>1, ReplaceTypes DEF DenoiserFallback, Track, TrackAssumption
<1>8. ASSUME NEW j \in Job, Adopt(j) PROVE TracksTypeOK'
  <2>1. job' \in [Job -> JobState]
    BY <1>2, <1>8 DEF Adopt, JobPhase
  <2>2. job[j].source \in Source /\ job[j].track \in Track
    BY DEF JobState, Track
  <2> QED BY <1>8, <2>1, <2>2 DEF Adopt, Track
<1>9. ASSUME NEW j \in Job, NEW sent \in BOOLEAN, Announced(j, sent) PROVE TracksTypeOK'
  BY <1>2, <1>9 DEF Announced, JobPhase
<1>10. ASSUME NEW p \in Peer, Settle(p) PROVE TracksTypeOK'
  <2> DEFINE o == Head(replacements[p])
             rest == Tail(replacements[p])
             left == [i \in DOMAIN rest |->
                        [rest[i] EXCEPT !.removed = @ \/ (o.track = Nothing /\ rest[i].source = o.source)]]
  <2>1. o \in Replacement /\ rest \in Seq(Replacement)
    BY <1>10, HeadTailProperties DEF Settle
  <2>2. job' \in [Job -> JobState]
    <3>1. [job[o.job] EXCEPT !.awaiting = @ \ {p}] \in JobState
      <4>1. job[o.job] \in JobState
        BY <2>1 DEF Replacement
      <4>2. job[o.job].awaiting \ {p} \in SUBSET Peer
        BY <4>1 DEF JobState
      <4> QED BY <4>1, <4>2 DEF JobState
    <3>2. job' = [job EXCEPT ![o.job] = [job[o.job] EXCEPT !.awaiting = @ \ {p}]]
      BY <1>10, <2>1 DEF Settle, JobState, Replacement
    <3> QED BY <2>1, <3>1, <3>2 DEF Replacement
  <2>3. sender' \in [Peer -> [Source -> Job \cup {Nothing}]]
    BY <1>10, <2>1 DEF Settle, Replacement
  <2>4. left \in Seq(Replacement)
    <3>1. Len(rest) \in Nat /\ DOMAIN rest = 1..Len(rest) /\ \A i \in DOMAIN rest : rest[i] \in Replacement
      BY <2>1, LenProperties, ElementOfSeq
    <3>2. \A i \in DOMAIN rest :
            [rest[i] EXCEPT !.removed = @ \/ (o.track = Nothing /\ rest[i].source = o.source)] \in Replacement
      BY <3>1 DEF Replacement
    <3>3. left \in [1..Len(rest) -> Replacement]
      BY <3>1, <3>2
    <3> QED BY <3>1, <3>3, SeqDef
  <2>5. replacements' = [replacements EXCEPT ![p] = left]
    BY <1>10 DEF Settle
  <2>6. replacements' \in [Peer -> Seq(Replacement)]
    BY <2>4, <2>5
  <2> QED BY <1>10, <2>2, <2>3, <2>6 DEF Settle
<1>11. ASSUME NEW p \in Peer, Reject(p) PROVE TracksTypeOK'
  <2>1. Head(replacements[p]) \in Replacement /\ Tail(replacements[p]) \in Seq(Replacement)
    BY <1>11, HeadTailProperties DEF Reject
  <2>2. replacements' \in [Peer -> Seq(Replacement)]
    BY <1>11, <2>1 DEF Reject
  <2>3. Head(replacements[p]).job \in Job
    BY <2>1 DEF Replacement
  <2>4. CASE GiveUp(Head(replacements[p]).job)
    BY <1>11, <2>2, <2>3, <2>4, WithdrawTypes DEF Reject
  <2>5. CASE UNCHANGED <<job, live, pendingMicrophones, enabled>>
    BY <1>11, <2>2, <2>5 DEF Reject
  <2> QED BY <1>11, <2>4, <2>5 DEF Reject
<1>12. ASSUME NEW on \in BOOLEAN, SetMicrophoneEnabled(on) PROVE TracksTypeOK'
  <2>1. enabled' \subseteq Job
    <3>1. pendingMicrophones \cup {localTracks["microphone"]} \subseteq Job \cup {Nothing}
      BY DEF TrackAssumption
    <3> QED BY <1>12, <3>1 DEF SetMicrophoneEnabled
  <2>2. microphoneEnabled' \in BOOLEAN \cup {Nothing}
    BY <1>12, Zenon DEF SetMicrophoneEnabled
  <2>3. UNCHANGED <<disposed, localTracks, pendingMicrophones, overwritten, peers, sender, replacements,
                     job, live>>
    BY <1>12 DEF SetMicrophoneEnabled
  <2> QED BY <2>1, <2>2, <2>3, Zenon
<1>13. ASSUME NEW p \in Peer, AddPeer(p) \/ RemovePeer(p) PROVE TracksTypeOK'
  BY <1>13 DEF AddPeer, RemovePeer, NoTracks
<1>14. CASE Dispose
  BY <1>14 DEF Dispose, NoTracks
<1>15. CASE UNCHANGED tracksVars
  BY <1>15 DEF tracksVars
<1> QED BY <1>1, <1>3, <1>4, <1>5, <1>6, <1>7, <1>8, <1>9, <1>10, <1>11, <1>12, <1>13, <1>14, <1>15 DEF TracksNext

(* The fields' types follow from TracksTypeOK.                             *)
LEMMA FieldTypes == (TracksTypeOK => Fields) /\ (TracksTypeOK' => Fields')
BY DEF TracksTypeOK, Fields, Track, JobState

-----------------------------------------------------------------------------
(* What a job has filled in, by its phase; a device has one first job, and *)
(* the track a job replaces was adopted before it began.                   *)
Jobs ==
  \A j \in Job :
    /\ job[j].phase = "unused" =>
         job[j].track = Nothing /\ job[j].raw = Nothing /\ job[j].previous = Nothing
    /\ job[j].phase # "unused" =>
         job[j].track \in {j, Nothing} /\ (job[j].track = Nothing <=> job[j].raw = Nothing)
    /\ job[j].phase \in {"asking", "processing"} =>
         job[j].track = j /\ job[j].raw = j /\ job[j].previous = Nothing
    /\ job[j].raw \notin {Nothing, j} => job[job[j].raw].phase = "done"
    /\ job[j].previous # Nothing =>
         /\ job[job[j].previous].phase = "done" /\ job[job[j].previous].track # Nothing
         /\ job[job[j].previous].source = job[j].source

(* The callers of one source wait for each other.                          *)
OneReplacementAtATime ==
  \A j, k \in Job : Working(j) /\ Working(k) /\ job[j].source = job[k].source => j = k

(* A device runs only for a capture that was granted.                      *)
Running == \A d \in live : job[d].phase \notin {"unused", "asking"}

(* A source's current track belongs to a job that adopted it.              *)
Currents ==
  \A s \in Source : localTracks[s] # Nothing =>
    /\ job[localTracks[s]].source = s /\ job[localTracks[s]].track # Nothing
    /\ job[localTracks[s]].phase \in {"announcing", "done"}

(* What a job that waits for the senders replaces is still the current     *)
(* track; after dispose, its device is off already, or the job's own.      *)
Publishing ==
  \A j \in Job : job[j].phase = "publishing" =>
    IF disposed
    THEN job[j].previous # Nothing => job[job[j].previous].raw \notin live \ {job[j].raw}
    ELSE localTracks[job[j].source] = job[j].previous

(* What a job announces is the current track; after dispose its device is  *)
(* off.                                                                    *)
Announcing ==
  \A j \in Job : job[j].phase = "announcing" =>
    IF disposed THEN job[j].track # Nothing => job[j].raw \notin live
    ELSE localTracks[job[j].source] = job[j].track

(* A track that is current, or is being replaced.                          *)
InUse(t) ==
  \/ \E s \in Source : localTracks[s] = t
  \/ \E j \in Job : Working(j) /\ job[j].previous = t

(* A job that took a track's device over (rawOwnershipTransferred) and is  *)
(* done while that track is still in use has failed, and stopped the       *)
(* device.                                                                 *)
Handover ==
  \A k \in Job :
    job[k].phase = "done" /\ job[k].previous # Nothing /\ job[k].track # Nothing
      /\ InUse(job[k].previous) => job[k].raw \notin live

(* The inductive invariant.                                                *)
TracksInv ==
  /\ TracksTypeOK /\ Jobs /\ OneReplacementAtATime /\ Running /\ Currents
  /\ Publishing /\ Announcing /\ Handover /\ CapturesAreReleased

(* A step that touches neither jobs, devices nor current tracks.           *)
LEMMA KeptStep ==
  ASSUME TracksInv, TracksTypeOK', Nothing \notin Job, \A k \in Job : KeptJob(k), live' = live, localTracks' = localTracks,
         disposed' = disposed
  PROVE  TracksInv'
<1> USE DEF TracksInv, KeptJob
<1>0. Fields /\ Fields'
  BY FieldTypes
<1>1. Jobs'
  BY <1>0 DEF Jobs, Fields, Track
<1>2. OneReplacementAtATime'
  BY <1>0 DEF OneReplacementAtATime, Working
<1>3. Running'
  BY <1>0 DEF Running, Fields, Track
<1>4. Currents'
  BY <1>0 DEF Currents, Fields, Track
<1>5. Publishing'
  BY <1>0 DEF Publishing, Fields, Track
<1>6. Announcing'
  BY <1>0 DEF Announcing, Fields, Track
<1>7. Handover'
  BY <1>0 DEF Handover, InUse, Working, Fields, Track
<1>8. CapturesAreReleased'
  BY <1>0 DEF CapturesAreReleased, Answered, Working, Fields, Track
<1> QED BY <1>1, <1>2, <1>3, <1>4, <1>5, <1>6, <1>7, <1>8

(* A capture begins, when no other job works on its source.                *)
LEMMA CaptureStep ==
  ASSUME TracksInv, TracksTypeOK', Nothing \notin Job, ~Overlap, NEW j \in Job, NEW s \in Source, Capture(j, s)
  PROVE  TracksInv'
<1> USE DEF TracksInv
<1>0. Fields /\ Fields'
  BY FieldTypes
<1>1. /\ job[j].phase = "unused" /\ ~disposed /\ disposed' = disposed
      /\ live' = live /\ localTracks' = localTracks
      /\ \A k \in Job : Working(k) => job[k].source # s
  BY DEF Capture, MayStart, engineVars
<1>2. /\ job'[j].phase = "asking" /\ job'[j].source = s /\ job'[j].track = j /\ job'[j].raw = j
      /\ job'[j].previous = Nothing
  BY DEF Capture, MayStart, TracksTypeOK, JobState, Jobs
<1>3. \A k \in Job \ {j} : KeptJob(k)
  BY DEF Capture, TracksTypeOK, JobState, KeptJob
<1> USE <1>1, <1>2, <1>3 DEF KeptJob
<1>4. Jobs'
  BY <1>0 DEF Jobs, Fields, Track
<1>5. OneReplacementAtATime'
  BY <1>0 DEF OneReplacementAtATime, Working
<1>6. Running'
  BY <1>0 DEF Running, Fields, Track
<1>7. Currents'
  BY <1>0 DEF Currents, Fields, Track
<1>8. Publishing'
  BY <1>0 DEF Publishing, Fields, Track, Jobs
<1>9. Announcing'
  BY <1>0 DEF Announcing, Fields, Track
<1>10. Handover'
  BY <1>0 DEF Handover, InUse, Working, Fields, Track
<1>11. CapturesAreReleased'
  <2> SUFFICES ASSUME NEW d \in live PROVE Answered(d)'
    BY <1>0 DEF CapturesAreReleased
  <2>1. Answered(d)
    BY <1>0 DEF CapturesAreReleased
  <2> QED BY <1>0, <2>1 DEF Answered, Working, Fields, Track, Currents, Jobs
<1> QED BY <1>4, <1>5, <1>6, <1>7, <1>8, <1>9, <1>10, <1>11

(* The device is granted, refused, or granted too late.                    *)
LEMMA GrantedStep ==
  ASSUME TracksInv, TracksTypeOK', Nothing \notin Job,  NEW j \in Job, Granted(j) \/ Refused(j)
  PROVE  TracksInv'
<1> USE DEF TracksInv
<1>0. Fields /\ Fields'
  BY FieldTypes
<1>1. /\ job[j].phase = "asking" /\ disposed' = disposed /\ localTracks' = localTracks
      /\ live' \subseteq live \cup {j} /\ live \subseteq live'
      /\ disposed => live' = live
      /\ j \notin live /\ j # Nothing /\ Nothing \notin live
      /\ job[j].raw = j /\ job[j].previous = Nothing /\ job[j].track = j
  BY DEF Granted, Refused, engineVars, Running, Jobs, TracksTypeOK, TrackAssumption
<1>2. /\ job'[j].source = job[j].source /\ job'[j].track = j /\ job'[j].raw = j
      /\ job'[j].previous = Nothing
      /\ \/ job'[j].phase = "done" /\ live' = live
         \/ job'[j].phase = "processing" /\ ~disposed
  BY <1>1 DEF Granted, Refused, TracksTypeOK, JobState
<1>3. \A k \in Job \ {j} : KeptJob(k)
  BY DEF Granted, Refused, TracksTypeOK, JobState, KeptJob
<1> USE <1>1, <1>2, <1>3 DEF KeptJob
<1>4. Jobs'
  BY <1>0 DEF Jobs, Fields, Track
<1>5. OneReplacementAtATime'
  BY <1>0 DEF OneReplacementAtATime, Working
<1>6. Running'
  BY <1>0 DEF Running, Fields, Track
<1>7. Currents'
  BY <1>0 DEF Currents, Fields, Track
<1>8. Publishing'
  BY <1>0 DEF Publishing, Fields, Track, Jobs
<1>9. Announcing'
  BY <1>0 DEF Announcing, Fields, Track
<1>10. Handover'
  BY <1>0 DEF Handover, InUse, Working, Fields, Track, Jobs
<1>11. CapturesAreReleased'
  <2> SUFFICES ASSUME NEW d \in live' PROVE Answered(d)'
    BY <1>0 DEF CapturesAreReleased
  <2>1. CASE d = j
    BY <1>0, <2>1 DEF Answered, Working
  <2>2. CASE d \in live /\ d # j
    <3>1. Answered(d)
      BY <1>0, <2>2 DEF CapturesAreReleased
    <3> QED BY <1>0, <2>2, <3>1 DEF Answered, Working, Fields, Track, Currents, Jobs
  <2> QED BY <2>1, <2>2
<1> QED BY <1>4, <1>5, <1>6, <1>7, <1>8, <1>9, <1>10, <1>11

(* A job is given up: its device stops, what it was to replace stays       *)
(* current, or was stopped by dispose.                                     *)
LEMMA GiveUpStep ==
  ASSUME TracksInv, TracksTypeOK', Nothing \notin Job, NEW j \in Job, job[j].phase \in {"processing", "publishing"},
         GiveUp(j), UNCHANGED <<disposed, localTracks>>
  PROVE  TracksInv'
<1> USE DEF TracksInv
<1>0. Fields /\ Fields'
  BY FieldTypes
<1>1. /\ job'[j].phase = "done" /\ job'[j].source = job[j].source /\ job'[j].track = job[j].track
      /\ job'[j].raw = job[j].raw /\ job'[j].previous = job[j].previous
      /\ live' \subseteq live
      /\ job[j].track # Nothing => live' = live \ {job[j].raw}
  BY DEF GiveUp, TracksTypeOK, JobState
<1>2. \A k \in Job \ {j} : KeptJob(k)
  BY DEF GiveUp, TracksTypeOK, JobState, KeptJob
<1> USE <1>1, <1>2 DEF KeptJob
<1>3. /\ disposed' = disposed /\ localTracks' = localTracks
  OBVIOUS
<1>4. Jobs'
  BY <1>0 DEF Jobs, Fields, Track
<1>5. OneReplacementAtATime'
  BY <1>0 DEF OneReplacementAtATime, Working
<1>6. Running'
  BY <1>0 DEF Running, Fields, Track
<1>7. Currents'
  BY <1>0 DEF Currents, Fields, Track
<1>8. Publishing'
  BY <1>0 DEF Publishing, Fields, Track, Jobs
<1>9. Announcing'
  BY <1>0 DEF Announcing, Fields, Track
<1>10. Handover'
  BY <1>0 DEF Handover, InUse, Working, Fields, Track, Jobs
<1>11. CapturesAreReleased'
  <2> SUFFICES ASSUME NEW d \in live' PROVE Answered(d)'
    BY <1>0 DEF CapturesAreReleased
  <2>1. Answered(d) /\ d \in live
    BY <1>0 DEF CapturesAreReleased
  <2>2. d # job[j].raw
    BY <1>0 DEF Jobs, Fields, Track
  <2> QED BY <1>0, <2>1 DEF Answered, Working, Fields, Track, Currents, Jobs, Publishing
<1> QED BY <1>4, <1>5, <1>6, <1>7, <1>8, <1>9, <1>10, <1>11

(* A job reads what it is to replace and asks the senders.                 *)
LEMMA ReplaceStep ==
  ASSUME TracksInv, TracksTypeOK', Nothing \notin Job, ~disposed,
         NEW j \in Job, NEW s \in Source, NEW t \in Track, NEW raw \in Track,
         Replace(j, s, t, raw), UNCHANGED live,
         \/ job[j].phase = "processing" /\ s = job[j].source /\ t = j /\ raw = job[j].raw
         \/ /\ job[j].phase = "unused" /\ localTracks[s] # Nothing
            /\ \A k \in Job : Working(k) => job[k].source # s
            /\ \/ t = Nothing /\ raw = Nothing
               \/ t = j /\ raw = job[localTracks[s]].raw
  PROVE  TracksInv'
<1> USE DEF TracksInv
<1>0. Fields /\ Fields'
  BY FieldTypes
<1>1. /\ job'[j].phase = "publishing" /\ job'[j].source = s /\ job'[j].track = t /\ job'[j].raw = raw
      /\ job'[j].previous = localTracks[s]
      /\ disposed' = disposed /\ localTracks' = localTracks /\ live' = live
  BY DEF Replace, TracksTypeOK
<1>2. \A k \in Job \ {j} : KeptJob(k)
  BY DEF Replace, TracksTypeOK, KeptJob
<1>3. /\ job[j].phase \in {"unused", "processing"}
      /\ \A k \in Job \ {j} : Working(k) => job[k].source # s
  BY DEF OneReplacementAtATime, Working
<1>4. localTracks[s] # Nothing => localTracks[s] \in Job \ {j} /\ job[localTracks[s]].phase = "done"
  BY <1>0, <1>3 DEF Currents, Fields, Track, Working
<1>5. (t = Nothing <=> raw = Nothing) /\ t \in {j, Nothing}
  BY <1>0, <1>4 DEF Jobs, Currents, Fields, Track
<1>6. raw \notin {Nothing, j} => job[raw].phase = "done" /\ raw \in Job
  BY <1>0, <1>4 DEF Jobs, Fields, Track
<1> USE <1>1, <1>2, <1>3, <1>4, <1>5, <1>6 DEF KeptJob
<1>7. Jobs'
  BY <1>0 DEF Jobs, Fields, Track, Currents
<1>8. OneReplacementAtATime'
  BY DEF OneReplacementAtATime, Working, Fields
<1>9. Running'
  BY <1>0 DEF Running, Fields, Track
<1>10. Currents'
  BY <1>0 DEF Currents, Fields, Track
<1>11. Publishing'
  BY <1>0 DEF Publishing, Fields, Track, Jobs
<1>12. Announcing'
  BY <1>0 DEF Announcing, Fields, Track
<1>13. Handover'
  BY <1>0 DEF Handover, InUse, Working, Fields, Track, Jobs
<1>14. CapturesAreReleased'
  <2> SUFFICES ASSUME NEW d \in live' PROVE Answered(d)'
    BY DEF CapturesAreReleased
  <2>1. Answered(d)
    BY DEF CapturesAreReleased
  <2> QED BY <1>0, <2>1 DEF Answered, Working, Fields, Track, Currents, Jobs
<1> QED BY <1>7, <1>8, <1>9, <1>10, <1>11, <1>12, <1>13, <1>14

(* The senders have the new track: what was current is now what the        *)
(* announcing job is to release.                                           *)
LEMMA AdoptStep ==
  ASSUME TracksInv, TracksTypeOK', Nothing \notin Job, NEW j \in Job, Adopt(j)
  PROVE  TracksInv'
<1> USE DEF TracksInv
<1>0. Fields /\ Fields'
  BY FieldTypes
<1>1. /\ job[j].phase = "publishing" /\ ~disposed /\ disposed' = disposed /\ live' = live
      /\ localTracks[job[j].source] = job[j].previous
  BY DEF Adopt, Publishing
<1>2. /\ job'[j].phase = "announcing" /\ job'[j].source = job[j].source /\ job'[j].track = job[j].track
      /\ job'[j].raw = job[j].raw /\ job'[j].previous = job[j].previous
  BY DEF Adopt, TracksTypeOK, JobState
<1>3. \A k \in Job \ {j} : KeptJob(k)
  BY DEF Adopt, TracksTypeOK, JobState, KeptJob
<1>4. /\ localTracks'[job[j].source] = job[j].track
      /\ \A s \in Source \ {job[j].source} : localTracks'[s] = localTracks[s]
  BY <1>0 DEF Adopt, TracksTypeOK, Fields
<1> USE <1>1, <1>2, <1>3, <1>4 DEF KeptJob
<1>5. Jobs'
  BY <1>0 DEF Jobs, Fields, Track
<1>6. OneReplacementAtATime'
  BY DEF OneReplacementAtATime, Working
<1>7. Running'
  BY <1>0 DEF Running, Fields, Track
<1>8. Currents'
  BY <1>0 DEF Currents, Fields, Track, Jobs
<1>9. Publishing'
  BY <1>0 DEF Publishing, Fields, Track, Jobs, OneReplacementAtATime, Working
<1>10. Announcing'
  BY <1>0 DEF Announcing, Fields, Track, OneReplacementAtATime, Working
<1>11. Handover'
  BY <1>0 DEF Handover, InUse, Working, Fields, Track, Jobs
<1>12. CapturesAreReleased'
  <2> SUFFICES ASSUME NEW d \in live' PROVE Answered(d)'
    BY DEF CapturesAreReleased
  <2>1. Answered(d)
    BY DEF CapturesAreReleased
  <2>2. ASSUME NEW k \in Job, Working(k) \/ k = j,
               job[k].raw = d \/ (job[k].previous # Nothing /\ job[job[k].previous].raw = d)
        PROVE  Answered(d)'
    BY <1>0, <2>2 DEF Answered, Working, Fields, Track
  <2>3. ASSUME NEW s \in Source, localTracks[s] # Nothing, job[localTracks[s]].raw = d
        PROVE  Answered(d)'
    <3>1. CASE s = job[j].source
      BY <1>0, <2>2, <2>3, <3>1
    <3>2. CASE s # job[j].source
      <4>1. localTracks[s] \in Job /\ job'[localTracks[s]].raw = d
        BY <1>0, <2>3 DEF Fields, Track
      <4> QED BY <1>0, <2>3, <3>2, <4>1 DEF Answered
    <3> QED BY <3>1, <3>2
  <2> QED BY <2>1, <2>2, <2>3 DEF Answered
<1> QED BY <1>5, <1>6, <1>7, <1>8, <1>9, <1>10, <1>11, <1>12

(* The old track's device goes, unless the new track has taken it over,    *)
(* and then the new track is current.                                      *)
LEMMA AnnouncedStep ==
  ASSUME TracksInv, TracksTypeOK', Nothing \notin Job, NEW j \in Job, NEW sent \in BOOLEAN,
         Announced(j, sent)
  PROVE  TracksInv'
<1> USE DEF TracksInv
<1>0. Fields /\ Fields'
  BY FieldTypes
<1>1. /\ job[j].phase = "announcing" /\ disposed' = disposed /\ live' \subseteq live
      /\ live' \cap DeviceOf(job[j].previous) = {} /\ localTracks' = localTracks
  BY DEF Announced, engineVars
<1>2. /\ job'[j].phase = "done" /\ job'[j].source = job[j].source /\ job'[j].track = job[j].track
      /\ job'[j].raw = job[j].raw /\ job'[j].previous = job[j].previous
  BY DEF Announced, TracksTypeOK, JobState
<1>3. \A k \in Job \ {j} : KeptJob(k)
  BY DEF Announced, TracksTypeOK, JobState, KeptJob
<1> USE <1>1, <1>2, <1>3 DEF KeptJob
<1>4. Jobs'
  BY <1>0 DEF Jobs, Fields, Track
<1>5. OneReplacementAtATime'
  BY DEF OneReplacementAtATime, Working
<1>6. Running'
  BY <1>0 DEF Running, Fields, Track
<1>7. Currents'
  BY <1>0 DEF Currents, Fields, Track
<1>8. Publishing'
  BY <1>0 DEF Publishing, Fields, Track, Jobs
<1>9. Announcing'
  BY <1>0 DEF Announcing, Fields, Track
<1>10. Handover'
  BY <1>0 DEF Handover, InUse, Working, Fields, Track, Jobs, OneReplacementAtATime, Announcing, Currents
<1>11. CapturesAreReleased'
  <2> SUFFICES ASSUME NEW d \in live' PROVE Answered(d)'
    BY DEF CapturesAreReleased
  <2>1. Answered(d) /\ d \in live
    BY DEF CapturesAreReleased
  <2>2. CASE \E s \in Source : localTracks[s] # Nothing /\ job[localTracks[s]].raw = d
    BY <1>0, <2>2 DEF Answered, Fields, Track
  <2>3. ASSUME NEW k \in Job \ {j}, Working(k),
               job[k].raw = d \/ (job[k].previous # Nothing /\ job[job[k].previous].raw = d)
        PROVE  Answered(d)'
    BY <1>0, <2>3 DEF Answered, Working, Fields, Track
  <2>4. CASE job[j].raw = d
    <3>1. ~disposed /\ localTracks[job[j].source] = job[j].track /\ job[j].track = j
      BY <1>0, <2>1, <2>4 DEF Announcing, Jobs, Fields
    <3> QED BY <1>0, <2>2, <2>4, <3>1 DEF Fields
  <2>5. CASE job[j].previous # Nothing /\ job[job[j].previous].raw = d
    <3>1. PICK k \in Job \ {job[j].previous} :
            job[k].raw = d /\ job[k].phase # "unused" /\ job[k].previous = job[j].previous
      BY <2>5 DEF DeviceOf
    <3>2. CASE k = j
      BY <2>4, <3>1, <3>2
    <3>3. CASE k # j /\ Working(k)
      BY <2>3, <3>1, <3>3
    <3>4. CASE k # j /\ ~Working(k)
      <4>1. job[k].phase = "done" /\ job[k].track # Nothing /\ InUse(job[k].previous)
        BY <1>0, <2>1, <2>5, <3>1, <3>4 DEF Working, InUse, Jobs, Fields
      <4> QED BY <2>1, <2>5, <3>1, <4>1 DEF Handover
    <3> QED BY <3>2, <3>3, <3>4
  <2> QED BY <2>1, <2>2, <2>3, <2>4, <2>5 DEF Answered
<1> QED BY <1>4, <1>5, <1>6, <1>7, <1>8, <1>9, <1>10, <1>11

(* Dispose stops the devices of the current tracks, and leaves those that  *)
(* a working job holds to that job.                                        *)
LEMMA DisposeStep ==
  ASSUME TracksInv, TracksTypeOK', Nothing \notin Job, Dispose
  PROVE  TracksInv'
<1> USE DEF TracksInv
<1>0. Fields /\ Fields'
  BY FieldTypes
<1>1. /\ ~disposed /\ disposed' /\ live' \subseteq live /\ job' = job
      /\ \A s \in Source : live' \cap DeviceOf(localTracks[s]) = {} /\ localTracks'[s] = Nothing
  BY DEF Dispose, NoTracks
<1>2. ASSUME NEW s \in Source, NEW d \in live', localTracks[s] # Nothing, job[localTracks[s]].raw = d
      PROVE  \E k \in Job : Working(k) /\ job[k].raw = d /\ job[k].previous = localTracks[s]
  <2>1. PICK k \in Job \ {localTracks[s]} :
          job[k].raw = d /\ job[k].phase # "unused" /\ job[k].previous = localTracks[s]
    BY <1>1, <1>2 DEF DeviceOf
  <2>2. CASE ~Working(k)
    <3>1. job[k].phase = "done" /\ job[k].track # Nothing /\ InUse(job[k].previous)
      BY <1>0, <1>1, <1>2, <2>1, <2>2 DEF Working, InUse, Jobs, Fields
    <3> QED BY <1>1, <1>2, <2>1, <3>1 DEF Handover
  <2> QED BY <2>1, <2>2
<1>3. Jobs' /\ OneReplacementAtATime' /\ Running' /\ Currents'
  BY <1>1 DEF Jobs, OneReplacementAtATime, Running, Currents, Working
<1>4. Publishing'
  <2> SUFFICES ASSUME NEW j \in Job, job[j].phase = "publishing", job[j].previous # Nothing,
                      job[job[j].previous].raw \in live', job[job[j].previous].raw # job[j].raw
               PROVE  FALSE
    BY <1>1 DEF Publishing
  <2>1. job[j].source \in Source /\ localTracks[job[j].source] = job[j].previous
    BY <1>0, <1>1 DEF Publishing, Fields
  <2>2. PICK k \in Job : Working(k) /\ job[k].raw = job[job[j].previous].raw /\ job[k].previous = job[j].previous
    BY <1>2, <2>1
  <2>3. job[k].source = job[j].source
    BY <2>2 DEF Jobs
  <2> QED BY <2>2, <2>3 DEF OneReplacementAtATime, Working
<1>5. Announcing'
  <2> SUFFICES ASSUME NEW j \in Job, job[j].phase = "announcing", job[j].track # Nothing, job[j].raw \in live'
               PROVE  FALSE
    BY <1>1 DEF Announcing
  <2>1. job[j].source \in Source /\ localTracks[job[j].source] = j /\ j # Nothing
    BY <1>0, <1>1 DEF Announcing, Fields, Jobs
  <2>2. PICK k \in Job : Working(k) /\ job[k].raw = job[j].raw /\ job[k].previous = j
    BY <1>2, <2>1
  <2> QED BY <2>1, <2>2 DEF Jobs
<1>6. Handover'
  BY <1>0, <1>1 DEF Handover, InUse, Working, Fields, Track
<1>7. CapturesAreReleased'
  <2> SUFFICES ASSUME NEW d \in live' PROVE Answered(d)'
    BY DEF CapturesAreReleased
  <2>1. Answered(d)
    BY <1>1 DEF CapturesAreReleased
  <2> QED BY <1>1, <1>2, <2>1 DEF Answered, Working
<1> QED BY <1>3, <1>4, <1>5, <1>6, <1>7

(* The invariant holds when the engine is made.                            *)
LEMMA TracksInvInit == TrackAssumption /\ TracksInit => TracksInv
<1> SUFFICES ASSUME TrackAssumption, TracksInit PROVE TracksInv
  OBVIOUS
<1> USE DEF TracksInit, TrackAssumption, NoTracks
<1>1. TracksTypeOK
  <2>1. [phase |-> "unused", source |-> "microphone", track |-> Nothing, raw |-> Nothing,
         previous |-> Nothing, awaiting |-> {}] \in JobState
    BY DEF JobState, JobPhase
  <2>2. replacements \in [Peer -> Seq(Replacement)]
    BY EmptySeq
  <2>3. microphoneEnabled \in BOOLEAN \cup {Nothing}
    OBVIOUS
  <2>4. /\ disposed \in BOOLEAN /\ localTracks \in [Source -> Job \cup {Nothing}]
        /\ pendingMicrophones \subseteq Job /\ overwritten \subseteq Job /\ peers \subseteq Peer
        /\ sender \in [Peer -> [Source -> Job \cup {Nothing}]]
        /\ job \in [Job -> JobState] /\ live \subseteq Job /\ enabled \subseteq Job
    BY <2>1
  <2> QED BY <2>2, <2>3, <2>4 DEF TracksTypeOK
<1>2. Jobs /\ OneReplacementAtATime /\ Publishing /\ Announcing
  BY DEF Jobs, OneReplacementAtATime, Working, Publishing, Announcing
<1>3. Running /\ Currents /\ Handover /\ CapturesAreReleased
  BY DEF Running, Currents, Handover, CapturesAreReleased
<1> QED BY <1>1, <1>2, <1>3 DEF TracksInv

(* Every step keeps it, when replacements of a source do not overlap.      *)
LEMMA TracksInvStep ==
  ASSUME TrackAssumption, ~Overlap, TracksInv, [TracksNext]_tracksVars PROVE TracksInv'
<1>1. TracksTypeOK /\ TracksTypeOK' /\ Nothing \notin Job
  BY TracksTypeStep DEF TracksInv, TrackAssumption
<1>2. Fields
  BY <1>1, FieldTypes
<1>3. ASSUME NEW j \in Job, NEW s \in Source, Capture(j, s) PROVE TracksInv'
  BY <1>1, <1>3, CaptureStep
<1>4. ASSUME NEW j \in Job, Granted(j) \/ Refused(j) PROVE TracksInv'
  BY <1>1, <1>4, GrantedStep
<1>5. ASSUME NEW j \in Job, ProcessingFails(j) \/ AdoptRefused(j) PROVE TracksInv'
  BY <1>1, <1>5, GiveUpStep DEF ProcessingFails, AdoptRefused, Withdraw
<1>6. ASSUME NEW j \in Job, Publish(j) PROVE TracksInv'
  <2>1. job[j].source \in Source /\ job[j].raw \in Track /\ j \in Track
    BY <1>2 DEF Fields, Track
  <2> QED BY <1>1, <1>6, <2>1, ReplaceStep DEF Publish
<1>7. ASSUME NEW j \in Job, NEW s \in Source, RemoveTrack(j, s) PROVE TracksInv'
  <2>1. Nothing \in Track
    BY DEF Track
  <2> QED BY <1>1, <1>7, <2>1, ReplaceStep DEF RemoveTrack, MayStart
<1>8. ASSUME NEW j \in Job, DenoiserFallback(j) PROVE TracksInv'
  <2>1. "microphone" \in Source
    BY DEF TrackAssumption
  <2>2. job[localTracks["microphone"]].raw \in Track /\ j \in Track
    BY <1>2, <1>8, <2>1 DEF DenoiserFallback, Fields, Track
  <2> QED BY <1>1, <1>8, <2>1, <2>2, ReplaceStep DEF DenoiserFallback, MayStart
<1>9. ASSUME NEW j \in Job, Adopt(j) PROVE TracksInv'
  BY <1>1, <1>9, AdoptStep
<1>10. ASSUME NEW j \in Job, NEW sent \in BOOLEAN, Announced(j, sent) PROVE TracksInv'
  BY <1>1, <1>10, AnnouncedStep
<1>11. ASSUME NEW p \in Peer, Settle(p) PROVE TracksInv'
  <2>1. \A k \in Job : KeptJob(k)
    BY <1>1, <1>11 DEF Settle, KeptJob, TracksTypeOK, JobState
  <2> QED BY <1>1, <1>11, <2>1, KeptStep DEF Settle, engineVars
<1>12. ASSUME NEW p \in Peer, Reject(p) PROVE TracksInv'
  <2> DEFINE j == Head(replacements[p]).job
  <2>1. CASE job[j].phase = "publishing" /\ GiveUp(j)
    <3>1. j \in Job
      <4>1. replacements[p] \in Seq(Replacement) /\ replacements[p] # <<>>
        BY <1>1, <1>12 DEF Reject, TracksTypeOK
      <4>2. Head(replacements[p]) \in Replacement
        BY <4>1, HeadTailProperties
      <4> QED BY <4>2 DEF Replacement
    <3> QED BY <1>1, <1>12, <2>1, <3>1, GiveUpStep DEF Reject
  <2>2. CASE UNCHANGED <<job, live>>
    <3>1. \A k \in Job : KeptJob(k)
      BY <2>2 DEF KeptJob
    <3> QED BY <1>1, <1>12, <2>2, <3>1, KeptStep DEF Reject
  <2> QED BY <1>12, <2>1, <2>2 DEF Reject
<1>13. CASE \/ \E p \in Peer : AddPeer(p) \/ RemovePeer(p)
            \/ \E on \in BOOLEAN : SetMicrophoneEnabled(on)
            \/ UNCHANGED tracksVars
  <2>1. UNCHANGED <<job, live, localTracks, disposed>>
    BY <1>13 DEF AddPeer, RemovePeer, SetMicrophoneEnabled, tracksVars, engineVars
  <2>2. \A k \in Job : KeptJob(k)
    BY <2>1 DEF KeptJob
  <2> QED BY <1>1, <2>1, <2>2, KeptStep
<1>14. CASE Dispose
  BY <1>1, <1>14, DisposeStep
<1> QED BY <1>3, <1>4, <1>5, <1>6, <1>7, <1>8, <1>9, <1>10, <1>11, <1>12, <1>13, <1>14 DEF TracksNext

-----------------------------------------------------------------------------
(* What setMicrophoneEnabled opens and closes.                             *)
Gates == pendingMicrophones \cup {localTracks["microphone"]}

(* The pending microphones are those a job is publishing.                  *)
PendingMicrophones ==
  \A j \in Job : j \in pendingMicrophones <=>
    ~disposed /\ job[j].phase = "publishing" /\ job[j].source = "microphone" /\ job[j].track # Nothing

(* A job publishes the track of its name.                                  *)
OwnTrack == \A j \in Job : job[j].track \in {j, Nothing}

(* An open track can be reached by the next mute, is being announced away, *)
(* or was overwritten by a replacement that overlapped its own.            *)
Gating ==
  \A t \in enabled : ~disposed =>
    \/ t \in Gates \/ t \in overwritten
    \/ \E j \in Job : job[j].phase = "announcing" /\ job[j].previous = t

(* A muted call has closed all it can reach.                               *)
Silenced == microphoneEnabled = FALSE => Gates \cap enabled = {}

(* After dispose there are neither tracks nor peers.                       *)
Empty == disposed => localTracks = NoTracks /\ peers = {}

(* What MutedIsSilent rests on.                                            *)
MuteInv == PendingMicrophones /\ OwnTrack /\ Gating /\ Silenced /\ Empty

(* A step of a job that gates nothing.                                     *)
LEMMA MuteFrame ==
  ASSUME MuteInv, TracksTypeOK, UNCHANGED <<engineVars, enabled>>, peers' \subseteq peers \/ ~disposed,
         OwnTrack',
         \A k \in Job : job'[k].phase = "publishing" \/ job[k].phase \in {"publishing", "announcing"}
                         => KeptJob(k)
  PROVE  MuteInv'
<1> USE DEF MuteInv, engineVars
<1>1. PendingMicrophones'
  BY DEF PendingMicrophones, KeptJob
<1>2. Gating'
  BY DEF Gating, Gates, KeptJob
<1>3. Silenced'
  BY DEF Silenced, Gates
<1>4. Empty'
  BY DEF Empty
<1> QED BY <1>1, <1>2, <1>3, <1>4

(* A job that is given up takes its own track from the pending ones, and   *)
(* stops it.                                                               *)
LEMMA MuteGiveUp ==
  ASSUME MuteInv, TracksTypeOK, Nothing \notin Job, NEW j \in Job,
         job[j].phase \in {"processing", "publishing"},
         GiveUp(j), UNCHANGED <<disposed, microphoneEnabled, localTracks, overwritten, peers>>
  PROVE  MuteInv'
<1> USE DEF MuteInv
<1>0. Fields
  BY FieldTypes
<1>1. /\ job'[j].phase = "done" /\ enabled' = enabled \ {job[j].track}
      /\ pendingMicrophones' = pendingMicrophones \ {job[j].track}
      /\ job[j].track \in {j, Nothing}
      /\ job'[j].track = job[j].track
  BY <1>0 DEF GiveUp, TracksTypeOK, JobState, OwnTrack
<1>2. \A k \in Job \ {j} : KeptJob(k)
  BY <1>0 DEF GiveUp, TracksTypeOK, JobState, KeptJob
<1>3. PendingMicrophones' /\ OwnTrack'
  BY <1>1, <1>2 DEF PendingMicrophones, OwnTrack, KeptJob
<1>4. Gating'
  <2> SUFFICES ASSUME NEW t \in enabled', ~disposed'
               PROVE  t \in Gates' \/ t \in overwritten' \/ \E k \in Job : job'[k].phase = "announcing" /\ job'[k].previous = t
    BY DEF Gating
  <2>1. CASE t \in Gates
    BY <1>1, <2>1 DEF Gates
  <2>2. ASSUME NEW k \in Job, job[k].phase = "announcing", job[k].previous = t PROVE KeptJob(k)
    BY <1>2, <2>2
  <2> QED BY <1>1, <2>1, <2>2 DEF Gating, KeptJob
<1>5. Silenced'
  BY <1>1 DEF Silenced, Gates
<1>6. Empty'
  BY DEF Empty
<1> QED BY <1>3, <1>4, <1>5, <1>6

(* A track is gated as it becomes pending, by what the call last asked     *)
(* for.                                                                    *)
LEMMA MuteReplace ==
  ASSUME MuteInv, TracksTypeOK, TrackAssumption, ~disposed, NEW j \in Job, NEW s \in Source,
         NEW t \in {j, Nothing}, NEW raw, Replace(j, s, t, raw), job[j].phase \in {"unused", "processing"}
  PROVE  MuteInv'
<1> USE DEF MuteInv, TrackAssumption
<1>0. Fields
  BY FieldTypes
<1>1. /\ job'[j].phase = "publishing" /\ job'[j].source = s /\ job'[j].track = t
      /\ UNCHANGED <<disposed, microphoneEnabled, localTracks, overwritten, peers>>
      /\ pendingMicrophones' = IF s = "microphone" /\ t # Nothing
                               THEN pendingMicrophones \cup {t} ELSE pendingMicrophones
      /\ enabled' = Gated(t, s)
  BY <1>0 DEF Replace, TracksTypeOK
<1>2. \A k \in Job \ {j} : KeptJob(k)
  BY <1>0 DEF Replace, TracksTypeOK, KeptJob
<1>3. PendingMicrophones' /\ OwnTrack'
  BY <1>1, <1>2 DEF PendingMicrophones, OwnTrack, KeptJob
<1>4. CASE s # "microphone" \/ t = Nothing
  <2>1. enabled' = enabled /\ pendingMicrophones' = pendingMicrophones
    BY <1>1, <1>4 DEF Gated
  <2>2. Gating'
    BY <1>1, <1>2, <2>1 DEF Gating, Gates, KeptJob
  <2> QED BY <1>1, <1>3, <2>1, <2>2 DEF Silenced, Gates, Empty
<1>5. CASE s = "microphone" /\ t = j
  <2>1. /\ enabled' \subseteq enabled \cup {j} /\ Gates' = Gates \cup {j}
        /\ microphoneEnabled = FALSE => enabled' = enabled \ {j}
    BY <1>1, <1>5 DEF Gated, Gates
  <2>2. Gating'
    BY <1>1, <1>2, <2>1 DEF Gating, KeptJob
  <2>3. Silenced'
    BY <1>1, <2>1 DEF Silenced
  <2> QED BY <1>1, <1>3, <2>2, <2>3 DEF Empty
<1> QED BY <1>4, <1>5

(* An adopted track moves from the pending ones to the current one, and    *)
(* stays within reach; the one it finds there is what it replaces, or      *)
(* counts as overwritten.                                                  *)
LEMMA MuteAdopt ==
  ASSUME MuteInv, TracksTypeOK, TrackAssumption, NEW j \in Job, Adopt(j)
  PROVE  MuteInv'
<1> USE DEF MuteInv, TrackAssumption
<1>0. Fields
  BY FieldTypes
<1>1. /\ job[j].phase = "publishing" /\ ~disposed /\ UNCHANGED <<disposed, microphoneEnabled, peers, enabled>>
      /\ overwritten' = overwritten \cup ({localTracks[job[j].source]} \ {job[j].previous, Nothing})
      /\ pendingMicrophones' = pendingMicrophones \ {job[j].track} /\ job[j].track \in {j, Nothing}
  BY DEF Adopt, OwnTrack, peerVars
<1>2. /\ job'[j].phase = "announcing" /\ job'[j].previous = job[j].previous
      /\ job'[j].track = job[j].track
  BY <1>0 DEF Adopt, TracksTypeOK, JobState
<1>3. \A k \in Job \ {j} : KeptJob(k)
  BY <1>0 DEF Adopt, TracksTypeOK, JobState, KeptJob
<1>4. PendingMicrophones' /\ OwnTrack'
  BY <1>1, <1>2, <1>3 DEF PendingMicrophones, OwnTrack, KeptJob
<1>5. CASE job[j].source # "microphone"
  <2>1. Gates' = Gates
    BY <1>0, <1>1, <1>5 DEF Gates, PendingMicrophones, Adopt, TracksTypeOK, Fields
  <2>2. Gating'
    BY <1>1, <1>2, <1>3, <2>1 DEF Gating, KeptJob
  <2> QED BY <1>1, <1>4, <2>1, <2>2 DEF Silenced, Empty
<1>6. CASE job[j].source = "microphone"
  <2>1. localTracks'["microphone"] = job[j].track
    BY <1>0, <1>1, <1>6 DEF Adopt, TracksTypeOK
  <2>2. Gates' \subseteq Gates \cup {Nothing} /\ Gates \subseteq Gates' \cup overwritten' \cup {job[j].previous, Nothing}
    BY <1>1, <1>6, <2>1 DEF Gates, PendingMicrophones
  <2>3. Gating'
    BY <1>0, <1>1, <1>2, <1>3, <2>2 DEF Gating, KeptJob, TracksTypeOK
  <2>4. Silenced'
    BY <1>0, <1>1, <2>2 DEF Silenced, TracksTypeOK
  <2> QED BY <1>1, <1>4, <2>3, <2>4 DEF Empty
<1> QED BY <1>5, <1>6

(* The track that was replaced is stopped.                                 *)
LEMMA MuteAnnounced ==
  ASSUME MuteInv, TracksTypeOK, NEW j \in Job, NEW sent \in BOOLEAN, Announced(j, sent)
  PROVE  MuteInv'
<1> USE DEF MuteInv
<1>1. /\ job[j].phase = "announcing" /\ UNCHANGED <<engineVars, peers>>
      /\ enabled' = enabled \ {job[j].previous}
  BY DEF Announced, peerVars
<1>2. job'[j].phase = "done" /\ job'[j].track = job[j].track /\ \A k \in Job \ {j} : KeptJob(k)
  BY DEF Announced, TracksTypeOK, JobState, KeptJob
<1>3. PendingMicrophones' /\ OwnTrack'
  BY <1>1, <1>2 DEF PendingMicrophones, OwnTrack, KeptJob, engineVars
<1>4. Gating'
  BY <1>1, <1>2 DEF Gating, Gates, KeptJob, engineVars
<1> QED BY <1>1, <1>3, <1>4 DEF Silenced, Gates, Empty, engineVars

(* Every step keeps MuteInv.                                               *)
LEMMA MuteInvStep ==
  ASSUME TrackAssumption, TracksTypeOK, MuteInv, [TracksNext]_tracksVars PROVE MuteInv'
<1>1. Nothing \notin Job /\ Fields
  BY FieldTypes DEF TrackAssumption
<1>2. ASSUME NEW j \in Job,
             Granted(j) \/ Refused(j) \/ \E s \in Source : Capture(j, s)
      PROVE  MuteInv'
  <2>1. UNCHANGED <<engineVars, peers, enabled>>
    BY <1>2 DEF Capture, Granted, Refused, peerVars
  <2>2. job[j].phase \in {"unused", "asking"} /\ job'[j].phase # "publishing"
    <3>1. CASE \E s \in Source : Capture(j, s)
      BY <1>1, <3>1 DEF Capture, MayStart, TracksTypeOK, JobState
    <3>2. CASE Granted(j) \/ Refused(j)
      BY <1>1, <3>2 DEF Granted, Refused, TracksTypeOK, JobState
    <3> QED BY <1>2, <3>1, <3>2
  <2>3. \A k \in Job \ {j} : KeptJob(k)
    BY <1>1, <1>2 DEF Capture, Granted, Refused, TracksTypeOK, JobState, KeptJob
  <2>4. OwnTrack'
    <3>1. job'[j].track \in {j, job[j].track}
      <4>1. CASE \E s \in Source : Capture(j, s)
        BY <4>1 DEF Capture, MayStart, TracksTypeOK, JobState
      <4>2. CASE Granted(j) \/ Refused(j)
        BY <4>2 DEF Granted, Refused, TracksTypeOK, JobState
      <4> QED BY <1>2, <4>1, <4>2
    <3> QED BY <2>3, <3>1 DEF MuteInv, OwnTrack, KeptJob
  <2> QED BY <1>1, <2>1, <2>2, <2>3, <2>4, MuteFrame
<1>3. ASSUME NEW j \in Job, ProcessingFails(j) \/ AdoptRefused(j) PROVE MuteInv'
  BY <1>1, <1>3, MuteGiveUp DEF ProcessingFails, AdoptRefused, Withdraw, peerVars
<1>4. ASSUME NEW j \in Job, Publish(j) PROVE MuteInv'
  <2>1. job[j].source \in Source
    BY <1>1 DEF Fields
  <2> QED BY <1>4, <2>1, MuteReplace DEF Publish
<1>5. ASSUME NEW j \in Job, NEW s \in Source, RemoveTrack(j, s) PROVE MuteInv'
  BY <1>5, MuteReplace DEF RemoveTrack, MayStart
<1>6. ASSUME NEW j \in Job, DenoiserFallback(j) PROVE MuteInv'
  <2>1. "microphone" \in Source
    BY DEF TrackAssumption
  <2> QED BY <1>6, <2>1, MuteReplace DEF DenoiserFallback, MayStart
<1>7. ASSUME NEW j \in Job, Adopt(j) PROVE MuteInv'
  BY <1>7, MuteAdopt
<1>8. ASSUME NEW j \in Job, NEW sent \in BOOLEAN, Announced(j, sent) PROVE MuteInv'
  BY <1>8, MuteAnnounced
<1>9. ASSUME NEW p \in Peer, Settle(p) PROVE MuteInv'
  <2>1. \A k \in Job : KeptJob(k)
    BY <1>1, <1>9 DEF Settle, KeptJob, TracksTypeOK, JobState
  <2>2. OwnTrack'
    BY <2>1 DEF MuteInv, OwnTrack, KeptJob
  <2> QED BY <1>1, <1>9, <2>1, <2>2, MuteFrame DEF Settle
<1>10. ASSUME NEW p \in Peer, Reject(p) PROVE MuteInv'
  <2> DEFINE j == Head(replacements[p]).job
  <2>1. CASE job[j].phase = "publishing" /\ GiveUp(j)
    <3>1. replacements[p] \in Seq(Replacement) /\ replacements[p] # <<>>
      BY <1>1, <1>10 DEF Reject, TracksTypeOK
    <3>2. Head(replacements[p]) \in Replacement
      BY <3>1, HeadTailProperties
    <3>3. j \in Job
      BY <3>2 DEF Replacement
    <3> QED BY <1>1, <1>10, <2>1, <3>3, MuteGiveUp DEF Reject
  <2>2. CASE UNCHANGED <<job, live, pendingMicrophones, enabled>>
    <3>1. OwnTrack' /\ \A k \in Job : KeptJob(k)
      BY <2>2 DEF MuteInv, OwnTrack, KeptJob
    <3> QED BY <1>1, <1>10, <2>2, <3>1, MuteFrame DEF Reject, engineVars
  <2> QED BY <1>10, <2>1, <2>2 DEF Reject
<1>11. CASE (\E p \in Peer : AddPeer(p) \/ RemovePeer(p)) \/ UNCHANGED tracksVars
  <2>1. /\ job' = job /\ UNCHANGED <<engineVars, enabled>> /\ (peers' \subseteq peers \/ ~disposed)
    BY <1>11 DEF AddPeer, RemovePeer, tracksVars, peerVars
  <2>2. OwnTrack' /\ \A k \in Job : KeptJob(k)
    BY <2>1 DEF MuteInv, OwnTrack, KeptJob
  <2> QED BY <1>1, <2>1, <2>2, MuteFrame
<1>12. ASSUME NEW on \in BOOLEAN, SetMicrophoneEnabled(on) PROVE MuteInv'
  <2>1. /\ UNCHANGED <<disposed, localTracks, pendingMicrophones, overwritten, peers, job>> /\ microphoneEnabled' = on
        /\ enabled' = IF on THEN enabled \cup (Gates \ {Nothing}) ELSE enabled \ (Gates \ {Nothing})
    BY <1>12 DEF SetMicrophoneEnabled, peerVars, Gates
  <2>2. PendingMicrophones' /\ OwnTrack' /\ Empty'
    BY <2>1 DEF MuteInv, PendingMicrophones, OwnTrack, Empty
  <2>3. Gating'
    BY <2>1 DEF MuteInv, Gating, Gates
  <2>4. Silenced'
    BY <1>1, <2>1 DEF Silenced, Gates, TracksTypeOK
  <2> QED BY <2>2, <2>3, <2>4 DEF MuteInv
<1>13. CASE Dispose
  <2>1. /\ ~disposed /\ disposed' /\ pendingMicrophones' = {} /\ localTracks' = NoTracks
        /\ peers' = {} /\ UNCHANGED <<microphoneEnabled, job, enabled>>
    BY <1>13 DEF Dispose
  <2>2. Gates' = {Nothing}
    BY <2>1 DEF Gates, NoTracks, TrackAssumption
  <2> QED BY <1>1, <2>1, <2>2 DEF MuteInv, PendingMicrophones, OwnTrack, Gating, Silenced, Empty, TracksTypeOK
<1> QED BY <1>2, <1>3, <1>4, <1>5, <1>6, <1>7, <1>8, <1>9, <1>10, <1>11, <1>12, <1>13 DEF TracksNext

-----------------------------------------------------------------------------
(* What the engine keeps of its tracks, senders and jobs stays in its      *)
(* types (captureUserMedia, replaceLocalTrack), overlapping replacements   *)
(* included.                                                               *)
THEOREM TracksTypeCorrect ==
  ASSUME TrackAssumption PROVE TracksSpec => []TracksTypeOK
<1>1. TracksInit => TracksTypeOK
  BY TracksInvInit DEF TracksInv
<1>2. TracksTypeOK /\ [TracksNext]_tracksVars => TracksTypeOK'
  BY TracksTypeStep
<1> QED BY <1>1, <1>2, PTL DEF TracksSpec

(* The inductive invariant holds throughout.                               *)
LEMMA TracksInvHolds ==
  ASSUME TrackAssumption, ~Overlap PROVE TracksSpec => []TracksInv
<1>1. TracksInit => TracksInv
  BY TracksInvInit
<1>2. TracksInv /\ [TracksNext]_tracksVars => TracksInv'
  BY TracksInvStep
<1> QED BY <1>1, <1>2, PTL DEF TracksSpec

(* No device runs for a track the engine no longer answers for             *)
(* (captureUserMedia, replaceLocalTrack, dispose).                         *)
THEOREM DevicesAreReleased ==
  ASSUME TrackAssumption, ~Overlap PROVE TracksSpec => []CapturesAreReleased
<1>1. TracksInv => CapturesAreReleased
  BY DEF TracksInv
<1> QED BY <1>1, TracksInvHolds, PTL

(* A muted call sends no open microphone, whichever of its tracks a        *)
(* replacement has reached (setMicrophoneEnabled), except for a track that *)
(* one replacement overwrote while it was to replace another: the callers  *)
(* may overlap here, and then no mute reaches that track any more.         *)
THEOREM MutedCallIsSilent ==
  ASSUME TrackAssumption PROVE TracksSpec => []MutedIsSilent
<1>1. TracksInit => MuteInv
  BY DEF TracksInit, MuteInv, PendingMicrophones, OwnTrack, Gating, Silenced, Empty, Gates, NoTracks, TrackAssumption
<1>2. TracksTypeOK /\ MuteInv /\ [TracksNext]_tracksVars => MuteInv'
  BY MuteInvStep
<1>3. MuteInv => MutedIsSilent
  <2> SUFFICES ASSUME MuteInv, microphoneEnabled = FALSE,
                      \A j \in Job : job[j].phase # "announcing",
                      NEW p \in peers, sender[p]["microphone"] \in enabled \ overwritten
               PROVE  FALSE
    BY DEF MutedIsSilent
  <2>1. ~disposed
    BY DEF MuteInv, Empty
  <2> QED BY <2>1 DEF MuteInv, Gating, Silenced
<1> QED BY <1>1, <1>2, <1>3, TracksTypeCorrect, PTL DEF TracksSpec

-----------------------------------------------------------------------------
(* What an operations chain may hold: negotiate's offer, and one step of   *)
(* the inbound signal that is being handled, in either order.              *)
Chain(p) ==
  IF making[p] = "creating"
  THEN IF handling[p] = NoDescription THEN operations[p] = <<"offer">>
       ELSE \E h \in {"apply", "answer"} : operations[p] \in {<<"offer", h>>, <<h, "offer">>}
  ELSE IF handling[p] = NoDescription THEN operations[p] = <<>>
       ELSE \E h \in {"apply", "answer"} : operations[p] = <<h>>

(* The inbound step o is on the chain, before or after negotiate's offer.  *)
Queued(p, o) == operations[p] \in {<<o>>, <<"offer", o>>, <<o, "offer">>}

(* The descriptions in hand are those the signaling state calls for, and   *)
(* an answer is only made to an offer.                                     *)
Exchange(p) ==
  /\ pending[p] # NoDescription <=> signaling[p] = "have-local-offer"
  /\ asked[p] # NoDescription <=> signaling[p] = "have-remote-offer"
  /\ Queued(p, "answer") => handling[p].type = "offer"

(* There is a local description when negotiate sends it: only the polite   *)
(* side gives its own offer up to the other's, and it never negotiates     *)
(* before a session.                                                       *)
Described(p) ==
  /\ making[p] = "limiting" => pending[p] # NoDescription \/ session[p] # NoDescription
  /\ p = Polite /\ making[p] # "idle" => session[p] # NoDescription
  /\ p = Impolite /\ operations[p] = <<"offer", "apply">> => handling[p].type = "answer"
  /\ p = Impolite /\ making[p] = "limiting" /\ session[p] = NoDescription /\ Queued(p, "apply")
       => handling[p].type = "answer"

(* What holds of one participant.                                          *)
Settled(p) == Chain(p) /\ Exchange(p) /\ Described(p)

(* The inductive invariant.                                                *)
NegotiationInv == Types /\ \A p \in Participant : Settled(p)

-----------------------------------------------------------------------------
(* Chains of one and two operations, and what Head, Tail and Append make   *)
(* of them.                                                                *)
LEMMA LastOfTwo == \A a, b \in Operation : Tail(<<a, b>>) = <<b>>
<1> TAKE a, b \in Operation
<1> DEFINE rest == Tail(<<a, b>>)
<1>1. <<a, b>> \in Seq(Operation) /\ <<a, b>> # <<>> /\ Len(<<a, b>>) = 2
  OBVIOUS
<1>2. rest \in Seq(Operation) /\ Len(rest) = 1 /\ rest[1] = <<a, b>>[2]
  BY <1>1, HeadTailProperties
<1>3. <<b>> \in Seq(Operation) /\ Len(<<b>>) = 1 /\ <<b>>[1] = b
  OBVIOUS
<1> HIDE DEF rest
<1>4. \A i \in 1 .. Len(rest) : rest[i] = <<b>>[i]
  BY <1>2, <1>3
<1>5. rest = <<b>>
  BY <1>2, <1>3, <1>4, SeqEqual
<1> QED BY <1>5 DEF rest

LEMMA OneOperation ==
  \A a \in Operation :
    /\ <<a>> # <<>> /\ Len(<<a>>) = 1 /\ Head(<<a>>) = a /\ Tail(<<a>>) = <<>>
    /\ Append(<<>>, a) = <<a>> /\ <<a>> \in Seq(Operation)
OBVIOUS

LEMMA AppendedToOne == ASSUME NEW S, NEW a \in S, NEW b \in S PROVE Append(<<a>>, b) = <<a, b>>
<1> DEFINE more == Append(<<a>>, b)
           both == <<a, b>>
<1>1. <<a>> \in Seq(S) /\ Len(<<a>>) = 1 /\ <<a>>[1] = a
  OBVIOUS
<1>2. more \in Seq(S) /\ Len(more) = 2 /\ more[1] = a /\ more[2] = b
  BY <1>1, AppendProperties
<1>3. both \in Seq(S) /\ Len(both) = 2 /\ both[1] = a /\ both[2] = b
  OBVIOUS
<1> HIDE DEF more, both
<1>4. \A i \in 1 .. Len(more) : more[i] = both[i]
  BY <1>2, <1>3
<1>5. more = both
  BY <1>2, <1>3, <1>4, SeqEqual
<1> QED BY <1>5 DEF more, both

LEMMA TwoOperations ==
  \A a, b \in Operation :
    /\ <<a, b>> # <<>> /\ Len(<<a, b>>) = 2 /\ Head(<<a, b>>) = a
    /\ Append(<<a>>, b) = <<a, b>> /\ <<a, b>> \in Seq(Operation)
<1> TAKE a, b \in Operation
<1>1. <<a, b>> # <<>> /\ Len(<<a, b>>) = 2 /\ Head(<<a, b>>) = a
  OBVIOUS
<1>2. <<a>> \in Seq(Operation) /\ <<a, b>> \in Seq(Operation)
  OBVIOUS
<1>3. Append(<<a>>, b) = <<a, b>>
  BY AppendedToOne
<1> QED BY <1>1, <1>2, <1>3

LEMMA DistinctChains ==
  /\ \A a, b \in Operation : <<a>> = <<b>> => a = b
  /\ \A a, b, c \in Operation : <<a>> # <<b, c>>
  /\ \A a, b, c, d \in Operation : <<a, b>> = <<c, d>> => a = c /\ b = d
  /\ \A a, b \in Operation : <<>> # <<a>> /\ <<>> # <<a, b>>
<1>1. \A a, b \in Operation : <<a>> = <<b>> => a = b
  OBVIOUS
<1>2. \A a, b, c \in Operation : <<a>> # <<b, c>>
  OBVIOUS
<1>3. \A a, b, c, d \in Operation : <<a, b>> = <<c, d>> => a = c /\ b = d
  OBVIOUS
<1>4. \A a, b \in Operation : <<>> # <<a>> /\ <<>> # <<a, b>>
  OBVIOUS
<1> QED BY <1>1, <1>2, <1>3, <1>4

(* What is sent, or lost in part, leaves signals in the channel.           *)
LEMMA SendTypes ==
  ASSUME NegotiationAssumption, channel \in [Participant -> Seq(PeerSignal)], sendLosses \in 0 .. MaxSendLosses,
         NEW p \in Participant, NEW several \in Seq(PeerSignal), SendInOrder(p, several)
  PROVE  channel' \in [Participant -> Seq(PeerSignal)] /\ sendLosses' \in 0 .. MaxSendLosses
<1>1. OtherSide(p) \in Participant
  BY DEF OtherSide, Participant
<1>2. channel[OtherSide(p)] \in Seq(PeerSignal)
  BY <1>1
<1>3. CASE channel' = [channel EXCEPT ![OtherSide(p)] = @ \o several] /\ UNCHANGED sendLosses
  <2>1. channel[OtherSide(p)] \o several \in Seq(PeerSignal)
    BY <1>2, ConcatProperties
  <2> QED BY <1>3, <2>1
<1>4. ASSUME sendLosses < MaxSendLosses, sendLosses' = sendLosses + 1, NEW sent \in 0 .. Len(several) - 1,
             channel' = [channel EXCEPT ![OtherSide(p)] = @ \o SubSeq(several, 1, sent)]
      PROVE  channel' \in [Participant -> Seq(PeerSignal)] /\ sendLosses' \in 0 .. MaxSendLosses
  <2>0. sent \in Nat /\ sent < Len(several) /\ Len(several) \in Nat
    BY LenProperties
  <2>1. SubSeq(several, 1, sent) \in Seq(PeerSignal)
    BY <2>0, SubSeqProperties
  <2>2. channel[OtherSide(p)] \o SubSeq(several, 1, sent) \in Seq(PeerSignal)
    BY <1>2, <2>1, ConcatProperties
  <2>3. sendLosses' \in 0 .. MaxSendLosses
    BY <1>4 DEF NegotiationAssumption
  <2> QED BY <1>4, <2>2, <2>3
<1> QED BY <1>3, <1>4 DEF SendInOrder

(* Each type of signal is its own kind of record.                          *)
LEMMA SignalTypes ==
  /\ \A p \in Participant : Types => TrackMetadata(p) \in PeerSignal
  /\ \A d \in PeerSignal :
       /\ d.type = "offer" => d \in Offer
       /\ d.type = "answer" => d \in Answer
       /\ d.type = "track-metadata" => d \in Metadata
       /\ d.type \in {"offer", "answer", "track-metadata"}
  /\ \A d \in Offer \cup Answer : d \in PeerSignal /\ d.type # "track-metadata"
BY DEF Types, TrackMetadata, PeerSignal, Offer, Answer, Metadata

(* A step that leaves what Settled says of a participant.                  *)
SameParticipant(q) ==
  /\ pending'[q] = pending[q] /\ asked'[q] = asked[q] /\ signaling'[q] = signaling[q]
  /\ session'[q] = session[q] /\ operations'[q] = operations[q]
  /\ making'[q] = making[q] /\ handling'[q] = handling[q]

LEMMA SameStep == \A q \in Participant : Settled(q) /\ SameParticipant(q) => Settled(q)'
BY DEF Settled, SameParticipant, Chain, Exchange, Described, Queued

(* pc.localDescription is an offer or an answer once there is one.         *)
LEMMA DescriptionTypes ==
  ASSUME Types, NEW p \in Participant, pending[p] # NoDescription \/ session[p] # NoDescription
  PROVE  LocalDescription(p) \in Offer \cup Answer
<1>1. CASE pending[p] # NoDescription
  BY <1>1 DEF Types, LocalDescription
<1>2. CASE pending[p] = NoDescription
  <2>1. session[p][1] \in Offer /\ session[p][2] \in Answer
    BY <1>2 DEF Types
  <2> QED BY <1>2, <2>1 DEF LocalDescription
<1> QED BY <1>1, <1>2

(* setLocalDescription without an argument makes an offer, or the answer   *)
(* that the pending remote offer asks for; afterwards there is a local     *)
(* description.                                                            *)
LEMMA MakeOfferTypes ==
  ASSUME NegotiationAssumption, Types, NEW p \in Participant, Exchange(p), NEW fits \in BOOLEAN,
         MakeOffer(p, fits)
  PROVE  /\ agreed' \in [Participant -> Revision]
         /\ signaling' \in [Participant -> {"stable", "have-local-offer", "have-remote-offer"}]
         /\ pending' \in [Participant -> Offer \cup {NoDescription}]
         /\ asked' \in [Participant -> Offer \cup {NoDescription}]
         /\ session' \in [Participant -> (Offer \X Answer) \cup {NoDescription}]
         /\ raised' \in [Participant -> BOOLEAN]
         /\ pending'[p] # NoDescription <=> signaling'[p] = "have-local-offer"
         /\ asked'[p] # NoDescription <=> signaling'[p] = "have-remote-offer"
         /\ session[p] # NoDescription => session'[p] # NoDescription
         /\ pending'[p] # NoDescription \/ session'[p] # NoDescription
<1> DEFINE offer == [type |-> "offer", from |-> p, covers |-> revision[p]]
           answer == [type |-> "answer", from |-> p, to |-> asked[p],
                      covers |-> IF fits THEN revision[p] ELSE agreed[p]]
<1>1. CASE signaling[p] = "have-remote-offer"
  <2>1. asked[p] \in Offer
    BY <1>1 DEF Types, Exchange
  <2>2. answer \in Answer /\ answer.covers \in Revision
    BY <2>1 DEF Types, Answer
  <2>3. <<asked[p], answer>> \in Offer \X Answer /\ <<asked[p], answer>> # NoDescription
    BY <2>1, <2>2 DEF NegotiationAssumption
  <2>4. /\ signaling' = [signaling EXCEPT ![p] = "stable"]
        /\ session' = [session EXCEPT ![p] = <<asked[p], answer>>]
        /\ agreed' = [agreed EXCEPT ![p] = answer.covers]
        /\ asked' = [asked EXCEPT ![p] = NoDescription]
        /\ raised' = [raised EXCEPT ![p] = FALSE]
        /\ pending' = pending
    BY <1>1 DEF MakeOffer
  <2> HIDE DEF answer
  <2>5. pending[p] = NoDescription
    BY <1>1 DEF Exchange
  <2> QED BY <2>2, <2>3, <2>4, <2>5 DEF Types
<1>2. CASE signaling[p] # "have-remote-offer"
  <2>1. offer \in Offer /\ offer # NoDescription
    BY DEF Types, Offer, NegotiationAssumption, PeerSignal
  <2>2. /\ signaling' = [signaling EXCEPT ![p] = "have-local-offer"]
        /\ pending' = [pending EXCEPT ![p] = offer]
        /\ UNCHANGED <<session, agreed, asked, raised>>
    BY <1>2 DEF MakeOffer
  <2> HIDE DEF offer
  <2>3. asked[p] = NoDescription
    BY <1>2 DEF Exchange
  <2> QED BY <2>1, <2>2, <2>3 DEF Types
<1> QED BY <1>1, <1>2

(* The chains that are possible.                                           *)
OneOf(chain) ==
  \E h \in {"apply", "answer"} :
    chain \in {<<>>, <<"offer">>, <<h>>, <<"offer", h>>, <<h, "offer">>}

(* None of them is longer than two.                                        *)
LEMMA ChainLengths ==
  ASSUME NEW chain, OneOf(chain) PROVE chain \in Seq(Operation) /\ Len(chain) <= 2
<1>1. {"offer", "apply", "answer"} \subseteq Operation
  BY DEF Operation
<1>2. <<>> \in Seq(Operation) /\ Len(<<>>) = 0
  OBVIOUS
<1>3. PICK h \in {"apply", "answer"} :
        \/ chain = <<>> \/ chain = <<"offer">> \/ chain = <<h>>
        \/ chain = <<"offer", h>> \/ chain = <<h, "offer">>
  BY DEF OneOf
<1>4. h \in Operation /\ "offer" \in Operation
  BY <1>1
<1>5. CASE chain = <<>>
  BY <1>2, <1>5
<1>6. ASSUME NEW a \in Operation, chain = <<a>>
      PROVE  chain \in Seq(Operation) /\ Len(chain) <= 2
  <2>1. <<a>> \in Seq(Operation) /\ Len(<<a>>) = 1
    BY OneOperation
  <2> QED BY <1>6, <2>1
<1>7. ASSUME NEW a \in Operation, NEW b \in Operation, chain = <<a, b>>
      PROVE  chain \in Seq(Operation) /\ Len(chain) <= 2
  <2>1. <<a, b>> \in Seq(Operation) /\ Len(<<a, b>>) = 2
    BY TwoOperations
  <2> QED BY <1>7, <2>1
<1> QED BY <1>3, <1>4, <1>5, <1>6, <1>7

(* negotiate() puts its offer behind whatever is there.                    *)
LEMMA NegotiateStep ==
  ASSUME NegotiationInv, NEW p \in Participant, Negotiate(p),
         pending'[p] = pending[p], asked'[p] = asked[p], signaling'[p] = signaling[p],
         session'[p] = session[p], handling'[p] = handling[p]
  PROVE  /\ Settled(p)' /\ making' \in [Participant -> {"idle", "creating", "limiting"}]
         /\ \A q \in Participant \ {p} : making'[q] = making[q] /\ operations'[q] = operations[q]
         /\ operations' \in [Participant -> Seq(Operation)]
<1> USE DEF NegotiationInv
<1>0. Settled(p) /\ Chain(p) /\ Exchange(p) /\ Described(p)
  BY DEF Settled
<1>1. CASE UNCHANGED <<making, operations>>
  BY <1>0, <1>1 DEF Types, Settled, Chain, Exchange, Described, Queued
<1>2. CASE /\ MayNegotiate(p)
           /\ making' = [making EXCEPT ![p] = "creating"]
           /\ operations' = [operations EXCEPT ![p] = Append(@, "offer")]
  <2>1. making[p] = "idle" /\ signaling[p] = "stable" /\ (p = Polite => session[p] # NoDescription)
    BY <1>0, <1>2 DEF MayNegotiate, HasRemoteDescription, Exchange
  <2>2. making'[p] = "creating" /\ operations'[p] = Append(operations[p], "offer")
    BY <1>2 DEF Types
  <2>3. {"offer", "apply", "answer"} \subseteq Operation
    BY DEF Operation
  <2>4. ASSUME handling[p] = NoDescription PROVE Settled(p)'
    <3>1. operations[p] = <<>>
      BY <1>0, <2>1, <2>4 DEF Chain
    <3>2. operations'[p] = <<"offer">>
      BY <2>2, <2>3, <3>1, OneOperation
    <3>3. Chain(p)'
      BY <2>2, <2>4, <3>2 DEF Chain
    <3>4. ~Queued(p, "answer")' /\ operations'[p] # <<"offer", "apply">>
      BY <2>3, <3>2, DistinctChains DEF Queued
    <3>5. Exchange(p)'
      BY <1>0, <3>4 DEF Exchange
    <3>6. Described(p)'
      BY <2>1, <2>2, <3>4 DEF Described
    <3> QED BY <3>3, <3>5, <3>6 DEF Settled
  <2>5. ASSUME handling[p] # NoDescription, NEW h \in {"apply", "answer"}, operations[p] = <<h>> PROVE Settled(p)'
    <3>1. operations'[p] = <<h, "offer">>
      BY <2>2, <2>3, <2>5, TwoOperations
    <3>2. Chain(p)'
      BY <2>2, <2>5, <3>1 DEF Chain
    <3>3. operations'[p] # <<"offer", "apply">> /\ (Queued(p, "answer")' => h = "answer")
      BY <2>3, <3>1, DistinctChains DEF Queued
    <3>4. h = "answer" => Queued(p, "answer")
      BY <2>5 DEF Queued
    <3> QED BY <1>0, <2>1, <2>2, <3>2, <3>3, <3>4 DEF Settled, Exchange, Described
  <2>6. Settled(p)'
    BY <1>0, <2>1, <2>4, <2>5 DEF Chain
  <2>7. operations' \in [Participant -> Seq(Operation)]
    BY <1>2, <2>3, AppendProperties DEF Types
  <2> QED BY <1>2, <2>6, <2>7 DEF Types
<1> QED BY <1>1, <1>2 DEF Negotiate

(* A step of one participant is done with what holds of it and the types.  *)
LEMMA ParticipantStep ==
  ASSUME NegotiationInv, NEW p \in Participant, Settled(p)', Types',
         \A q \in Participant \ {p} : SameParticipant(q)
  PROVE  NegotiationInv'
BY SameStep DEF NegotiationInv

(* The invariant gives the types and the bound on the chain.               *)
LEMMA InvTypes == NegotiationInv => NegotiationTypeOK
<1> SUFFICES ASSUME NegotiationInv, NEW p \in Participant PROVE Len(operations[p]) <= 2
  BY DEF NegotiationInv, NegotiationTypeOK
<1>1. OneOf(operations[p])
  BY DEF NegotiationInv, Settled, Chain, OneOf
<1> QED BY <1>1, ChainLengths

(* It holds when the peers are made.                                       *)
LEMMA NegotiationInvInit == NegotiationAssumption /\ NegotiationInit => NegotiationInv
<1> SUFFICES ASSUME NegotiationAssumption, NegotiationInit PROVE NegotiationInv
  OBVIOUS
<1> USE DEF NegotiationInit
<1>1. Types
  <2>1. 0 \in Revision /\ 1 \in Revision /\ 0 \in 0 .. MaxSendLosses
    BY DEF NegotiationAssumption, Revision
  <2>2. operations \in [Participant -> Seq(Operation)] /\ channel \in [Participant -> Seq(PeerSignal)]
    BY EmptySeq
  <2>3. {raised, settling, watching, greeted} \subseteq [Participant -> BOOLEAN]
    OBVIOUS
  <2> QED BY <2>1, <2>2, <2>3 DEF Types
<1>2. ASSUME NEW p \in Participant PROVE Settled(p)
  <2>1. ~Queued(p, "answer") /\ ~Queued(p, "apply") /\ operations[p] # <<"offer", "apply">>
    BY DistinctChains DEF Queued, Operation
  <2> QED BY <2>1 DEF Settled, Chain, Exchange, Described
<1> QED BY <1>1, <1>2 DEF NegotiationInv

(* A step that changes nothing but channels and bookkeeping.               *)
LEMMA QuietStep ==
  ASSUME NegotiationInv, Types', UNCHANGED <<pending, asked, signaling, session, operations, making, handling>>
  PROVE  NegotiationInv'
<1>1. \A q \in Participant : SameParticipant(q)
  BY DEF SameParticipant
<1> QED BY <1>1, SameStep DEF NegotiationInv

(* The browser raises negotiationneeded.                                   *)
LEMMA NeededStep ==
  ASSUME NegotiationInv, NEW p \in Participant, NegotiationNeeded(p) PROVE NegotiationInv'
<1> USE DEF NegotiationInv
<1>1. /\ Negotiate(p) /\ raised' = [raised EXCEPT ![p] = TRUE]
      /\ UNCHANGED <<revision, agreed, signaling, pending, asked, session, handling, settling,
                     watching, greeted, named, channel, sendLosses>>
  BY DEF NegotiationNeeded
<1>2. /\ Settled(p)' /\ making' \in [Participant -> {"idle", "creating", "limiting"}]
      /\ \A q \in Participant \ {p} : making'[q] = making[q] /\ operations'[q] = operations[q]
      /\ operations' \in [Participant -> Seq(Operation)]
  BY <1>1, NegotiateStep
<1>3. Types'
  <2>1. {raised', settling', watching', greeted'} \subseteq [Participant -> BOOLEAN]
    BY <1>1 DEF Types
  <2> QED BY <1>1, <1>2, <2>1 DEF Types
<1>4. \A q \in Participant \ {p} : SameParticipant(q)
  BY <1>1, <1>2 DEF SameParticipant
<1> QED BY <1>2, <1>3, <1>4, ParticipantStep

(* addPeer's microtask makes the first offer.                              *)
LEMMA GreetStep ==
  ASSUME NegotiationInv, NEW p \in Participant, Greet(p) PROVE NegotiationInv'
<1> USE DEF NegotiationInv
<1>1. /\ greeted' = [greeted EXCEPT ![p] = TRUE]
      /\ UNCHANGED <<revision, agreed, signaling, pending, asked, session, raised, handling, settling,
                     watching, named, channel, sendLosses>>
      /\ Negotiate(p) \/ UNCHANGED <<making, operations>>
  BY DEF Greet, pcVars
<1>2. CASE Negotiate(p)
  <2>1. /\ Settled(p)' /\ making' \in [Participant -> {"idle", "creating", "limiting"}]
        /\ \A q \in Participant \ {p} : making'[q] = making[q] /\ operations'[q] = operations[q]
        /\ operations' \in [Participant -> Seq(Operation)]
    BY <1>1, <1>2, NegotiateStep
  <2>2. Types'
    BY <1>1, <2>1 DEF Types
  <2>3. \A q \in Participant \ {p} : SameParticipant(q)
    BY <1>1, <2>1 DEF SameParticipant
  <2> QED BY <2>1, <2>2, <2>3, ParticipantStep
<1>3. CASE UNCHANGED <<making, operations>>
  <2>1. Types'
    BY <1>1, <1>3 DEF Types
  <2> QED BY <1>1, <1>3, <2>1, QuietStep
<1> QED BY <1>1, <1>2, <1>3

(* Tracks change and the metadata goes out.                                *)
LEMMA ChangeStep ==
  ASSUME NegotiationAssumption, NegotiationInv, NEW p \in Participant, NEW fallback \in BOOLEAN,
         ChangeTracks(p, fallback)
  PROVE NegotiationInv'
<1> USE DEF NegotiationInv
<1> DEFINE news == [type |-> "track-metadata", covers |-> revision[p] + 1]
<1>1. /\ revision[p] < MaxRevision /\ revision' = [revision EXCEPT ![p] = @ + 1]
      /\ SendInOrder(p, <<news>>)
      /\ UNCHANGED <<agreed, signaling, pending, asked, session, raised, handling, settling,
                     watching, greeted, named>>
      /\ Negotiate(p) \/ UNCHANGED <<making, operations>>
  BY DEF ChangeTracks, pcVars
<1>2. revision[p] + 1 \in Revision
  BY <1>1 DEF Types, Revision, NegotiationAssumption
<1>3. news \in PeerSignal
  BY <1>2 DEF PeerSignal, Metadata
<1>4. channel' \in [Participant -> Seq(PeerSignal)] /\ sendLosses' \in 0 .. MaxSendLosses
  <2>1. <<news>> \in Seq(PeerSignal)
    BY <1>3
  <2> QED BY <1>1, <2>1, SendTypes DEF Types
<1>5. CASE Negotiate(p)
  <2>1. /\ Settled(p)' /\ making' \in [Participant -> {"idle", "creating", "limiting"}]
        /\ \A q \in Participant \ {p} : making'[q] = making[q] /\ operations'[q] = operations[q]
        /\ operations' \in [Participant -> Seq(Operation)]
    BY <1>1, <1>5, NegotiateStep
  <2>2. Types'
    BY <1>1, <1>2, <1>4, <2>1 DEF Types
  <2>3. \A q \in Participant \ {p} : SameParticipant(q)
    BY <1>1, <2>1 DEF SameParticipant
  <2> QED BY <2>1, <2>2, <2>3, ParticipantStep
<1>6. CASE UNCHANGED <<making, operations>>
  <2>1. Types'
    BY <1>1, <1>2, <1>4, <1>6 DEF Types
  <2> QED BY <1>1, <1>6, <2>1, QuietStep
<1> QED BY <1>1, <1>5, <1>6

(* What the head of a chain tells of the rest.                             *)
LEMMA NextOperation ==
  ASSUME NEW p \in Participant, Chain(p), operations[p] # <<>>
  PROVE  /\ Head(operations[p]) = "offer" =>
              /\ making[p] = "creating"
              /\ \/ handling[p] = NoDescription /\ operations[p] = <<"offer">> /\ Tail(operations[p]) = <<>>
                 \/ handling[p] # NoDescription /\ \E h \in {"apply", "answer"} :
                      operations[p] = <<"offer", h>> /\ Tail(operations[p]) = <<h>>
         /\ \A h \in {"apply", "answer"} : Head(operations[p]) = h =>
              /\ handling[p] # NoDescription
              /\ \/ making[p] # "creating" /\ operations[p] = <<h>> /\ Tail(operations[p]) = <<>>
                 \/ making[p] = "creating" /\ operations[p] = <<h, "offer">>
                    /\ Tail(operations[p]) = <<"offer">>
<1>1. "offer" \in Operation /\ "apply" \in Operation /\ "answer" \in Operation
  BY DEF Operation
<1>2. \A a \in Operation : Head(<<a>>) = a /\ Tail(<<a>>) = <<>>
  BY OneOperation
<1>3. \A a, b \in Operation : Head(<<a, b>>) = a /\ Tail(<<a, b>>) = <<b>>
  BY TwoOperations, LastOfTwo
<1>4. CASE making[p] = "creating" /\ handling[p] = NoDescription
  BY <1>1, <1>2, <1>4 DEF Chain
<1>5. ASSUME making[p] = "creating", handling[p] # NoDescription, NEW g \in {"apply", "answer"},
             operations[p] = <<"offer", g>>
      PROVE  Head(operations[p]) = "offer" /\ Tail(operations[p]) = <<g>>
  BY <1>1, <1>3, <1>5
<1>6. ASSUME making[p] = "creating", handling[p] # NoDescription, NEW g \in {"apply", "answer"},
             operations[p] = <<g, "offer">>
      PROVE  Head(operations[p]) = g /\ Tail(operations[p]) = <<"offer">>
  BY <1>1, <1>3, <1>6
<1>7. ASSUME making[p] # "creating", NEW g \in {"apply", "answer"}, operations[p] = <<g>>
      PROVE  Head(operations[p]) = g /\ Tail(operations[p]) = <<>>
  BY <1>1, <1>2, <1>7
<1>8. CASE making[p] = "creating" /\ handling[p] # NoDescription
  BY <1>5, <1>6, <1>8 DEF Chain
<1>9. CASE making[p] # "creating"
  BY <1>7, <1>9 DEF Chain
<1> QED BY <1>4, <1>8, <1>9

(* negotiate sends the offer once its limits are set.                      *)
LEMMA SendOfferStep ==
  ASSUME NegotiationAssumption, NegotiationInv, NEW p \in Participant, SendOffer(p)
  PROVE  NegotiationInv'
<1> USE DEF NegotiationInv
<1>0. Chain(p) /\ Exchange(p) /\ Described(p)
  BY DEF Settled
<1>1. /\ making[p] = "limiting" /\ making' = [making EXCEPT ![p] = "idle"]
      /\ SendInOrder(p, <<LocalDescription(p), TrackMetadata(p)>>)
      /\ UNCHANGED <<revision, operations, agreed, signaling, pending, asked, session, raised,
                     handling, settling, watching, greeted, named>>
  BY DEF SendOffer, pcVars
<1>2. LocalDescription(p) \in PeerSignal
  BY <1>0, <1>1, DescriptionTypes, SignalTypes DEF Described
<1>3. <<LocalDescription(p), TrackMetadata(p)>> \in Seq(PeerSignal)
  <2>1. TrackMetadata(p) \in PeerSignal
    BY SignalTypes
  <2> QED BY <1>2, <2>1
<1>4. channel' \in [Participant -> Seq(PeerSignal)] /\ sendLosses' \in 0 .. MaxSendLosses
  BY <1>1, <1>3, SendTypes DEF Types
<1>5. Types'
  BY <1>1, <1>4 DEF Types
<1>6. \A q \in Participant \ {p} : SameParticipant(q)
  BY <1>1 DEF SameParticipant, Types
<1>7. making'[p] = "idle"
  BY <1>1 DEF Types
<1>8. Settled(p)'
  BY <1>0, <1>1, <1>7 DEF Settled, Chain, Exchange, Described, Queued
<1> QED BY <1>5, <1>6, <1>8, ParticipantStep

(* The offer timer repeats the offer.                                      *)
LEMMA OfferTimerStep ==
  ASSUME NegotiationAssumption, NegotiationInv, NEW p \in Participant, OfferTimer(p)
  PROVE  NegotiationInv'
<1> USE DEF NegotiationInv
<1>1. UNCHANGED <<revision, operations, agreed, signaling, pending, asked, session, raised, making,
                  handling, settling, greeted, named>>
  BY DEF OfferTimer, pcVars
<1>2. channel' \in [Participant -> Seq(PeerSignal)] /\ sendLosses' \in 0 .. MaxSendLosses
  <2>1. CASE pending[p] # NoDescription /\ SendInOrder(p, <<pending[p]>>)
    <3>1. pending[p] \in PeerSignal
      BY <2>1 DEF Types, PeerSignal
    <3>2. <<pending[p]>> \in Seq(PeerSignal)
      BY <3>1
    <3> QED BY <2>1, <3>2, SendTypes DEF Types
  <2>2. CASE UNCHANGED <<channel, sendLosses>>
    BY <2>2 DEF Types
  <2> QED BY <2>1, <2>2 DEF OfferTimer
<1>3. watching' \in [Participant -> BOOLEAN]
  BY DEF OfferTimer, Types
<1>4. Types'
  BY <1>1, <1>2, <1>3 DEF Types
<1> QED BY <1>1, <1>4, QuietStep

(* Metadata arrives.                                                       *)
LEMMA MetadataStep ==
  ASSUME NegotiationInv, NEW p \in Participant, ReceiveMetadata(p) PROVE NegotiationInv'
<1> USE DEF NegotiationInv
<1> DEFINE m == Head(channel[p])
<1>1. /\ channel[p] # <<>> /\ m.type = "track-metadata"
      /\ channel' = [channel EXCEPT ![p] = Tail(@)] /\ named' = [named EXCEPT ![p] = m.covers]
      /\ UNCHANGED <<revision, operations, agreed, signaling, pending, asked, session, raised, making,
                     handling, settling, watching, greeted, sendLosses>>
  BY DEF ReceiveMetadata, pcVars
<1>2. m \in PeerSignal /\ Tail(channel[p]) \in Seq(PeerSignal)
  BY <1>1, HeadTailProperties DEF Types
<1>3. m.covers \in Revision
  BY <1>1, <1>2, SignalTypes DEF Metadata
<1>4. Types'
  BY <1>1, <1>2, <1>3 DEF Types
<1> QED BY <1>1, <1>4, QuietStep

(* A description arrives: refused, ignored, or put on the chain.           *)
LEMMA ReceiveStep ==
  ASSUME NegotiationAssumption, NegotiationInv, NEW p \in Participant, ReceiveDescription(p)
  PROVE  NegotiationInv'
<1> USE DEF NegotiationInv
<1> DEFINE d == Head(channel[p])
<1>0. Chain(p) /\ Exchange(p) /\ Described(p)
  BY DEF Settled
<1>1. /\ handling[p] = NoDescription /\ channel[p] # <<>> /\ d.type # "track-metadata"
      /\ channel' = [channel EXCEPT ![p] = Tail(@)]
      /\ UNCHANGED <<revision, agreed, signaling, pending, asked, session, raised, making,
                     watching, greeted, named, sendLosses>>
  BY DEF ReceiveDescription, pcVars
<1>2. d \in PeerSignal /\ Tail(channel[p]) \in Seq(PeerSignal)
  BY <1>1, HeadTailProperties DEF Types
<1>3. d \in Offer \cup Answer /\ d # NoDescription
  BY <1>1, <1>2, SignalTypes DEF NegotiationAssumption
<1>4. channel' \in [Participant -> Seq(PeerSignal)]
  BY <1>1, <1>2 DEF Types
<1>5. CASE UNCHANGED <<handling, settling, operations>>
  <2>1. Types'
    BY <1>1, <1>4, <1>5 DEF Types
  <2> QED BY <1>1, <1>5, <2>1, QuietStep
<1>6. CASE /\ WantedDescription(p, d)
           /\ handling' = [handling EXCEPT ![p] = d]
           /\ settling' = [settling EXCEPT ![p] = d.type = "answer"]
           /\ operations' = [operations EXCEPT ![p] = Append(@, "apply")]
  <2>1. handling'[p] = d /\ operations'[p] = Append(operations[p], "apply")
    BY <1>6 DEF Types
  <2>2. "offer" \in Operation /\ "apply" \in Operation /\ "answer" \in Operation
    BY DEF Operation
  <2>3. p = Impolite /\ making[p] # "idle" => d.type = "answer"
    BY <1>1, <1>2, <1>6, SignalTypes DEF WantedDescription, ReadyForOffer, NegotiationAssumption
  <2>4. ASSUME making[p] # "creating" PROVE Settled(p)'
    <3>1. operations'[p] = <<"apply">>
      BY <1>0, <1>1, <2>1, <2>2, <2>4, OneOperation DEF Chain
    <3>2. Chain(p)'
      BY <1>1, <1>3, <2>1, <2>4, <3>1 DEF Chain
    <3>3. ~Queued(p, "answer")' /\ operations'[p] # <<"offer", "apply">>
      BY <2>2, <3>1, DistinctChains DEF Queued
    <3>4. Exchange(p)'
      BY <1>0, <1>1, <3>3 DEF Exchange
    <3>5. Described(p)'
      BY <1>0, <1>1, <2>1, <2>3, <3>3 DEF Described
    <3> QED BY <3>2, <3>4, <3>5 DEF Settled
  <2>5. ASSUME making[p] = "creating" PROVE Settled(p)'
    <3>1. operations'[p] = <<"offer", "apply">>
      BY <1>0, <1>1, <2>1, <2>2, <2>5, TwoOperations DEF Chain
    <3>2. Chain(p)'
      BY <1>1, <1>3, <2>1, <2>5, <3>1 DEF Chain
    <3>3. ~Queued(p, "answer")'
      BY <2>2, <3>1, DistinctChains DEF Queued
    <3>4. Exchange(p)'
      BY <1>0, <1>1, <3>3 DEF Exchange
    <3>5. Described(p)'
      BY <1>0, <1>1, <2>1, <2>3, <2>5 DEF Described
    <3> QED BY <3>2, <3>4, <3>5 DEF Settled
  <2>6. Types'
    <3>1. operations' \in [Participant -> Seq(Operation)]
      BY <1>6, <2>2, AppendProperties DEF Types
    <3>2. handling' \in [Participant -> Offer \cup Answer \cup {NoDescription}]
      BY <1>3, <1>6 DEF Types
    <3>3. settling' \in [Participant -> BOOLEAN]
      BY <1>6 DEF Types
    <3> QED BY <1>1, <1>4, <3>1, <3>2, <3>3 DEF Types
  <2>7. \A q \in Participant \ {p} : SameParticipant(q)
    BY <1>1, <1>6 DEF SameParticipant, Types
  <2> QED BY <2>4, <2>5, <2>6, <2>7, ParticipantStep
<1> QED BY <1>5, <1>6 DEF ReceiveDescription

(* The chain runs negotiate's setLocalDescription.                         *)
LEMMA CreateOfferStep ==
  ASSUME NegotiationAssumption, NegotiationInv, NEW p \in Participant, CreateOffer(p)
  PROVE  NegotiationInv'
<1> USE DEF NegotiationInv
<1>0. Chain(p) /\ Exchange(p) /\ Described(p)
  BY DEF Settled
<1>1. /\ operations[p] # <<>> /\ Head(operations[p]) = "offer"
      /\ operations' = [operations EXCEPT ![p] = Tail(@)]
      /\ making' = [making EXCEPT ![p] = "limiting"]
      /\ watching' = [watching EXCEPT ![p] = TRUE]
      /\ UNCHANGED <<revision, handling, settling, greeted, named, channel, sendLosses>>
  BY DEF CreateOffer
<1>2. PICK fits \in BOOLEAN : MakeOffer(p, fits)
  BY DEF CreateOffer
<1>3. /\ agreed' \in [Participant -> Revision]
      /\ signaling' \in [Participant -> {"stable", "have-local-offer", "have-remote-offer"}]
      /\ pending' \in [Participant -> Offer \cup {NoDescription}]
      /\ asked' \in [Participant -> Offer \cup {NoDescription}]
      /\ session' \in [Participant -> (Offer \X Answer) \cup {NoDescription}]
      /\ raised' \in [Participant -> BOOLEAN]
      /\ pending'[p] # NoDescription <=> signaling'[p] = "have-local-offer"
      /\ asked'[p] # NoDescription <=> signaling'[p] = "have-remote-offer"
      /\ session[p] # NoDescription => session'[p] # NoDescription
      /\ pending'[p] # NoDescription \/ session'[p] # NoDescription
  BY <1>0, <1>2, MakeOfferTypes
<1>4. operations'[p] = Tail(operations[p]) /\ making'[p] = "limiting" /\ making[p] = "creating"
  BY <1>0, <1>1, NextOperation DEF Types
<1>5. "offer" \in Operation /\ "apply" \in Operation /\ "answer" \in Operation
  BY DEF Operation
<1>6. ASSUME handling[p] = NoDescription PROVE Settled(p)'
  <2>1. operations'[p] = <<>>
    BY <1>0, <1>1, <1>4, <1>6, NextOperation
  <2>2. ~Queued(p, "answer")' /\ ~Queued(p, "apply")' /\ operations'[p] # <<"offer", "apply">>
    BY <1>5, <2>1, DistinctChains DEF Queued
  <2>3. Chain(p)'
    BY <1>1, <1>4, <1>6, <2>1 DEF Chain
  <2>4. Exchange(p)'
    BY <1>3, <2>2 DEF Exchange
  <2>5. Described(p)'
    BY <1>0, <1>3, <1>4, <2>2 DEF Described
  <2> QED BY <2>3, <2>4, <2>5 DEF Settled
<1>7. ASSUME handling[p] # NoDescription PROVE Settled(p)'
  <2>1. PICK h \in {"apply", "answer"} : operations[p] = <<"offer", h>> /\ operations'[p] = <<h>>
    BY <1>0, <1>1, <1>4, <1>7, NextOperation
  <2>2. /\ operations'[p] # <<"offer", "apply">>
        /\ Queued(p, "answer")' => h = "answer"
        /\ Queued(p, "apply")' => h = "apply"
    BY <1>5, <2>1, DistinctChains DEF Queued
  <2>3. Chain(p)'
    BY <1>1, <1>4, <1>7, <2>1 DEF Chain
  <2>4. h = "answer" => Queued(p, "answer")
    BY <2>1 DEF Queued
  <2>5. Exchange(p)'
    BY <1>0, <1>1, <1>3, <2>2, <2>4 DEF Exchange
  <2>6. Described(p)'
    BY <1>0, <1>1, <1>3, <1>4, <2>1, <2>2 DEF Described
  <2> QED BY <2>3, <2>5, <2>6 DEF Settled
<1>8. Types'
  <2>1. operations' \in [Participant -> Seq(Operation)]
    BY <1>1, HeadTailProperties DEF Types
  <2>2. making' \in [Participant -> {"idle", "creating", "limiting"}] /\ watching' \in [Participant -> BOOLEAN]
    BY <1>1 DEF Types
  <2> QED BY <1>1, <1>3, <2>1, <2>2 DEF Types
<1>9. \A q \in Participant \ {p} : SameParticipant(q)
  BY <1>1, <1>2 DEF SameParticipant, Types, MakeOffer
<1> QED BY <1>6, <1>7, <1>8, <1>9, ParticipantStep

(* The chain applies an offer, rolling back the local one.                 *)
LEMMA ApplyOfferStep ==
  ASSUME NegotiationAssumption, NegotiationInv, NEW p \in Participant, ApplyOffer(p)
  PROVE  NegotiationInv'
<1> USE DEF NegotiationInv
<1>0. Chain(p) /\ Exchange(p) /\ Described(p)
  BY DEF Settled
<1>1. /\ operations[p] # <<>> /\ Head(operations[p]) = "apply" /\ handling[p].type = "offer"
      /\ signaling' = [signaling EXCEPT ![p] = "have-remote-offer"]
      /\ asked' = [asked EXCEPT ![p] = handling[p]]
      /\ pending' = [pending EXCEPT ![p] = NoDescription]
      /\ settling' = [settling EXCEPT ![p] = FALSE]
      /\ operations' = [operations EXCEPT ![p] = Append(Tail(@), "answer")]
      /\ UNCHANGED <<revision, agreed, session, raised, making, handling, watching, greeted,
                     named, channel, sendLosses>>
  BY DEF ApplyOffer
<1>2. /\ handling[p] # NoDescription
      /\ \/ making[p] # "creating" /\ operations[p] = <<"apply">> /\ Tail(operations[p]) = <<>>
         \/ making[p] = "creating" /\ operations[p] = <<"apply", "offer">>
            /\ Tail(operations[p]) = <<"offer">>
  BY <1>0, <1>1, NextOperation
<1>3. handling[p] \in Offer
  BY <1>1, <1>2, SignalTypes DEF Types
<1>4. handling[p] \notin {NoDescription}
  BY <1>2
<1>5. /\ operations'[p] = Append(Tail(operations[p]), "answer") /\ pending'[p] = NoDescription
      /\ asked'[p] = handling[p] /\ signaling'[p] = "have-remote-offer"
  BY <1>1 DEF Types
<1>6. "offer" \in Operation /\ "apply" \in Operation /\ "answer" \in Operation
  BY DEF Operation
<1>7. Exchange(p)'
  BY <1>1, <1>2, <1>5 DEF Exchange
<1>8. Queued(p, "apply")
  BY <1>2 DEF Queued
<1>9. making[p] = "limiting" => session[p] # NoDescription
  BY <1>0, <1>1, <1>8 DEF Described, Participant
<1>10. Chain(p)' /\ ~Queued(p, "apply")' /\ operations'[p] # <<"offer", "apply">>
  <2>1. CASE making[p] # "creating" /\ Tail(operations[p]) = <<>>
    <3>1. operations'[p] = <<"answer">>
      BY <1>5, <1>6, <2>1, OneOperation
    <3>2. Chain(p)'
      BY <1>1, <1>2, <2>1, <3>1 DEF Chain
    <3>3. ~Queued(p, "apply")' /\ operations'[p] # <<"offer", "apply">>
      BY <1>6, <3>1, DistinctChains DEF Queued
    <3> QED BY <3>2, <3>3
  <2>2. CASE making[p] = "creating" /\ Tail(operations[p]) = <<"offer">>
    <3>1. operations'[p] = <<"offer", "answer">>
      BY <1>5, <1>6, <2>2, TwoOperations
    <3>2. Chain(p)'
      BY <1>1, <1>2, <2>2, <3>1 DEF Chain
    <3>3. ~Queued(p, "apply")' /\ operations'[p] # <<"offer", "apply">>
      BY <1>6, <3>1, DistinctChains DEF Queued
    <3> QED BY <3>2, <3>3
  <2> QED BY <1>2, <2>1, <2>2
<1>11. Settled(p)'
  BY <1>0, <1>1, <1>7, <1>9, <1>10 DEF Settled, Described
<1>12. Types'
  <2>1. Tail(operations[p]) \in Seq(Operation)
    BY <1>1, HeadTailProperties DEF Types
  <2>2. Append(Tail(operations[p]), "answer") \in Seq(Operation)
    BY <1>6, <2>1, AppendProperties
  <2>3. operations' \in [Participant -> Seq(Operation)]
    BY <1>1, <2>2 DEF Types
  <2>4. /\ signaling' \in [Participant -> {"stable", "have-local-offer", "have-remote-offer"}]
        /\ asked' \in [Participant -> Offer \cup {NoDescription}] /\ pending' \in [Participant -> Offer \cup {NoDescription}]
        /\ settling' \in [Participant -> BOOLEAN]
    BY <1>1, <1>3 DEF Types
  <2> QED BY <1>1, <2>3, <2>4 DEF Types
<1>13. \A q \in Participant \ {p} : SameParticipant(q)
  BY <1>1 DEF SameParticipant, Types
<1> QED BY <1>11, <1>12, <1>13, ParticipantStep

(* The chain makes the answer and sends it.                                *)
LEMMA SendAnswerStep ==
  ASSUME NegotiationAssumption, NegotiationInv, NEW p \in Participant, SendAnswer(p)
  PROVE  NegotiationInv'
<1> USE DEF NegotiationInv
<1>0. Chain(p) /\ Exchange(p) /\ Described(p)
  BY DEF Settled
<1>1. /\ operations[p] # <<>> /\ Head(operations[p]) = "answer"
      /\ operations' = [operations EXCEPT ![p] = Tail(@)]
      /\ SendInOrder(p, <<LocalDescription(p)', TrackMetadata(p)>>)
      /\ handling' = [handling EXCEPT ![p] = NoDescription]
      /\ UNCHANGED <<revision, making, settling, watching, greeted, named>>
  BY DEF SendAnswer
<1>2. PICK fits \in BOOLEAN : MakeOffer(p, fits)
  BY DEF SendAnswer
<1>3. /\ agreed' \in [Participant -> Revision]
      /\ signaling' \in [Participant -> {"stable", "have-local-offer", "have-remote-offer"}]
      /\ pending' \in [Participant -> Offer \cup {NoDescription}]
      /\ asked' \in [Participant -> Offer \cup {NoDescription}]
      /\ session' \in [Participant -> (Offer \X Answer) \cup {NoDescription}]
      /\ raised' \in [Participant -> BOOLEAN]
      /\ pending'[p] # NoDescription <=> signaling'[p] = "have-local-offer"
      /\ asked'[p] # NoDescription <=> signaling'[p] = "have-remote-offer"
      /\ session[p] # NoDescription => session'[p] # NoDescription
      /\ pending'[p] # NoDescription \/ session'[p] # NoDescription
  BY <1>0, <1>2, MakeOfferTypes
<1>4. operations'[p] = Tail(operations[p]) /\ handling'[p] = NoDescription
  BY <1>1 DEF Types
<1>5. "offer" \in Operation /\ "apply" \in Operation /\ "answer" \in Operation
  BY DEF Operation
<1>6. \/ making[p] # "creating" /\ operations'[p] = <<>>
      \/ making[p] = "creating" /\ operations'[p] = <<"offer">>
  BY <1>0, <1>1, <1>4, NextOperation
<1>7. ~Queued(p, "answer")' /\ ~Queued(p, "apply")' /\ operations'[p] # <<"offer", "apply">>
  BY <1>5, <1>6, DistinctChains DEF Queued
<1>8. Chain(p)'
  BY <1>1, <1>4, <1>6 DEF Chain
<1>9. Exchange(p)' /\ Described(p)'
  BY <1>0, <1>1, <1>3, <1>7 DEF Exchange, Described
<1>10. LocalDescription(p)' \in PeerSignal
  <2>1. CASE pending'[p] # NoDescription
    BY <1>3, <2>1 DEF LocalDescription, PeerSignal
  <2>2. CASE pending'[p] = NoDescription
    <3>1. session'[p][1] \in Offer /\ session'[p][2] \in Answer
      BY <1>3, <2>2
    <3> QED BY <2>2, <3>1 DEF LocalDescription, PeerSignal
  <2> QED BY <2>1, <2>2
<1>11. channel' \in [Participant -> Seq(PeerSignal)] /\ sendLosses' \in 0 .. MaxSendLosses
  <2>1. TrackMetadata(p) \in PeerSignal
    BY SignalTypes
  <2>2. <<LocalDescription(p)', TrackMetadata(p)>> \in Seq(PeerSignal)
    BY <1>10, <2>1
  <2> QED BY <1>1, <2>2, SendTypes DEF Types
<1>12. Types'
  <2>1. operations' \in [Participant -> Seq(Operation)]
    BY <1>1, HeadTailProperties DEF Types
  <2>2. handling' \in [Participant -> Offer \cup Answer \cup {NoDescription}]
    BY <1>1 DEF Types
  <2> QED BY <1>1, <1>3, <1>11, <2>1, <2>2 DEF Types
<1>13. \A q \in Participant \ {p} : SameParticipant(q)
  BY <1>1, <1>2 DEF SameParticipant, Types, MakeOffer
<1>14. Settled(p)'
  BY <1>8, <1>9 DEF Settled
<1> QED BY <1>12, <1>13, <1>14, ParticipantStep

(* The chain applies an answer, or rejects one that is late.               *)
LEMMA ApplyAnswerStep ==
  ASSUME NegotiationAssumption, NegotiationInv, NEW p \in Participant, ApplyAnswer(p)
  PROVE  NegotiationInv'
<1> USE DEF NegotiationInv
<1> DEFINE d == handling[p]
<1>0. Chain(p) /\ Exchange(p) /\ Described(p)
  BY DEF Settled
<1>1. /\ operations[p] # <<>> /\ Head(operations[p]) = "apply" /\ d.type = "answer"
      /\ operations' = [operations EXCEPT ![p] = Tail(@)]
      /\ handling' = [handling EXCEPT ![p] = NoDescription]
      /\ UNCHANGED <<revision, asked, making, watching, greeted, named, channel, sendLosses>>
  BY DEF ApplyAnswer
<1>2. operations'[p] = Tail(operations[p]) /\ handling'[p] = NoDescription
  BY <1>1 DEF Types
<1>3. "offer" \in Operation /\ "apply" \in Operation /\ "answer" \in Operation
  BY DEF Operation
<1>4. /\ d # NoDescription
      /\ \/ making[p] # "creating" /\ operations'[p] = <<>>
         \/ making[p] = "creating" /\ operations'[p] = <<"offer">>
  BY <1>0, <1>1, <1>2, NextOperation
<1>5. d \in Answer
  BY <1>1, <1>4, SignalTypes DEF Types
<1>6. ~Queued(p, "answer")' /\ ~Queued(p, "apply")' /\ operations'[p] # <<"offer", "apply">>
  BY <1>3, <1>4, DistinctChains DEF Queued
<1>7. Chain(p)'
  BY <1>1, <1>2, <1>4 DEF Chain
<1>8. operations' \in [Participant -> Seq(Operation)]
  BY <1>1, HeadTailProperties DEF Types
<1>9. handling' \in [Participant -> Offer \cup Answer \cup {NoDescription}]
  BY <1>1 DEF Types
<1>10. CASE UNCHANGED <<session, agreed, signaling, pending, raised, settling>>
  <2>1. Types'
    BY <1>1, <1>8, <1>9, <1>10 DEF Types
  <2>2. Exchange(p)' /\ Described(p)'
    BY <1>0, <1>1, <1>6, <1>10 DEF Exchange, Described
  <2>3. \A q \in Participant \ {p} : SameParticipant(q)
    BY <1>1, <1>10 DEF SameParticipant, Types
  <2>4. Settled(p)'
    BY <1>7, <2>2 DEF Settled
  <2> QED BY <2>1, <2>3, <2>4, ParticipantStep
<1>11. CASE /\ signaling[p] = "have-local-offer"
            /\ session' = [session EXCEPT ![p] = <<pending[p], d>>]
            /\ agreed' = [agreed EXCEPT ![p] = pending[p].covers]
            /\ signaling' = [signaling EXCEPT ![p] = "stable"]
            /\ pending' = [pending EXCEPT ![p] = NoDescription]
            /\ raised' = [raised EXCEPT ![p] = FALSE]
            /\ settling' = [settling EXCEPT ![p] = FALSE]
  <2>1. pending[p] \in Offer /\ pending[p].covers \in Revision
    BY <1>0, <1>11 DEF Types, Exchange, Offer
  <2>2. <<pending[p], d>> \in Offer \X Answer /\ <<pending[p], d>> # NoDescription
    BY <1>5, <2>1 DEF NegotiationAssumption
  <2>3. /\ session'[p] # NoDescription /\ pending'[p] = NoDescription /\ signaling'[p] = "stable"
    BY <1>11, <2>2 DEF Types
  <2>4. Exchange(p)'
    BY <1>0, <1>1, <1>6, <1>11, <2>3 DEF Exchange
  <2>5. Described(p)'
    BY <1>1, <1>6, <2>3 DEF Described
  <2>6. Types'
    <3>1. /\ session' \in [Participant -> (Offer \X Answer) \cup {NoDescription}]
          /\ agreed' \in [Participant -> Revision]
          /\ signaling' \in [Participant -> {"stable", "have-local-offer", "have-remote-offer"}]
          /\ pending' \in [Participant -> Offer \cup {NoDescription}]
      BY <1>11, <2>1, <2>2 DEF Types
    <3>2. raised' \in [Participant -> BOOLEAN] /\ settling' \in [Participant -> BOOLEAN]
      BY <1>11 DEF Types
    <3> QED BY <1>1, <1>8, <1>9, <3>1, <3>2 DEF Types
  <2>7. \A q \in Participant \ {p} : SameParticipant(q)
    BY <1>1, <1>11 DEF SameParticipant, Types
  <2>8. Settled(p)'
    BY <1>7, <2>4, <2>5 DEF Settled
  <2> QED BY <2>6, <2>7, <2>8, ParticipantStep
<1> QED BY <1>10, <1>11 DEF ApplyAnswer

-----------------------------------------------------------------------------
(* The state of both peer connections stays in its types, and an           *)
(* operations chain never holds more than the offer of negotiate and one   *)
(* step of the signal being handled (negotiate, handleDescription).        *)
THEOREM NegotiationTypeCorrect ==
  ASSUME NegotiationAssumption PROVE NegotiationSpec => []NegotiationTypeOK
<1>1. NegotiationInit => NegotiationInv
  BY NegotiationInvInit
<1>2. NegotiationInv /\ [NegotiationNext]_negotiationVars => NegotiationInv'
  <2> SUFFICES ASSUME NegotiationInv, [NegotiationNext]_negotiationVars PROVE NegotiationInv'
    OBVIOUS
  <2>1. CASE UNCHANGED negotiationVars
    <3>1. Types'
      BY <2>1 DEF NegotiationInv, Types, negotiationVars, pcVars, jsVars
    <3> QED BY <2>1, <3>1, QuietStep DEF negotiationVars, pcVars, jsVars
  <2>2. ASSUME NEW p \in Participant,
               \/ NegotiationNeeded(p) \/ Greet(p) \/ SendOffer(p) \/ OfferTimer(p)
               \/ HandleSignal(p) \/ Operate(p)
               \/ \E fallback \in BOOLEAN : ChangeTracks(p, fallback)
        PROVE  NegotiationInv'
    <3>1. CASE NegotiationNeeded(p) \/ Greet(p) \/ SendOffer(p) \/ OfferTimer(p)
      BY <3>1, NeededStep, GreetStep, SendOfferStep, OfferTimerStep
    <3>2. CASE HandleSignal(p)
      BY <3>2, ReceiveStep, MetadataStep DEF HandleSignal
    <3>3. CASE Operate(p)
      BY <3>3, CreateOfferStep, ApplyOfferStep, SendAnswerStep, ApplyAnswerStep DEF Operate
    <3>4. CASE \E fallback \in BOOLEAN : ChangeTracks(p, fallback)
      BY <3>4, ChangeStep
    <3> QED BY <2>2, <3>1, <3>2, <3>3, <3>4
  <2> QED BY <2>1, <2>2 DEF NegotiationNext
<1> QED BY <1>1, <1>2, InvTypes, PTL DEF NegotiationSpec

-----------------------------------------------------------------------------
(* The parts of the client's call together: what moves one of them leaves  *)
(* the others alone, so that a behaviour of all is a behaviour of each,    *)
(* and what is proved of a component holds where TLC checks it.            *)
LEMMA CallMediaComposed == MCSpec => Spec /\ VoiceSpec /\ NegotiationSpec /\ TracksSpec
<1>1. MCInit => Init /\ VoiceInit /\ NegotiationInit /\ TracksInit
  BY DEF MCInit
<1>2. [MCNext]_all => /\ [Next]_vars /\ [VoiceNext]_voiceVars
                      /\ [NegotiationNext]_negotiationVars /\ [TracksNext]_tracksVars
  <2> SUFFICES ASSUME [MCNext]_all
               PROVE  /\ [Next]_vars /\ [VoiceNext]_voiceVars
                      /\ [NegotiationNext]_negotiationVars /\ [TracksNext]_tracksVars
    OBVIOUS
  <2>1. CASE Negotiates(NegotiationNext)
    BY <2>1 DEF Negotiates
  <2>2. CASE Relays(VoiceNext)
    BY <2>2 DEF Relays
  <2>3. CASE Captures(TracksNext)
    BY <2>3 DEF Captures
  <2>4. CASE Joins(Next)
    BY <2>4 DEF Joins
  <2>5. CASE UNCHANGED all
    BY <2>5 DEF all
  <2> QED BY <2>1, <2>2, <2>3, <2>4, <2>5 DEF MCNext
<1> QED BY <1>1, <1>2, PTL DEF MCSpec, Spec, VoiceSpec, NegotiationSpec, TracksSpec

(* The call, the voice fallback, the exchange of descriptions and the      *)
(* captured tracks keep their types side by side (useCallSession,          *)
(* VoiceRelay, negotiate, replaceLocalTrack).                              *)
THEOREM CallTypesCorrect ==
  ASSUME SessionAssumption, VoiceAssumption, NegotiationAssumption, TrackAssumption
  PROVE  MCSpec => []TypesOK
<1>1. MCInit => which \in Component
  BY DEF MCInit
<1>2. which \in Component /\ [MCNext]_all => (which \in Component)'
  BY DEF MCNext, Negotiates, Relays, Captures, Joins, all
<1>3. MCSpec => [](which \in Component)
  BY <1>1, <1>2, PTL DEF MCSpec
<1> QED
  BY <1>3, CallMediaComposed, TypeCorrect, VoiceTypeCorrect, NegotiationTypeCorrect,
     TracksTypeCorrect, PTL DEF TypesOK
=============================================================================
