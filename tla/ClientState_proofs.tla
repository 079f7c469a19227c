------------------------- MODULE ClientState_proofs -------------------------
(***************************************************************************)
(* Theorems about what the client keeps for its user: PushToTalk, for any  *)
(* number of key presses, with and without a global hook; DraftSync, for   *)
(* any number of devices, texts, edits, sends, failures and reloads; and   *)
(* MessageHistory, for a log, pages and disruptions of any number.         *)
(***************************************************************************)
EXTENDS MCClientState, WellFoundedInduction, SequenceTheorems, TLAPS

-----------------------------------------------------------------------------
(* PushToTalk                                                              *)

One(b) == IF b THEN 1 ELSE 0

\* Every change of a watched key has a number, and every change took a press.
Numbered ==
  /\ hook.sequence + One(hook.pressed) + One(hook.mutePressed) <= 2 * presses
  /\ hook.talks <= presses /\ hook.mutes <= presses

\* Only a call is watched.
OnlyInCall == native # "none" => active

\* What a snapshot says, when only the talk key has been numbered: an odd number
\* is a press.
Alternates(s) == s.mutes = 0 /\ 2 * s.talks = s.sequence + One(s.pressed)

\* Without a shortcut for mute that is every snapshot the hook has made.
TalkAlone ==
  native = "watching" /\ ~globalMute =>
    /\ Alternates(hook) /\ ~hook.mutePressed /\ (hook.pressed => hook.armed)
    /\ \A s \in flight : Alternates(s)
    /\ mutesSeen = 0 /\ 2 * reported <= accepted

Inv == TypeOK /\ HeldOnlyInUse /\ Numbered /\ OnlyInCall /\ TalkAlone

-----------------------------------------------------------------------------
(* The hook: what it observes keeps its snapshots typed and numbered.      *)
LEMMA PublishedType ==
  ASSUME NEW h \in Hook
  PROVE  Published(h) \in Snapshot
BY DEF Published, Hook, Snapshot

LEMMA HookArmed ==
  ASSUME NEW h \in Hook, NEW a \in BOOLEAN, NEW b \in BOOLEAN
  PROVE  /\ [h EXCEPT !.armed = a, !.pressed = b] \in Hook
         /\ [h EXCEPT !.muteArmed = a, !.mutePressed = b] \in Hook
BY DEF Hook

LEMMA HookCounted ==
  ASSUME NEW h \in Hook, NEW n \in Number, NEW f \in BOOLEAN, NEW t \in 0 .. MaxPresses,
         NEW m \in Number
  PROVE  /\ [h EXCEPT !.sequence = n, !.focused = f, !.talks = t] \in Hook
         /\ [h EXCEPT !.sequence = n, !.focused = f, !.mutes = m] \in Hook
BY DEF Hook

LEMMA ObserveTalkKeeps ==
  ASSUME TypeOK, Numbered, NEW isDown \in BOOLEAN, ObserveTalk(isDown),
         presses' \in 0 .. MaxPresses,
         presses' = presses + One(isDown)
  PROVE  hook' \in Hook /\ flight' \subseteq Snapshot /\ Numbered'
<1> DEFINE armed == hook.armed \/ ~isDown
           next == [hook EXCEPT !.armed = armed, !.pressed = armed /\ isDown]
<1>1. hook \in Hook /\ flight \subseteq Snapshot /\ presses \in Nat /\ MaxPresses \in Nat
      /\ focused \in BOOLEAN
  BY TalkAssumption DEF TypeOK
<1>2. armed \in BOOLEAN /\ (armed /\ isDown) \in BOOLEAN
  OBVIOUS
<1>3. next \in Hook
  <2> HIDE DEF armed
  <2> QED BY <1>1, <1>2, HookArmed
<1>4. /\ next.sequence = hook.sequence /\ next.mutePressed = hook.mutePressed
      /\ next.talks = hook.talks /\ next.mutes = hook.mutes
      /\ next.pressed <=> (armed /\ isDown)
  <2> HIDE DEF armed
  <2> QED BY <1>1 DEF Hook
<1>5. /\ hook.sequence \in Nat /\ hook.talks \in Nat /\ hook.mutes \in Nat
      /\ hook.pressed \in BOOLEAN /\ hook.mutePressed \in BOOLEAN /\ next.pressed \in BOOLEAN
  BY <1>1, <1>3, TalkAssumption DEF Hook, Number
<1>6. ASSUME hook' = next \/ hook' = hook, flight' = flight,
             hook'.pressed = hook.pressed
      PROVE  hook' \in Hook /\ flight' \subseteq Snapshot /\ Numbered'
  <2>1. hook' \in Hook /\ flight' \subseteq Snapshot
    BY <1>1, <1>3, <1>6
  <2>2. /\ hook'.sequence = hook.sequence /\ hook'.mutePressed = hook.mutePressed
        /\ hook'.talks = hook.talks /\ hook'.mutes = hook.mutes /\ presses' >= presses
    <3> HIDE DEF next
    <3> QED BY <1>1, <1>4, <1>6 DEF One
  <2> QED BY <1>1, <1>5, <1>6, <2>1, <2>2 DEF Numbered, One
<1>7. CASE native # "watching"
  <2>1. hook' = hook /\ flight' = flight
    BY <1>7 DEF ObserveTalk
  <2> QED BY <1>6, <2>1
<1>8. CASE native = "watching" /\ next.pressed = hook.pressed
  <2>1. hook' = next /\ flight' = flight
    BY <1>8 DEF ObserveTalk
  <2> QED BY <1>6, <1>8, <2>1
<1>9. CASE native = "watching" /\ next.pressed # hook.pressed
  <2> DEFINE n == next.sequence + 1
             t == IF isDown THEN next.talks + 1 ELSE next.talks
  <2>1. /\ hook' = [next EXCEPT !.sequence = n, !.focused = focused, !.talks = t]
        /\ flight' = flight \cup {Published(hook')}
    BY <1>9 DEF ObserveTalk
  <2> HIDE DEF next, armed
  <2>2. hook'.sequence = n /\ hook'.pressed = next.pressed /\ hook'.talks = t
        /\ hook'.mutes = hook.mutes /\ hook'.mutePressed = hook.mutePressed
    BY <1>3, <1>4, <2>1 DEF Hook
  <2>3. next.pressed => isDown
    BY <1>4
  <2>4. n \in Number /\ t \in 0 .. MaxPresses /\ Numbered'
    BY <1>1, <1>4, <1>5, <1>9, <2>2, <2>3 DEF Numbered, Number, One
  <2>5. hook' \in Hook
    BY <1>1, <1>3, <2>1, <2>4, HookCounted
  <2> QED BY <1>1, <2>1, <2>4, <2>5, PublishedType
<1> QED BY <1>7, <1>8, <1>9
LEMMA ObserveMuteKeeps ==
  ASSUME TypeOK, Numbered, NEW isDown \in BOOLEAN, ObserveMute(isDown),
         presses' \in 0 .. MaxPresses,
         presses' = presses + One(isDown)
  PROVE  hook' \in Hook /\ flight' \subseteq Snapshot /\ Numbered'
<1> DEFINE armed == hook.muteArmed \/ ~isDown
           next == [hook EXCEPT !.muteArmed = armed, !.mutePressed = armed /\ isDown]
<1>1. hook \in Hook /\ flight \subseteq Snapshot /\ presses \in Nat /\ MaxPresses \in Nat
      /\ focused \in BOOLEAN
  BY TalkAssumption DEF TypeOK
<1>2. armed \in BOOLEAN /\ (armed /\ isDown) \in BOOLEAN
  OBVIOUS
<1>3. next \in Hook
  <2> HIDE DEF armed
  <2> QED BY <1>1, <1>2, HookArmed
<1>4. /\ next.sequence = hook.sequence /\ next.pressed = hook.pressed
      /\ next.mutes = hook.mutes /\ next.talks = hook.talks
      /\ next.mutePressed <=> (armed /\ isDown)
  <2> HIDE DEF armed
  <2> QED BY <1>1 DEF Hook
<1>5. /\ hook.sequence \in Nat /\ hook.mutes \in Nat /\ hook.talks \in Nat
      /\ hook.mutePressed \in BOOLEAN /\ hook.pressed \in BOOLEAN /\ next.mutePressed \in BOOLEAN
  BY <1>1, <1>3, TalkAssumption DEF Hook, Number
<1>6. ASSUME hook' = next \/ hook' = hook, flight' = flight,
             hook'.mutePressed = hook.mutePressed
      PROVE  hook' \in Hook /\ flight' \subseteq Snapshot /\ Numbered'
  <2>1. hook' \in Hook /\ flight' \subseteq Snapshot
    BY <1>1, <1>3, <1>6
  <2>2. /\ hook'.sequence = hook.sequence /\ hook'.pressed = hook.pressed
        /\ hook'.mutes = hook.mutes /\ hook'.talks = hook.talks /\ presses' >= presses
    <3> HIDE DEF next
    <3> QED BY <1>1, <1>4, <1>6 DEF One
  <2> QED BY <1>1, <1>5, <1>6, <2>1, <2>2 DEF Numbered, One
<1>7. CASE native # "watching"
  <2>1. hook' = hook /\ flight' = flight
    BY <1>7 DEF ObserveMute
  <2> QED BY <1>6, <2>1
<1>8. CASE native = "watching" /\ next.mutePressed = hook.mutePressed
  <2>1. hook' = next /\ flight' = flight
    BY <1>8 DEF ObserveMute
  <2> QED BY <1>6, <1>8, <2>1
<1>9. CASE native = "watching" /\ next.mutePressed # hook.mutePressed
  <2> DEFINE n == next.sequence + 1
             t == IF isDown THEN next.mutes + 1 ELSE next.mutes
  <2>1. /\ hook' = [next EXCEPT !.sequence = n, !.focused = focused, !.mutes = t]
        /\ flight' = flight \cup {Published(hook')}
    BY <1>9 DEF ObserveMute
  <2> HIDE DEF next, armed
  <2>2. hook'.sequence = n /\ hook'.mutePressed = next.mutePressed /\ hook'.mutes = t
        /\ hook'.talks = hook.talks /\ hook'.pressed = hook.pressed
    BY <1>3, <1>4, <2>1 DEF Hook
  <2>3. next.mutePressed => isDown
    BY <1>4
  <2>4. n \in Number /\ t \in Number /\ Numbered'
    BY <1>1, <1>4, <1>5, <1>9, <2>2, <2>3 DEF Numbered, Number, One
  <2>5. hook' \in Hook
    BY <1>1, <1>3, <2>1, <2>4, HookCounted
  <2> QED BY <1>1, <2>1, <2>4, <2>5, PublishedType
<1> QED BY <1>7, <1>8, <1>9
LEMMA ObserveTalkAlternates ==
  ASSUME TypeOK, native = "watching", NEW isDown \in BOOLEAN, ObserveTalk(isDown),
         Alternates(hook), ~hook.mutePressed, hook.pressed => hook.armed,
         \A s \in flight : Alternates(s)
  PROVE  /\ Alternates(hook') /\ ~hook'.mutePressed /\ (hook'.pressed => hook'.armed)
         /\ \A s \in flight' : Alternates(s)
<1> DEFINE armed == hook.armed \/ ~isDown
           next == [hook EXCEPT !.armed = armed, !.pressed = armed /\ isDown]
<1>1. hook \in Hook
  BY DEF TypeOK
<1>2. armed \in BOOLEAN /\ (armed /\ isDown) \in BOOLEAN
  OBVIOUS
<1>3. next \in Hook
  <2> HIDE DEF armed
  <2> QED BY <1>1, <1>2, HookArmed
<1>4. /\ next.sequence = hook.sequence /\ next.mutePressed = hook.mutePressed
      /\ next.talks = hook.talks /\ next.mutes = hook.mutes
      /\ next.pressed <=> (armed /\ isDown)
      /\ next.armed <=> armed
  <2> HIDE DEF armed
  <2> QED BY <1>1 DEF Hook
<1>5. /\ hook.sequence \in Nat /\ hook.talks \in Nat
      /\ hook.pressed \in BOOLEAN /\ next.pressed \in BOOLEAN
  BY <1>1, <1>3, TalkAssumption DEF Hook, Number
<1>6. CASE next.pressed = hook.pressed
  <2>1. hook' = next /\ flight' = flight
    BY <1>6 DEF ObserveTalk
  <2> HIDE DEF next, armed
  <2> QED BY <1>4, <1>6, <2>1 DEF Alternates
<1>7. CASE next.pressed # hook.pressed
  <2> DEFINE n == next.sequence + 1
             t == IF isDown THEN next.talks + 1 ELSE next.talks
  <2>1. /\ hook' = [next EXCEPT !.sequence = n, !.focused = focused, !.talks = t]
        /\ flight' = flight \cup {Published(hook')}
    BY <1>7 DEF ObserveTalk
  <2>2. hook.pressed <=> ~isDown
    BY <1>4, <1>5, <1>7
  <2>3. next.pressed <=> isDown
    BY <1>5, <1>7, <2>2
  <2> HIDE DEF next, armed
  <2>4. hook'.sequence = n /\ hook'.pressed = next.pressed /\ hook'.talks = t
        /\ hook'.mutes = hook.mutes /\ hook'.mutePressed = hook.mutePressed
        /\ hook'.armed = next.armed
    BY <1>3, <1>4, <2>1 DEF Hook
  <2>5. Alternates(hook') /\ ~hook'.mutePressed /\ (hook'.pressed => hook'.armed)
    BY <1>4, <1>5, <2>2, <2>3, <2>4 DEF Alternates, One
  <2>6. Alternates(Published(hook'))
    BY <2>5 DEF Alternates, Published
  <2> QED BY <2>1, <2>5, <2>6
<1> QED BY <1>6, <1>7

-----------------------------------------------------------------------------
(* What the gate does with a snapshot.                                     *)
LEMMA AcceptKeeps ==
  ASSUME TypeOK, HeldOnlyInUse, OnlyInCall, native = "watching",
         NEW s \in Snapshot, Accept(s)
  PROVE  /\ {active, enabled, held, foregroundHeld, manualMuted, deafened}' \subseteq BOOLEAN
         /\ accepted' \in 0 .. 2 * MaxPresses + 1 /\ mutesSeen' \in Number
         /\ reported' \in 0 .. MaxPresses
         /\ HeldOnlyInUse'
         /\ UNCHANGED <<active, enabled, deafened, status, native>>
<1>0. s.sequence \in Number /\ s.mutes \in Number /\ s.talks \in 0 .. MaxPresses
      /\ s.pressed \in BOOLEAN /\ s.focused \in BOOLEAN
  BY DEF Snapshot
<1>1. CASE s.sequence < accepted
  <2>1. UNCHANGED <<gateVars, nativeVars, reported>>
    BY <1>1 DEF Accept
  <2> QED BY <2>1 DEF TypeOK, HeldOnlyInUse, gateVars, nativeVars
<1>2. CASE ~(s.sequence < accepted)
  <2>1. /\ accepted' = s.sequence + 1 /\ mutesSeen' = s.mutes
        /\ manualMuted' = (manualMuted # MuteActs(s))
        /\ IF ~enabled \/ (s.pressed /\ s.focused)
           THEN IF MuteActs(s) THEN Release ELSE UNCHANGED <<held, foregroundHeld>>
           ELSE Hold(s.pressed /\ ~manualMuted' /\ ~deafened, foregroundHeld /\ ~s.pressed)
        /\ reported' = s.talks
        /\ UNCHANGED <<active, enabled, deafened, status, native>>
    BY <1>2 DEF Accept
  <2>2. accepted' \in 0 .. 2 * MaxPresses + 1 /\ mutesSeen' \in Number
        /\ reported' \in 0 .. MaxPresses
    BY <1>0, <2>1, TalkAssumption DEF Number
  <2>3. active
    BY DEF OnlyInCall
  <2>4. MuteActs(s) \in BOOLEAN
    BY DEF MuteActs
  <2>5. manualMuted' \in BOOLEAN /\ (~MuteActs(s) => manualMuted' = manualMuted)
    BY <2>1, <2>4 DEF TypeOK
  <2>6. held' \in BOOLEAN /\ foregroundHeld' \in BOOLEAN /\ HeldOnlyInUse'
    BY <1>0, <2>1, <2>3, <2>5 DEF TypeOK, HeldOnlyInUse, Hold, Release
  <2> QED BY <2>1, <2>2, <2>5, <2>6 DEF TypeOK
<1> QED BY <1>1, <1>2

(* A registration starts over, or there is none.                           *)
LEMMA ConfigureNativeKeeps ==
  ASSUME TypeOK, ConfigureNative
  PROVE  /\ native' \in {"none", "starting"} /\ status' \in Status
         /\ accepted' \in 0 .. 2 * MaxPresses + 1 /\ mutesSeen' \in Number
         /\ hook' = hook /\ flight' = {}
         /\ native' # "none" => active'
BY TalkAssumption DEF ConfigureNative, Status, Number

LEMMA Initially == Init => Inv
<1> SUFFICES ASSUME Init PROVE Inv
  OBVIOUS
<1> USE TalkAssumption
<1>1. hook = NewHook(FALSE, FALSE)
  BY DEF Init
<1>2. TypeOK
  <2>1. hook \in Hook
    BY <1>1 DEF NewHook, Hook, Number
  <2>2. 0 \in Number /\ 0 \in 0 .. 2 * MaxPresses + 1 /\ 0 \in 0 .. MaxPresses
    BY DEF Number
  <2>3. "foreground" \in Status
    BY DEF Status
  <2>4. {active, enabled, held, foregroundHeld, manualMuted, deafened} \subseteq BOOLEAN
        /\ {down, muteDown, focused, editing, globalMute} \subseteq BOOLEAN
    BY DEF Init
  <2> HIDE DEF Init
  <2>5. status = "foreground" /\ native = "none" /\ accepted = 0 /\ mutesSeen = 0
        /\ flight = {} /\ presses = 0 /\ reported = 0
    BY DEF Init
  <2> QED BY <2>1, <2>2, <2>3, <2>4, <2>5 DEF TypeOK
<1>3. Numbered
  BY <1>1 DEF Init, Numbered, NewHook, One
<1> QED BY <1>2, <1>3 DEF Init, Inv, HeldOnlyInUse, OnlyInCall, TalkAlone

-----------------------------------------------------------------------------
(* Every step keeps the invariant.                                         *)
LEMMA GateSteps ==
  ASSUME Inv, Start \/ Stop \/ SettingsChanged \/ ShortcutSettingsChanged
                \/ ToggleMute \/ ToggleDeafen
  PROVE  Inv'
<1> USE DEF Inv
<1>1. CASE Start \/ SettingsChanged \/ ShortcutSettingsChanged
  <2>1. ConfigureNative /\ ~held' /\ ~foregroundHeld' /\ UNCHANGED <<presses, reported>>
    BY <1>1 DEF Start, SettingsChanged, ShortcutSettingsChanged, Release, Hold, worldVars
  <2>2. /\ {active, enabled, manualMuted, deafened}' \subseteq BOOLEAN
        /\ {down, muteDown, focused, editing, globalMute}' \subseteq BOOLEAN
        /\ held' = FALSE /\ foregroundHeld' = FALSE
    BY <1>1 DEF Start, SettingsChanged, ShortcutSettingsChanged, Release, Hold, worldVars, TypeOK
  <2>3. TypeOK'
    BY <2>1, <2>2, ConfigureNativeKeeps DEF TypeOK
  <2>4. HeldOnlyInUse' /\ OnlyInCall'
    BY <2>1, ConfigureNativeKeeps DEF HeldOnlyInUse, OnlyInCall
  <2>5. Numbered' /\ TalkAlone'
    BY <2>1, ConfigureNativeKeeps DEF Numbered, TalkAlone
  <2> QED BY <2>3, <2>4, <2>5
<1>2. CASE Stop
  <2>1. /\ ~active' /\ ~held' /\ ~foregroundHeld' /\ native' = "none" /\ flight' = {}
        /\ UNCHANGED <<hook, presses>>
    BY <1>2 DEF Stop, Release, Hold, worldVars
  <2>2. TypeOK'
    BY <1>2 DEF Stop, Release, Hold, worldVars, TypeOK, Status
  <2>3. HeldOnlyInUse' /\ OnlyInCall' /\ Numbered' /\ TalkAlone'
    BY <2>1 DEF HeldOnlyInUse, OnlyInCall, Numbered, TalkAlone
  <2> QED BY <2>2, <2>3
<1>3. CASE ToggleMute \/ ToggleDeafen
  <2>1. /\ ~held' /\ ~foregroundHeld'
        /\ UNCHANGED <<active, enabled, status, nativeVars, hook, flight, worldVars, reported>>
    BY <1>3 DEF ToggleMute, ToggleDeafen, Release, Hold
  <2>2. TypeOK'
    BY <1>3, <2>1 DEF ToggleMute, ToggleDeafen, Release, Hold, nativeVars, worldVars, TypeOK
  <2>3. HeldOnlyInUse' /\ OnlyInCall' /\ Numbered' /\ TalkAlone'
    BY <2>1 DEF HeldOnlyInUse, OnlyInCall, Numbered, TalkAlone, Alternates, nativeVars, worldVars
  <2> QED BY <2>2, <2>3
<1> QED BY <1>1, <1>2, <1>3

LEMMA NativeSteps ==
  ASSUME Inv, NativeStarts \/ NativeRefused \/ NativeFails
  PROVE  Inv'
<1> USE TalkAssumption DEF Inv
<1>1. CASE NativeStarts
  <2>1. /\ hook' = NewHook(down, muteDown) /\ flight' = {}
        /\ native = "starting" /\ native' = "watching"
        /\ accepted' = 1 /\ mutesSeen' = 0 /\ reported' = 0 /\ ~held' /\ ~foregroundHeld'
        /\ UNCHANGED <<active, presses>>
    BY <1>1 DEF NativeStarts, Release, Hold, worldVars
  <2>2. hook' \in Hook
    <3>1. down \in BOOLEAN /\ muteDown \in BOOLEAN
      BY DEF TypeOK
    <3> QED BY <2>1, <3>1 DEF NewHook, Hook, Number
  <2>3. TypeOK'
    <3>1. 0 \in Number /\ 1 \in 0 .. 2 * MaxPresses + 1 /\ 0 \in 0 .. MaxPresses
      BY DEF Number
    <3>2. status' \in Status /\ held' = FALSE /\ foregroundHeld' = FALSE
      BY <1>1 DEF NativeStarts, Release, Hold, Status
    <3>3. UNCHANGED <<active, enabled, manualMuted, deafened, worldVars>>
      BY <1>1 DEF NativeStarts
    <3> QED BY <2>1, <2>2, <3>1, <3>2, <3>3 DEF TypeOK, worldVars
  <2>4. /\ hook'.sequence = 0 /\ hook'.pressed = FALSE /\ hook'.mutePressed = FALSE
        /\ hook'.talks = 0 /\ hook'.mutes = 0
    BY <2>1 DEF NewHook
  <2>5. Numbered' /\ TalkAlone'
    BY <2>1, <2>4 DEF Numbered, TalkAlone, Alternates, One, TypeOK
  <2>6. HeldOnlyInUse' /\ OnlyInCall'
    BY <2>1 DEF HeldOnlyInUse, OnlyInCall
  <2> QED BY <2>3, <2>5, <2>6
<1>2. CASE NativeRefused \/ NativeFails
  <2>1. /\ native' = "none" /\ ~held' /\ ~foregroundHeld'
        /\ UNCHANGED <<active, hook, presses>>
    BY <1>2 DEF NativeRefused, NativeFails, Release, Hold, worldVars
  <2>2. TypeOK'
    BY <1>2 DEF NativeRefused, NativeFails, Release, Hold, worldVars, TypeOK, Status
  <2>3. HeldOnlyInUse' /\ OnlyInCall' /\ Numbered' /\ TalkAlone'
    BY <2>1 DEF HeldOnlyInUse, OnlyInCall, Numbered, TalkAlone
  <2> QED BY <2>2, <2>3
<1> QED BY <1>1, <1>2

(* A snapshot that was sent, or is asked for, is accepted.                 *)
LEMMA AcceptSteps ==
  ASSUME Inv, native = "watching", NEW s \in Snapshot, Accept(s),
         hook' = hook, flight' \subseteq flight, UNCHANGED worldVars,
         TalkAlone /\ ~globalMute => Alternates(s)
  PROVE  Inv'
<1> USE DEF Inv
<1>1. TypeOK'
  BY AcceptKeeps DEF TypeOK, worldVars
<1>2. HeldOnlyInUse' /\ OnlyInCall'
  BY AcceptKeeps DEF OnlyInCall
<1>3. Numbered'
  BY DEF Numbered, worldVars
<1>4. ASSUME ~globalMute' PROVE mutesSeen' = 0 /\ 2 * reported' <= accepted'
  <2>1. ~globalMute /\ Alternates(s) /\ mutesSeen = 0 /\ 2 * reported <= accepted
    BY <1>4 DEF worldVars, TalkAlone
  <2>2. CASE s.sequence < accepted
    BY <2>1, <2>2 DEF Accept, nativeVars
  <2>3. CASE ~(s.sequence < accepted)
    <3>1. accepted' = s.sequence + 1 /\ mutesSeen' = s.mutes /\ reported' = s.talks
      BY <2>3 DEF Accept
    <3>2. s.sequence \in Nat /\ s.talks \in Nat
      BY TalkAssumption DEF Snapshot, Number
    <3> QED BY <2>1, <3>1, <3>2 DEF Alternates, One
  <2> QED BY <2>2, <2>3
<1>5. TalkAlone'
  BY <1>4 DEF TalkAlone, worldVars, Alternates
<1> QED BY <1>1, <1>2, <1>3, <1>5

LEMMA SnapshotSteps ==
  ASSUME Inv, Heartbeat \/ \E s \in flight : Deliver(s) \/ Lose(s)
  PROVE  Inv'
<1> USE DEF Inv
<1>1. CASE Heartbeat
  <2>1. Published(hook) \in Snapshot
    BY PublishedType DEF TypeOK
  <2>2. native = "watching" /\ Accept(Published(hook)) /\ UNCHANGED <<hook, flight, worldVars>>
    BY <1>1 DEF Heartbeat
  <2>3. TalkAlone /\ ~globalMute => Alternates(Published(hook))
    BY <2>2 DEF TalkAlone, Alternates, Published
  <2> QED BY <2>1, <2>2, <2>3, AcceptSteps
<1>2. ASSUME NEW s \in flight, Deliver(s) PROVE Inv'
  <2>1. s \in Snapshot
    BY DEF TypeOK
  <2>2. native = "watching" /\ Accept(s) /\ UNCHANGED <<hook, worldVars>> /\ flight' \subseteq flight
    BY <1>2 DEF Deliver
  <2>3. TalkAlone /\ ~globalMute => Alternates(s)
    BY <2>2 DEF TalkAlone
  <2> QED BY <2>1, <2>2, <2>3, AcceptSteps
<1>3. ASSUME NEW s \in flight, Lose(s) PROVE Inv'
  <2>1. /\ flight' = flight \ {s}
        /\ UNCHANGED <<gateVars, nativeVars, hook, worldVars, reported>>
    BY <1>3 DEF Lose
  <2>2. TypeOK'
    BY <2>1 DEF TypeOK, gateVars, nativeVars, worldVars
  <2> QED BY <2>1, <2>2 DEF HeldOnlyInUse, Numbered, OnlyInCall, TalkAlone, Alternates,
                            gateVars, nativeVars, worldVars
<1> QED BY <1>1, <1>2, <1>3

LEMMA TalkKeySteps ==
  ASSUME Inv, PressTalk \/ ReleaseTalk
  PROVE  Inv'
<1> USE DEF Inv
<1>1. PICK isDown \in BOOLEAN :
        /\ ObserveTalk(isDown) /\ down' = isDown /\ presses' = presses + One(isDown)
        /\ presses' \in 0 .. MaxPresses
        /\ UNCHANGED <<active, enabled, manualMuted, deafened, status, nativeVars, muteDown,
                       focused, editing, reported, globalMute>>
  <2>1. CASE PressTalk
    <3>1. presses' = presses + 1 /\ presses' \in 0 .. MaxPresses
      BY <2>1, TalkAssumption DEF PressTalk, TypeOK
    <3> QED BY <2>1, <3>1 DEF PressTalk, One
  <2>2. CASE ReleaseTalk
    <3>1. presses' = presses + 0 /\ presses' \in 0 .. MaxPresses
      BY <2>2, TalkAssumption DEF ReleaseTalk, TypeOK
    <3> QED BY <2>2, <3>1 DEF ReleaseTalk, One
  <2> QED BY <2>1, <2>2
<1>2. hook' \in Hook /\ flight' \subseteq Snapshot /\ Numbered'
  BY <1>1, ObserveTalkKeeps
<1>3. held' \in BOOLEAN /\ foregroundHeld' \in BOOLEAN /\ HeldOnlyInUse'
  <2>1. CASE PressTalk
    BY <2>1 DEF PressTalk, MayPress, Hold, HeldOnlyInUse, TypeOK
  <2>2. CASE ReleaseTalk
    BY <2>2 DEF ReleaseTalk, Release, Hold, HeldOnlyInUse, TypeOK
  <2> QED BY <2>1, <2>2
<1>4. TypeOK'
  BY <1>1, <1>2, <1>3 DEF TypeOK, nativeVars
<1>5. OnlyInCall'
  BY <1>1 DEF OnlyInCall, nativeVars
<1>6. TalkAlone'
  BY <1>1, ObserveTalkAlternates DEF TalkAlone, nativeVars, Alternates
<1> QED BY <1>2, <1>3, <1>4, <1>5, <1>6

LEMMA MuteKeySteps ==
  ASSUME Inv, PressMute \/ ReleaseMute
  PROVE  Inv'
<1> USE DEF Inv
<1>1. PICK isDown \in BOOLEAN :
        /\ ObserveMute(isDown) /\ muteDown' = isDown /\ presses' = presses + One(isDown)
        /\ presses' \in 0 .. MaxPresses
        /\ isDown => globalMute
        /\ UNCHANGED <<active, enabled, deafened, status, nativeVars, down,
                       focused, editing, reported, globalMute>>
  <2>1. CASE PressMute
    <3>1. presses' = presses + 1 /\ presses' \in 0 .. MaxPresses
      BY <2>1, TalkAssumption DEF PressMute, TypeOK
    <3> QED BY <2>1, <3>1 DEF PressMute, One
  <2>2. CASE ReleaseMute
    <3>1. presses' = presses + 0 /\ presses' \in 0 .. MaxPresses
      BY <2>2, TalkAssumption DEF ReleaseMute, TypeOK
    <3> QED BY <2>2, <3>1 DEF ReleaseMute, One, gateVars
  <2> QED BY <2>1, <2>2
<1>2. hook' \in Hook /\ flight' \subseteq Snapshot /\ Numbered'
  BY <1>1, ObserveMuteKeeps
<1>3. /\ held' \in BOOLEAN /\ foregroundHeld' \in BOOLEAN /\ manualMuted' \in BOOLEAN
      /\ HeldOnlyInUse'
  <2>1. CASE PressMute
    BY <2>1 DEF PressMute, Release, Hold, HeldOnlyInUse, TypeOK
  <2>2. CASE ReleaseMute
    BY <2>2 DEF ReleaseMute, gateVars, HeldOnlyInUse, TypeOK
  <2> QED BY <2>1, <2>2
<1>4. TypeOK'
  BY <1>1, <1>2, <1>3 DEF TypeOK, nativeVars
<1>5. OnlyInCall'
  BY <1>1 DEF OnlyInCall, nativeVars
<1>6. ASSUME native' = "watching", ~globalMute' PROVE TalkAlone'
  <2>1. native = "watching" /\ ~globalMute /\ isDown = FALSE /\ ~hook.mutePressed
    BY <1>1, <1>6 DEF TalkAlone, nativeVars
  <2> DEFINE next == [hook EXCEPT !.muteArmed = hook.muteArmed \/ ~isDown,
                                  !.mutePressed = (hook.muteArmed \/ ~isDown) /\ isDown]
  <2>2. hook \in Hook
    BY DEF TypeOK
  <2>3. next.mutePressed = hook.mutePressed
    BY <2>1, <2>2 DEF Hook
  <2>4. hook' = next /\ flight' = flight
    BY <1>1, <2>1, <2>3 DEF ObserveMute
  <2>5. /\ hook'.sequence = hook.sequence /\ hook'.pressed = hook.pressed
        /\ hook'.talks = hook.talks /\ hook'.mutes = hook.mutes
        /\ hook'.mutePressed = hook.mutePressed /\ hook'.armed = hook.armed
    BY <2>2, <2>3, <2>4 DEF Hook
  <2> QED BY <1>1, <2>1, <2>4, <2>5 DEF TalkAlone, Alternates, nativeVars
<1>7. TalkAlone'
  BY <1>6 DEF TalkAlone
<1> QED BY <1>2, <1>3, <1>4, <1>5, <1>7

LEMMA WindowSteps ==
  ASSUME Inv, Blur \/ Focus \/ Edit
  PROVE  Inv'
<1>1. /\ UNCHANGED <<active, enabled, manualMuted, deafened, status, nativeVars, hook, flight,
                     down, muteDown, presses, reported, globalMute>>
      /\ focused' \in BOOLEAN /\ editing' \in BOOLEAN
      /\ Release \/ UNCHANGED <<held, foregroundHeld>>
  BY DEF Inv, Blur, Focus, Edit, gateVars, TypeOK
<1>2. /\ held' \in BOOLEAN /\ foregroundHeld' \in BOOLEAN
      /\ HeldOnlyInUse'
  <2>1. CASE Release
    BY <2>1 DEF Release, Hold, HeldOnlyInUse
  <2>2. CASE UNCHANGED <<held, foregroundHeld>>
    BY <1>1, <2>2 DEF Inv, TypeOK, HeldOnlyInUse
  <2> QED BY <1>1, <2>1, <2>2
<1>3. Numbered' /\ OnlyInCall' /\ TalkAlone'
  BY <1>1 DEF Inv, Numbered, OnlyInCall, TalkAlone, Alternates, nativeVars
<1>4. TypeOK'
  BY <1>1, <1>2 DEF Inv, TypeOK, nativeVars
<1> QED BY <1>2, <1>3, <1>4 DEF Inv

LEMMA StepKeeps == Inv /\ [Next]_vars => Inv'
<1> SUFFICES ASSUME Inv, [Next]_vars PROVE Inv'
  OBVIOUS
<1>1. CASE UNCHANGED vars
  BY <1>1 DEF Inv, TypeOK, HeldOnlyInUse, Numbered, OnlyInCall, TalkAlone, Alternates,
              vars, gateVars, nativeVars, worldVars
<1>2. CASE Next
  BY <1>2, GateSteps, NativeSteps, SnapshotSteps, TalkKeySteps, MuteKeySteps, WindowSteps DEF Next
<1> QED BY <1>1, <1>2

LEMMA Invariant == Spec => []Inv
<1>1. Init => Inv
  BY Initially
<1>2. Inv /\ [Next]_vars => Inv'
  BY StepKeeps
<1> QED BY <1>1, <1>2, PTL DEF Spec

-----------------------------------------------------------------------------
(* Every variable keeps its type: no snapshot's number, and no count of    *)
(* what the hook has seen, outgrows the presses there were (accept).       *)
THEOREM TypeCorrect == Spec => []TypeOK
BY Invariant, PTL DEF Inv

(* The gate is held only in a call, with push-to-talk on and nothing       *)
(* muted, whatever the page, the hook and the settings do in between       *)
(* (CallMicrophone's update and everything that patches `held`).           *)
THEOREM HeldInUse == Spec => []HeldOnlyInUse
BY Invariant, PTL DEF Inv

(* An accepted snapshot opens the gate only when it tells of a new press.  *)
LEMMA AcceptOpens ==
  ASSUME Inv, native = "watching", NEW s \in Snapshot, Accept(s), ~globalMute, Alternates(s),
         ~Transmitting, Transmitting', enabled'
  PROVE  reported' > reported
<1> USE DEF Inv
<1>1. held' /\ ~manualMuted' /\ ~deafened' /\ active'
  BY DEF Transmitting
<1>2. CASE s.sequence < accepted
  BY <1>2 DEF Accept, Transmitting, gateVars
<1>3. CASE ~(s.sequence < accepted)
  <2>1. mutesSeen = 0 /\ s.mutes = 0 /\ 2 * reported <= accepted
    BY DEF TalkAlone, Alternates
  <2>2. ~MuteActs(s)
    BY <2>1 DEF MuteActs
  <2>3. /\ manualMuted' = (manualMuted # MuteActs(s))
        /\ UNCHANGED <<active, enabled, deafened>>
        /\ IF ~enabled \/ (s.pressed /\ s.focused)
           THEN IF MuteActs(s) THEN Release ELSE UNCHANGED <<held, foregroundHeld>>
           ELSE Hold(s.pressed /\ ~manualMuted' /\ ~deafened, foregroundHeld /\ ~s.pressed)
        /\ reported' = s.talks
    BY <1>3 DEF Accept
  <2>4. ~manualMuted
    BY <1>1, <2>2, <2>3 DEF TypeOK, MuteActs
  <2>5. ~held
    BY <1>1, <2>3, <2>4 DEF Transmitting
  <2>6. s.pressed
    BY <1>1, <2>2, <2>3, <2>5 DEF Hold
  <2>7. s.sequence \in Nat /\ s.talks \in Nat /\ accepted \in Nat /\ reported \in Nat
    BY TalkAssumption DEF Snapshot, Number, TypeOK
  <2> QED BY <1>3, <2>1, <2>3, <2>6, <2>7 DEF Alternates, One
<1> QED BY <1>2, <1>3

LEMMA StepOpens == Inv /\ [Next]_vars => [~globalMute => OpenedByAPress]_vars
<1> SUFFICES ASSUME Inv, Next, ~globalMute, ~Transmitting, Transmitting', enabled'
             PROVE  (~down /\ down') \/ reported' > reported
  BY DEF OpenedByAPress
<1>0. held' /\ ~manualMuted' /\ ~deafened' /\ active'
  BY DEF Transmitting
<1>1. CASE Start \/ Stop \/ SettingsChanged \/ ShortcutSettingsChanged
             \/ ToggleMute \/ ToggleDeafen \/ NativeStarts \/ NativeRefused \/ NativeFails
  BY <1>0, <1>1 DEF Start, Stop, SettingsChanged, ShortcutSettingsChanged, ToggleMute,
                    ToggleDeafen, NativeStarts, NativeRefused, NativeFails, Release, Hold
<1>2. CASE Heartbeat
  <2>1. Published(hook) \in Snapshot
    BY PublishedType DEF Inv, TypeOK
  <2>2. native = "watching" /\ Accept(Published(hook))
    BY <1>2 DEF Heartbeat
  <2>3. Alternates(Published(hook))
    BY <2>2 DEF Inv, TalkAlone, Alternates, Published
  <2> QED BY <2>1, <2>2, <2>3, AcceptOpens
<1>3. ASSUME NEW s \in flight, Deliver(s) PROVE reported' > reported
  <2>1. s \in Snapshot
    BY DEF Inv, TypeOK
  <2>2. native = "watching" /\ Accept(s)
    BY <1>3 DEF Deliver
  <2>3. Alternates(s)
    BY <2>2 DEF Inv, TalkAlone
  <2> QED BY <2>1, <2>2, <2>3, AcceptOpens
<1>4. CASE ReleaseMute \/ Focus \/ \E s \in flight : Lose(s)
  BY <1>4 DEF ReleaseMute, Focus, Lose, gateVars, Transmitting
<1>5. CASE ReleaseTalk \/ Blur \/ Edit
  BY <1>0, <1>5 DEF ReleaseTalk, Blur, Edit, Release, Hold, Transmitting
<1>6. CASE PressTalk \/ PressMute
  BY <1>6 DEF PressTalk, PressMute
<1> QED BY <1>1, <1>2, <1>3, <1>4, <1>5, <1>6 DEF Next

(* As long as no global shortcut can lift the mute, the microphone opens   *)
(* only as the talk key is pressed, or as the page learns of a press:      *)
(* not when the call starts with the key down, nor by unmuting             *)
(* (NativePushToTalk.accept drops what is not news; toggleMute releases).  *)
THEOREM OpensAlone == Spec => OpensOnAPressAlone
<1>1. Inv /\ [Next]_vars => [~globalMute => OpenedByAPress]_vars
  BY StepOpens
<1> QED BY <1>1, Invariant, PTL DEF Spec, OpensOnAPressAlone

-----------------------------------------------------------------------------
(* DraftSync                                                               *)

(* What is dirty, and could be written, but has no timer set, and is not   *)
(* being sent by a message that will not leave it behind.                  *)
Untimed(r) ==
  /\ r.ready /\ r.dirty /\ ~r.error /\ r.conflict = None /\ r.write = Idle /\ ~r.timer
  /\ ~(r.sending.stage # "idle" /\ r.sending.text = r.body /\ r.sending.clears = None)

(* That is so only while a refresh is about to read the draft, or has      *)
(* failed to; and no older draft is on its way, which would be ignored and *)
(* leave it so.                                                            *)
Scheduled(r) ==
  Untimed(r) =>
    /\ r.refresh # Idle \/ r.unread
    /\ r.read.stage = "answered" => r.read.value.version >= r.version

(* Before the setting is known: no timer, and one request at a time, for   *)
(* only a message writes, and it reads first.                              *)
Window(r) ==
  ~r.setting =>
    /\ ~r.timer
    /\ r.refresh # Idle \/ r.unread
    /\ r.refresh.stage \notin {"answered", "waits"}
    /\ r.write # Idle => r.ready /\ r.sending.stage = "writing"
    /\ r.write.stage \in {"sent", "answered"} => r.read = Idle
    /\ r.read.stage = "answered" => r.read.value.version >= r.version

(* No device is ahead of the server, whose version is n.                   *)
Behind(r, n) ==
  /\ r.version <= n
  /\ r.read.stage = "answered" => r.read.value.version <= n
  /\ r.write.stage = "answered" => r.write.value.version <= n
  /\ r.refresh.stage = "answered" /\ r.refresh.value # None => r.refresh.value.version <= n

Apt(r, n) == Window(r) /\ Behind(r, n)

(* What a request carries at each of its stages.                           *)
Carried(r) ==
  /\ r.write.stage = "sent" => r.write.value \in Mutation
  /\ r.write.stage = "answered" => r.write.value \in Draft
  /\ r.read.stage = "answered" => r.read.value \in Draft
  /\ r.refresh.stage = "answered" => r.refresh.value \in Draft \cup {None}

(* A device that writes over a version has been shown it.                  *)
Shown(r) ==
  /\ r.remote # None /\ r.remote.version = r.version
  /\ r.mutation # None => r.mutation.version <= r.version
  /\ r.write.stage = "sent" => r.write.value.version <= r.version

Sane(r) == r \in Entry /\ Carried(r) /\ Shown(r)

(* The mutations a device may still have written.                          *)
Repeats(r) ==
  (IF r.mutation # None THEN {r.mutation.id} ELSE {})
    \cup (IF r.write.stage = "sent" THEN {r.write.value.id} ELSE {})

(* What a step of a device makes of them: no more than there were, or a    *)
(* new one in their place.                                                 *)
Draws(r, q) ==
  \/ Repeats(q) \subseteq Repeats(r)
  \/ q.mutation # None /\ Repeats(q) = {minted + 1}

LEMMA Requests ==
  /\ Idle \in Request /\ Sent(None) \in Request
  /\ \A m \in Mutation : Sent(m) \in Request /\ Sent(m).stage = "sent" /\ Sent(m).value = m
  /\ \A x \in Draft : [stage |-> "answered", value |-> x] \in Request
  /\ [stage |-> "answered", value |-> None] \in Request
  /\ [stage |-> "waits", value |-> None] \in Request
  /\ [stage |-> "refused", value |-> None] \in Request
  /\ Idle.stage = "idle" /\ Sent(None).stage = "sent" /\ Sent(None).value = None
  /\ \A m \in Mutation : Sent(m) # Idle
  /\ Sent(None) # Idle
BY DEF Idle, Sent, Request, Stage

LEMMA Sendings ==
  /\ NotSending \in Sending /\ NotSending.stage = "idle"
  /\ \A t \in Body : [stage |-> "loading", text |-> t, clears |-> None] \in Sending
  /\ \A s \in Sending : \A stage \in Stage : \A c \in Nat \cup {None} :
       /\ [s EXCEPT !.stage = stage] \in Sending
       /\ [s EXCEPT !.stage = stage, !.clears = c] \in Sending
BY DEF NotSending, Sending, Stage, Body

LEMMA ScheduleSane ==
  ASSUME NEW r, Sane(r), NEW n, Apt(r, n)
  PROVE  /\ Sane(schedule(r)) /\ Scheduled(schedule(r)) /\ Repeats(schedule(r)) = Repeats(r)
         /\ Apt(schedule(r), n) /\ (r.setting => ~Untimed(schedule(r)))
         /\ schedule(r).setting = r.setting /\ schedule(r).unread = r.unread
         /\ schedule(r).write = r.write /\ schedule(r).read = r.read
         /\ schedule(r).refresh = r.refresh /\ schedule(r).sending = r.sending
<1> DEFINE b == r.setting /\ r.ready /\ r.dirty /\ ~r.error /\ r.conflict = None /\ r.write = Idle
<1>1. r \in Entry
  BY DEF Sane
<1>2. PICK t \in BOOLEAN : t = b
  BY Zenon
<1>3. schedule(r) = [r EXCEPT !.timer = t]
  BY <1>2 DEF schedule
<1>4. [r EXCEPT !.timer = t] \in Entry
  BY <1>1 DEF Entry
<1>5. /\ schedule(r).timer = t
      /\ schedule(r).body = r.body /\ schedule(r).version = r.version
      /\ schedule(r).ready = r.ready /\ schedule(r).dirty = r.dirty
      /\ schedule(r).error = r.error /\ schedule(r).conflict = r.conflict
      /\ schedule(r).remote = r.remote /\ schedule(r).mutation = r.mutation
      /\ schedule(r).read = r.read /\ schedule(r).refresh = r.refresh
      /\ schedule(r).write = r.write /\ schedule(r).sending = r.sending
      /\ schedule(r).setting = r.setting /\ schedule(r).unread = r.unread
  BY <1>1, <1>3 DEF Entry
<1>6. /\ Apt(schedule(r), n) /\ (r.setting => ~Untimed(schedule(r)))
      /\ Scheduled(schedule(r))
  <2>1. Apt(schedule(r), n)
    BY <1>2, <1>5 DEF Apt, Window, Behind
  <2>2. r.setting => ~Untimed(schedule(r))
    BY <1>2, <1>5 DEF Untimed
  <2>3. ~r.setting => Scheduled(schedule(r))
    BY <1>5 DEF Apt, Window, Scheduled
  <2> QED BY <2>1, <2>2, <2>3 DEF Scheduled
<1>7. Carried(schedule(r)) /\ Shown(schedule(r)) /\ Repeats(schedule(r)) = Repeats(r)
  BY <1>5 DEF Sane, Carried, Shown, Repeats
<1> QED BY <1>3, <1>4, <1>5, <1>6, <1>7 DEF Sane

(* What the cases of receiveTextDraft have in common.                      *)
Received(r, x, q) ==
  /\ q \in Entry
  /\ q.remote = x /\ q.version = x.version
  /\ q.mutation \in {r.mutation, None}
  /\ q.write = r.write /\ q.read = r.read /\ q.refresh = r.refresh /\ q.sending = r.sending
  /\ q.setting = r.setting /\ q.unread = r.unread /\ q.timer = r.timer /\ (r.ready => q.ready)

LEMMA ReceivedSane ==
  ASSUME DraftAssumption, NEW r, Sane(r), NEW x \in Draft, x.version >= r.version,
         NEW n, Apt(r, n), x.version <= n, r.setting \/ r.read = Idle,
         NEW q, Received(r, x, q)
  PROVE  Sane(q) /\ Apt(q, n) /\ Repeats(q) \subseteq Repeats(r)
<1>1. Carried(q)
  BY DEF Sane, Carried, Received
<1>2. x.version \in Nat /\ r.version \in Nat /\ x # None
  BY DEF DraftAssumption, Draft, Sane, Entry
<1>3. Shown(q)
  <2>1. r.mutation # None => r.mutation.version \in Nat
    BY DEF Sane, Entry, Mutation
  <2>2. r.write.stage = "sent" => r.write.value.version \in Nat
    BY DEF Sane, Carried, Mutation
  <2> QED BY <1>2, <2>1, <2>2 DEF Sane, Shown, Received
<1>4. Repeats(q) \subseteq Repeats(r)
  BY DEF Repeats, Received
<1>5. Apt(q, n)
  BY Requests DEF Apt, Window, Behind, Received
<1> QED BY <1>1, <1>3, <1>4, <1>5 DEF Sane, Received

LEMMA CasesReceived ==
  ASSUME NEW r \in Entry, NEW x \in Draft
  PROVE  /\ r.version = x.version => Received(r, x, [r EXCEPT !.remote = x, !.error = FALSE])
         /\ Received(r, x, Agreed(r, x)) /\ Received(r, x, Acknowledged(r, x))
         /\ Received(r, x, AdoptedQuietly(r, x)) /\ Received(r, x, Conflicting(r, x))
         /\ Received(r, x, Replaced(r, x))
<1>0. x.version \in Nat /\ x.body \in Body
  BY DEF Draft
<1>1. r.version = x.version => Received(r, x, [r EXCEPT !.remote = x, !.error = FALSE])
  BY DEF Received, Entry
<1>2. Received(r, x, Agreed(r, x))
  BY <1>0 DEF Received, Entry, Agreed
<1>3. Received(r, x, Acknowledged(r, x))
  BY <1>0 DEF Received, Entry, Acknowledged
<1>4. Received(r, x, AdoptedQuietly(r, x))
  BY <1>0 DEF Received, Entry, Acknowledged, AdoptedQuietly
<1>5. Received(r, x, Conflicting(r, x))
  <2>1. AdoptedQuietly(r, x) \in Entry
    BY <1>4 DEF Received
  <2>2. Conflicting(r, x) \in Entry
    BY <2>1 DEF Conflicting, Entry
  <2> QED BY <2>1, <2>2, <1>4 DEF Received, Conflicting, Entry
<1>6. Received(r, x, Replaced(r, x))
  <2>1. Agreed(r, x) \in Entry
    BY <1>2 DEF Received
  <2>2. Replaced(r, x) \in Entry
    BY <1>0, <2>1 DEF Replaced, Entry
  <2> QED BY <2>1, <2>2, <1>2 DEF Received, Replaced, Entry
<1> QED BY <1>1, <1>2, <1>3, <1>4, <1>5, <1>6

(* A draft from the server leaves an entry sane and what is dirty          *)
(* scheduled, and moves no request.                                        *)
LEMMA ReceiveSane ==
  ASSUME DraftAssumption, NEW r, Sane(r), NEW x \in Draft,
         NEW n, Apt(r, n), x.version <= n, r.setting \/ r.read = Idle
  PROVE  LET q == receiveTextDraft(r, x) IN
         /\ Sane(q) /\ Apt(q, n) /\ Repeats(q) \subseteq Repeats(r)
         /\ Scheduled(r) => Scheduled(q)
         /\ r.setting /\ (Untimed(r) => x.version >= r.version) => ~Untimed(q)
         /\ q.setting = r.setting /\ q.unread = r.unread
         /\ q.write = r.write /\ q.read = r.read /\ q.refresh = r.refresh /\ q.sending = r.sending
<1> DEFINE q == receiveTextDraft(r, x)
<1>0. x.version \in Nat /\ r.version \in Nat /\ r \in Entry
  BY DEF Draft, Sane, Entry
<1>1. CASE x.version < r.version
  <2>1. q = r
    BY <1>1 DEF receiveTextDraft
  <2> QED BY <1>0, <1>1, <2>1
<1>2. CASE ~(x.version < r.version)
  <2>1. PICK p : q = schedule(p) /\ Received(r, x, p)
    <3>1. \/ r.version = x.version /\ q = schedule([r EXCEPT !.remote = x, !.error = FALSE])
          \/ q = schedule(Agreed(r, x)) \/ q = schedule(Acknowledged(r, x))
          \/ q = schedule(AdoptedQuietly(r, x)) \/ q = schedule(Conflicting(r, x))
          \/ q = schedule(Replaced(r, x))
      BY <1>2 DEF receiveTextDraft
    <3> QED BY <1>0, <3>1, CasesReceived
  <2>2. Sane(p) /\ Apt(p, n) /\ Repeats(p) \subseteq Repeats(r)
    BY <1>0, <1>2, <2>1, ReceivedSane
  <2> QED BY <2>1, <2>2, ScheduleSane DEF Received
<1> QED BY <1>1, <1>2

LEMMA WriteSane ==
  ASSUME DraftAssumption, minted \in Nat, NEW r, Sane(r)
  PROVE  LET q == write(r) IN
         /\ Sane(q) /\ Draws(r, q)
         /\ q.read = r.read /\ q.refresh = r.refresh /\ q.sending = r.sending
         /\ q.setting = r.setting /\ q.unread = r.unread /\ q.timer = r.timer
         /\ q.ready = r.ready /\ q.version = r.version
         /\ MayWrite(r) => q.write # Idle /\ q.write.stage = "sent"
         /\ ~MayWrite(r) => q = r
<1> DEFINE m == NextMutation(r)
           q == write(r)
<1>0. r \in Entry
  BY DEF Sane
<1>1. CASE ~MayWrite(r)
  <2>1. q = r
    BY <1>1 DEF write
  <2> QED BY <1>1, <2>1 DEF Draws
<1>2. CASE MayWrite(r)
  <2>1. m \in Mutation /\ m.version <= r.version
    <3>1. CASE r.mutation # None
      BY <1>0, <3>1 DEF NextMutation, Entry, Sane, Shown
    <3>2. CASE r.mutation = None
      BY <1>0, <3>2 DEF NextMutation, Entry, Mutation
    <3> QED BY <3>1, <3>2
  <2>2. \/ r.mutation # None /\ m = r.mutation
        \/ m.id = minted + 1
    BY DEF NextMutation
  <2>3. q = [r EXCEPT !.mutation = m, !.error = FALSE, !.write = Sent(m)]
    BY <1>2 DEF write
  <2> HIDE DEF m
  <2>4. q \in Entry
    <3>1. Sent(m) \in Request
      BY <2>1, Requests
    <3>2. m \in Mutation \cup {None} /\ FALSE \in BOOLEAN
      BY <2>1
    <3> QED BY <1>0, <2>3, <3>1, <3>2 DEF Entry
  <2>5. /\ q.mutation = m /\ q.write = Sent(m) /\ q.remote = r.remote /\ q.version = r.version
        /\ q.read = r.read /\ q.refresh = r.refresh /\ q.sending = r.sending
        /\ q.setting = r.setting /\ q.unread = r.unread /\ q.timer = r.timer /\ q.ready = r.ready
    BY <1>0, <2>3 DEF Entry
  <2> HIDE DEF q
  <2>6. m # None
    BY <2>1 DEF DraftAssumption
  <2>7. Sent(m).stage = "sent" /\ Sent(m).value = m /\ Sent(m) # Idle
    BY <2>1, Requests
  <2>8. Sane(q)
    BY <2>1, <2>4, <2>5, <2>6, <2>7 DEF Sane, Carried, Shown
  <2>10. Draws(r, q)
    <3>1. Repeats(q) = {m.id}
      BY <2>5, <2>6, <2>7 DEF Repeats
    <3> QED BY <2>2, <2>5, <2>6, <3>1 DEF Draws, Repeats
  <2> QED BY <2>5, <2>7, <2>8, <2>10, <1>2 DEF q
<1> QED BY <1>1, <1>2

(* The stage of a send moves; nothing else of the entry does.              *)
Moves(r, q, stage) ==
  /\ q \in Entry
  /\ q.sending.stage = stage /\ q.sending.text = r.sending.text
  /\ q.read = r.read /\ q.refresh = r.refresh /\ q.write = r.write
  /\ q.ready = r.ready /\ q.dirty = r.dirty /\ q.error = r.error
  /\ q.conflict = r.conflict /\ q.timer = r.timer /\ q.body = r.body
  /\ q.mutation = r.mutation /\ q.remote = r.remote /\ q.version = r.version
  /\ q.setting = r.setting /\ q.unread = r.unread

LEMMA MovesSane ==
  ASSUME NEW r, Sane(r), NEW q, NEW stage, Moves(r, q, stage), NEW n
  PROVE  /\ Sane(q) /\ Repeats(q) = Repeats(r)
         /\ Apt(r, n) /\ (r.setting \/ r.write = Idle) => Apt(q, n)
BY DEF Sane, Carried, Shown, Repeats, Moves, Apt, Window, Behind

LEMMA SubmittedSane ==
  ASSUME NEW r, Sane(r), NEW n, Apt(r, n), r.setting \/ r.write = Idle
  PROVE  LET q == Submitted(r) IN
         /\ Sane(q) /\ Apt(q, n) /\ Repeats(q) = Repeats(r) /\ q.sending.stage = "posting"
         /\ Scheduled(r) => Scheduled(q)
         /\ q.read = r.read /\ q.refresh = r.refresh
<1> DEFINE c == IF r.dirty \/ r.conflict # None \/ r.error THEN None ELSE r.version
<1>1. r \in Entry /\ r.sending \in Sending /\ c \in Nat \cup {None} /\ "posting" \in Stage
  BY DEF Sane, Entry, Stage
<1>2. r.dirty => c = None
  OBVIOUS
<1>3. PICK q : q = [r EXCEPT !.sending.stage = "posting", !.sending.clears = c]
  OBVIOUS
<1>4. q = Submitted(r)
  BY <1>3 DEF Submitted
<1> HIDE DEF c
<1>5. Moves(r, q, "posting") /\ q.sending.clears = c
  BY <1>1, <1>3 DEF Entry, Sending, Moves
<1>6. Scheduled(r) => Scheduled(q)
  BY <1>2, <1>5 DEF Scheduled, Untimed, Moves
<1> QED BY <1>4, <1>5, <1>6, MovesSane DEF Moves

LEMMA Unwritable ==
  ASSUME NEW r, ~MayWrite(r) PROVE Scheduled(r)
BY DEF MayWrite, Scheduled, Untimed

LEMMA WriteSubmittedSane ==
  ASSUME DraftAssumption, minted \in Nat, NEW r, Sane(r), NEW n, Apt(r, n),
         r.setting \/ (r.write = Idle /\ r.read = Idle)
  PROVE  LET q == WriteSubmitted(r) IN
         /\ Sane(q) /\ Apt(q, n) /\ Draws(r, q) /\ Scheduled(q)
         /\ q.read = r.read /\ q.refresh = r.refresh /\ q.sending.stage \in {"writing", "posting"}
<1>1. CASE MayWrite(r)
  <2>1. PICK p : p = write(r)
    OBVIOUS
  <2>2. /\ Sane(p) /\ Draws(r, p) /\ p.write # Idle /\ p.write.stage = "sent"
        /\ p.read = r.read /\ p.refresh = r.refresh /\ p.timer = r.timer /\ p.ready
        /\ p.version = r.version /\ p.setting = r.setting /\ p.unread = r.unread
    BY <1>1, <2>1, WriteSane DEF MayWrite
  <2>3. PICK q : q = [p EXCEPT !.sending.stage = "writing"]
    OBVIOUS
  <2>4. q = WriteSubmitted(r)
    BY <1>1, <2>1, <2>3 DEF WriteSubmitted
  <2>5. p \in Entry /\ p.sending \in Sending /\ "writing" \in Stage
    BY <2>2 DEF Sane, Entry, Stage
  <2>6. Moves(p, q, "writing")
    BY <2>3, <2>5 DEF Entry, Sending, Moves
  <2>7. Apt(q, n)
    BY <2>2, <2>6, Requests DEF Apt, Window, Behind, Moves
  <2> QED BY <2>2, <2>4, <2>6, <2>7, MovesSane DEF Scheduled, Untimed, Draws, Moves
<1>2. CASE ~MayWrite(r)
  <2>1. WriteSubmitted(r) = Submitted(r)
    BY <1>2 DEF WriteSubmitted
  <2> QED BY <1>2, <2>1, SubmittedSane, Unwritable DEF Draws
<1> QED BY <1>1, <1>2

LEMMA ReadSubmittedSane ==
  ASSUME DraftAssumption, minted \in Nat, NEW r, Sane(r), NEW n, Apt(r, n),
         r.read = Idle, r.sending.stage = "loading"
  PROVE  LET q == ReadSubmitted(r) IN Sane(q) /\ Apt(q, n) /\ Draws(r, q) /\ Scheduled(q)
<1>a. r.setting \/ r.write = Idle
  BY DEF Apt, Window
<1>0. r \in Entry /\ r.sending \in Sending /\ "posting" \in Stage /\ "queued" \in Stage
  BY DEF Sane, Entry, Stage
<1>1. CASE r.conflict # None
  <2>1. PICK q : q = [r EXCEPT !.sending.stage = "posting", !.sending.clears = None]
    OBVIOUS
  <2>2. q = ReadSubmitted(r)
    BY <1>1, <2>1 DEF ReadSubmitted
  <2>3. Moves(r, q, "posting")
    BY <1>0, <2>1 DEF Entry, Sending, Moves
  <2> QED BY <1>a, <1>1, <2>2, <2>3, MovesSane DEF Scheduled, Untimed, Draws, Moves
<1>2. CASE r.conflict = None /\ r.write # Idle
  <2>1. PICK q : q = [r EXCEPT !.sending.stage = "queued"]
    OBVIOUS
  <2>2. q = ReadSubmitted(r)
    BY <1>2, <2>1 DEF ReadSubmitted
  <2>3. Moves(r, q, "queued")
    BY <1>0, <2>1 DEF Entry, Sending, Moves
  <2> QED BY <1>a, <1>2, <2>2, <2>3, MovesSane DEF Scheduled, Untimed, Draws, Moves
<1>3. CASE r.conflict = None /\ r.write = Idle
  <2>1. ReadSubmitted(r) = WriteSubmitted(r)
    BY <1>3 DEF ReadSubmitted
  <2> QED BY <1>3, <2>1, WriteSubmittedSane
<1> QED BY <1>1, <1>2, <1>3

(* A send that is still reading when a write ends goes on reading.         *)
LEMMA AfterWriteSane ==
  ASSUME DraftAssumption, minted \in Nat, NEW r, Sane(r), Scheduled(r), NEW n, Apt(r, n),
         r.setting \/ (r.write = Idle /\ r.sending.stage = "writing")
  PROVE  LET q == AfterWrite(r) IN
         /\ Sane(q) /\ Apt(q, n) /\ Draws(r, q) /\ Scheduled(q)
         /\ q.read = r.read /\ q.refresh = r.refresh
         /\ r.sending.stage = "loading" => q = r
<1>1. CASE r.sending.stage = "queued"
  <2>1. AfterWrite(r) = WriteSubmitted(r)
    BY <1>1 DEF AfterWrite
  <2> QED BY <1>1, <2>1, WriteSubmittedSane
<1>2. CASE r.sending.stage = "writing"
  <2>1. AfterWrite(r) = Submitted(r)
    BY <1>2 DEF AfterWrite
  <2> QED BY <1>2, <2>1, SubmittedSane DEF Draws
<1>3. CASE r.sending.stage \notin {"queued", "writing"}
  <2>1. AfterWrite(r) = r
    BY <1>3 DEF AfterWrite
  <2> QED BY <2>1 DEF Draws
<1> QED BY <1>1, <1>2, <1>3

LEMMA WriteEndsSane ==
  ASSUME DraftAssumption, minted \in Nat, NEW r, Sane(r), NEW n, Apt(r, n), r.write # Idle
  PROVE  LET q == WriteEnds(r) IN
         /\ Sane(q) /\ Apt(q, n) /\ Draws(r, q) /\ Scheduled(q)
         /\ q.read = r.read /\ q.refresh = r.refresh
         /\ r.sending.stage = "loading" =>
              Repeats(q) \subseteq Repeats(r) /\ q.sending = r.sending
<1> DEFINE p == [r EXCEPT !.write = Idle]
<1>1. r \in Entry /\ Idle \in Request /\ Idle.stage = "idle"
  BY Requests DEF Sane
<1>2. p \in Entry
  BY <1>1 DEF Entry
<1>3. /\ p.write = Idle /\ p.read = r.read /\ p.refresh = r.refresh /\ p.mutation = r.mutation
      /\ p.remote = r.remote /\ p.version = r.version /\ p.sending = r.sending
      /\ p.setting = r.setting /\ p.unread = r.unread /\ p.timer = r.timer
  BY <1>1 DEF Entry
<1>4. WriteEnds(r) = AfterWrite(schedule(p))
  BY DEF WriteEnds
<1> HIDE DEF p
<1>5. Sane(p) /\ Repeats(p) \subseteq Repeats(r)
  BY <1>1, <1>2, <1>3 DEF Sane, Carried, Shown, Repeats
<1>5a. Apt(p, n)
  BY <1>1, <1>3 DEF Apt, Window, Behind
<1>5b. p.setting \/ p.sending.stage = "writing"
  BY <1>3 DEF Apt, Window
<1>6. PICK c : c = schedule(p)
  OBVIOUS
<1>7. /\ Sane(c) /\ Apt(c, n) /\ Scheduled(c) /\ Repeats(c) \subseteq Repeats(r)
      /\ c.read = r.read /\ c.refresh = r.refresh /\ c.write = Idle
      /\ c.sending = r.sending /\ c.setting = r.setting
  BY <1>3, <1>5, <1>5a, <1>6, ScheduleSane
<1>8. /\ Sane(AfterWrite(c)) /\ Apt(AfterWrite(c), n)
      /\ Draws(c, AfterWrite(c)) /\ Scheduled(AfterWrite(c))
      /\ AfterWrite(c).read = c.read /\ AfterWrite(c).refresh = c.refresh
      /\ c.sending.stage = "loading" => AfterWrite(c) = c
  BY <1>3, <1>5b, <1>7, AfterWriteSane
<1>9. Draws(r, AfterWrite(c))
  BY <1>7, <1>8 DEF Draws
<1> QED BY <1>4, <1>6, <1>7, <1>8, <1>9

LEMMA AfterReadSane ==
  ASSUME DraftAssumption, minted \in Nat, NEW r, Sane(r), Scheduled(r), NEW n, Apt(r, n),
         r.read = Idle, r.refresh.stage = "waits" => ~Untimed(r)
  PROVE  LET q == AfterRead(r) IN Sane(q) /\ Apt(q, n) /\ Draws(r, q) /\ Scheduled(q)
<1> DEFINE f == IF r.refresh.stage = "waits" THEN [r EXCEPT !.refresh = Idle] ELSE r
           w == IF r.write.stage = "waits" THEN WriteEnds(f) ELSE f
<1>1. r \in Entry /\ Idle \in Request /\ Idle.stage = "idle"
  BY Requests DEF Sane
<1>2. /\ Sane(f) /\ Apt(f, n) /\ Scheduled(f) /\ Repeats(f) = Repeats(r)
      /\ f.sending = r.sending /\ f.read = Idle /\ f.write = r.write
  <2>1. CASE r.refresh.stage # "waits"
    BY <2>1
  <2>2. CASE r.refresh.stage = "waits"
    <3>1. f = [r EXCEPT !.refresh = Idle]
      BY <2>2
    <3>2. f \in Entry
      BY <1>1, <3>1 DEF Entry
    <3>3. /\ f.refresh = Idle /\ f.read = r.read /\ f.write = r.write /\ f.mutation = r.mutation
          /\ f.remote = r.remote /\ f.version = r.version /\ f.sending = r.sending
          /\ f.ready = r.ready /\ f.dirty = r.dirty /\ f.error = r.error
          /\ f.conflict = r.conflict /\ f.timer = r.timer /\ f.body = r.body
          /\ f.setting = r.setting /\ f.unread = r.unread
      BY <1>1, <3>1 DEF Entry
    <3> HIDE DEF f
    <3>4. Sane(f) /\ Repeats(f) = Repeats(r)
      BY <1>1, <3>2, <3>3 DEF Sane, Carried, Shown, Repeats
    <3>5. Apt(f, n)
      BY <1>1, <2>2, <3>3 DEF Apt, Window, Behind
    <3>6. Scheduled(f)
      BY <2>2, <3>3 DEF Scheduled, Untimed
    <3> QED BY <3>3, <3>4, <3>5, <3>6
  <2> QED BY <2>1, <2>2
<1>3. AfterRead(r) = IF r.sending.stage = "loading" THEN ReadSubmitted(w) ELSE w
  BY DEF AfterRead
<1> HIDE DEF f
<1>4. /\ Sane(w) /\ Apt(w, n) /\ Scheduled(w) /\ Draws(f, w) /\ w.read = Idle
      /\ r.sending.stage = "loading" => Repeats(w) \subseteq Repeats(f) /\ w.sending = r.sending
  BY <1>1, <1>2, WriteEndsSane DEF Draws
<1> HIDE DEF w
<1>5. CASE r.sending.stage = "loading"
  BY <1>2, <1>3, <1>4, <1>5, ReadSubmittedSane DEF Draws
<1>6. CASE r.sending.stage # "loading"
  BY <1>2, <1>3, <1>4, <1>6 DEF Draws
<1> QED BY <1>5, <1>6

(* Edits of an entry that neither bring a version nor send a mutation.     *)
Kept(r, q) ==
  /\ q \in Entry /\ Carried(q)
  /\ q.remote = r.remote /\ q.version = r.version
  /\ q.mutation \in {r.mutation, None}
  /\ q.write = r.write \/ q.write.stage # "sent"

LEMMA KeptSane ==
  ASSUME NEW r, Sane(r), NEW q, Kept(r, q)
  PROVE  Sane(q) /\ Repeats(q) \subseteq Repeats(r) /\ Draws(r, q)
BY DEF Sane, Shown, Kept, Repeats, Draws

LEMMA LoadSane ==
  ASSUME NEW r, Sane(r), NEW n, Apt(r, n),
         r.setting \/ r.write.stage \notin {"sent", "answered"}
  PROVE  LET q == loadTextDraft(r) IN
         Sane(q) /\ Apt(q, n) /\ Repeats(q) = Repeats(r) /\ (Scheduled(r) => Scheduled(q))
<1>1. CASE r.read = Idle
  <2>1. r \in Entry /\ Sent(None) \in Request /\ Sent(None).stage = "sent"
    BY Requests DEF Sane
  <2>2. PICK q : q = [r EXCEPT !.read = Sent(None)]
    OBVIOUS
  <2>3. q = loadTextDraft(r)
    BY <1>1, <2>2 DEF loadTextDraft
  <2>4. /\ q \in Entry /\ q.read = Sent(None) /\ q.refresh = r.refresh /\ q.write = r.write
        /\ q.mutation = r.mutation /\ q.remote = r.remote /\ q.version = r.version
        /\ q.sending = r.sending /\ q.ready = r.ready /\ q.dirty = r.dirty /\ q.error = r.error
        /\ q.conflict = r.conflict /\ q.timer = r.timer /\ q.body = r.body
        /\ q.setting = r.setting /\ q.unread = r.unread
    BY <2>1, <2>2 DEF Entry
  <2>5. Sane(q) /\ Repeats(q) = Repeats(r)
    BY <2>1, <2>4 DEF Sane, Carried, Shown, Repeats
  <2>6. Apt(q, n) /\ (Scheduled(r) => Scheduled(q))
    BY <2>1, <2>4 DEF Apt, Window, Behind, Scheduled, Untimed
  <2> QED BY <2>3, <2>5, <2>6
<1>2. CASE r.read # Idle
  <2>1. loadTextDraft(r) = r
    BY <1>2 DEF loadTextDraft
  <2> QED BY <2>1
<1> QED BY <1>1, <1>2

-----------------------------------------------------------------------------
(* The devices: sane, scheduled, none of them ahead of the server, and no  *)
(* two of them with a mutation in common.                                  *)
Devices ==
  /\ \A d \in Device : Sane(dev[d]) /\ Scheduled(dev[d]) /\ Apt(dev[d], draft.version)
  /\ \A d \in Device : \A n \in Repeats(dev[d]) : n \in Nat /\ n <= minted
  /\ \A d, e \in Device : d # e => Repeats(dev[d]) \cap Repeats(dev[e]) = {}

DraftInv == DraftTypeOK /\ Devices

(* The server's version grows, and leaves everybody behind it.             *)
LEMMA AheadOfAll ==
  ASSUME DraftInv, NEW n \in Nat, draft.version <= n
  PROVE  \A e \in Device : Apt(dev[e], n)
<1> SUFFICES ASSUME NEW e \in Device PROVE Apt(dev[e], n)
  OBVIOUS
<1> DEFINE r == dev[e]
<1>1. /\ Apt(r, draft.version) /\ Carried(r) /\ r.version \in Nat /\ draft.version \in Nat
  BY DEF DraftInv, DraftTypeOK, Devices, Sane, Entry, Draft
<1>2. /\ r.read.stage = "answered" => r.read.value.version \in Nat
      /\ r.write.stage = "answered" => r.write.value.version \in Nat
      /\ r.refresh.stage = "answered" /\ r.refresh.value # None => r.refresh.value.version \in Nat
  BY <1>1 DEF Carried, Draft
<1> QED BY <1>1, <1>2 DEF Apt, Behind

(* A device may become what is sane, scheduled, not ahead of the server,   *)
(* and repeats what it did, or a mutation that was drawn for it.           *)
LEMMA BecomesKeeps ==
  ASSUME DraftInv, NEW d \in Device, NEW q, Becomes(d, q),
         Sane(q), Scheduled(q), Draws(dev[d], q),
         draft' \in Draft, draft.version <= draft'.version, Apt(q, draft'.version)
  PROVE  dev' \in [Device -> Entry] /\ minted' \in Nat /\ Devices'
<1>1. /\ dev \in [Device -> Entry] /\ minted \in Nat
  BY DEF DraftInv, DraftTypeOK
<1>2. /\ dev' = [dev EXCEPT ![d] = q]
      /\ minted' = IF q.mutation # None /\ q.mutation.id > minted THEN minted + 1 ELSE minted
  BY DEF Becomes
<1>3. dev' \in [Device -> Entry]
  BY <1>1, <1>2 DEF Sane
<1>4. dev'[d] = q /\ \A e \in Device : e # d => dev'[e] = dev[e]
  BY <1>1, <1>2
<1>5. \A e \in Device : \A n \in Repeats(dev[e]) : n \in Nat /\ n <= minted
  BY DEF DraftInv, Devices
<1>6. q.mutation # None => q.mutation.id \in Repeats(q)
  BY DEF Repeats
<1>7. /\ minted' \in Nat /\ minted <= minted'
      /\ \A n \in Repeats(q) : n \in Nat /\ n <= minted' /\ (n \in Repeats(dev[d]) \/ n > minted)
  <2>1. CASE Repeats(q) \subseteq Repeats(dev[d])
    BY <1>1, <1>2, <1>5, <1>6, <2>1
  <2>2. CASE q.mutation # None /\ Repeats(q) = {minted + 1}
    BY <1>1, <1>2, <1>6, <2>2
  <2> QED BY <2>1, <2>2 DEF Draws
<1>8. \A e \in Device : Sane(dev'[e]) /\ Scheduled(dev'[e]) /\ Apt(dev'[e], draft'.version)
  <2>1. draft'.version \in Nat
    BY DEF Draft
  <2> QED BY <1>4, <2>1, AheadOfAll DEF DraftInv, Devices
<1>9. \A e \in Device : \A n \in Repeats(dev'[e]) : n \in Nat /\ n <= minted'
  BY <1>1, <1>4, <1>5, <1>7
<1>10. ASSUME NEW e \in Device, NEW f \in Device, e # f
       PROVE  Repeats(dev'[e]) \cap Repeats(dev'[f]) = {}
  <2>1. \A g, h \in Device : g # h => Repeats(dev[g]) \cap Repeats(dev[h]) = {}
    BY DEF DraftInv, Devices
  <2>2. \A g \in Device : g # d => Repeats(q) \cap Repeats(dev[g]) = {}
    <3> SUFFICES ASSUME NEW g \in Device, g # d, NEW n \in Repeats(q), n \in Repeats(dev[g])
                 PROVE  FALSE
      OBVIOUS
    <3>1. n \in Nat /\ n <= minted
      BY <1>5
    <3>2. n \in Repeats(dev[d])
      BY <1>1, <1>7, <3>1
    <3> QED BY <2>1, <3>2
  <2> QED BY <1>4, <1>10, <2>1, <2>2
<1>11. Devices'
  BY <1>8, <1>9, <1>10 DEF Devices
<1> QED BY <1>3, <1>7, <1>11

-----------------------------------------------------------------------------
(* The steps of a device, one by one.                                      *)

(* Steps of the user, and of the timer.                                    *)
LEMMA UserSteps ==
  ASSUME DraftAssumption, DraftInv, NEW d \in Device,
         \/ \E t \in Body : editTextDraft(d, t)
         \/ BlurDraft(d) \/ KeepThisDevice(d) \/ UseOtherDraft(d) \/ TimerFires(d)
         \/ submittedDraft(d)
  PROVE  \E q : /\ Becomes(d, q) /\ Sane(q) /\ Scheduled(q) /\ Draws(dev[d], q)
              /\ Apt(q, draft.version)
<1> DEFINE r == dev[d]
<1>0. /\ r \in Entry /\ Sane(r) /\ Scheduled(r) /\ Apt(r, draft.version) /\ Carried(r) /\ minted \in Nat
  BY DEF DraftInv, DraftTypeOK, Devices, Sane
<1>1. ASSUME NEW t \in Body, editTextDraft(d, t)
      PROVE  \E q : Becomes(d, q) /\ Sane(q) /\ Scheduled(q) /\ Apt(q, draft.version) /\ Draws(r, q)
  <2>1. PICK p : p = [r EXCEPT !.body = t, !.dirty = TRUE, !.error = FALSE, !.focused = TRUE]
    OBVIOUS
  <2>2. Kept(r, p) /\ Apt(p, draft.version)
    BY <1>0, <2>1 DEF Kept, Entry, Carried, Apt, Window, Behind
  <2>3. Becomes(d, schedule(p))
    BY <1>1, <2>1 DEF editTextDraft
  <2> QED BY <1>0, <2>2, <2>3, KeptSane, ScheduleSane DEF Draws
<1>2. CASE BlurDraft(d)
  <2>1. PICK p : p = [r EXCEPT !.focused = FALSE]
    OBVIOUS
  <2>2. Kept(r, p) /\ Scheduled(p) /\ Apt(p, draft.version)
    BY <1>0, <2>1 DEF Kept, Entry, Carried, Scheduled, Untimed,
       Apt, Window, Behind
  <2>3. Becomes(d, p)
    BY <1>2, <2>1 DEF BlurDraft
  <2> QED BY <1>0, <2>2, <2>3, KeptSane
<1>3. CASE KeepThisDevice(d)
  <2>1. PICK p : p = [r EXCEPT !.dirty = TRUE, !.conflict = None, !.mutation = None, !.error = FALSE]
    OBVIOUS
  <2>2. Kept(r, p) /\ Apt(p, draft.version)
    BY <1>0, <2>1 DEF Kept, Entry, Carried, Apt, Window, Behind
  <2>3. Becomes(d, schedule(p))
    BY <1>3, <2>1 DEF KeepThisDevice
  <2> QED BY <1>0, <2>2, <2>3, KeptSane, ScheduleSane DEF Draws
<1>4. CASE UseOtherDraft(d)
  <2>1. PICK p : p = [r EXCEPT !.body = r.conflict.body, !.dirty = FALSE,
                               !.conflict = None, !.mutation = None, !.error = FALSE]
    OBVIOUS
  <2>2. r.conflict.body \in Body
    BY <1>0, <1>4 DEF UseOtherDraft, Entry, Draft
  <2>3. Kept(r, p) /\ Apt(p, draft.version)
    BY <1>0, <2>1, <2>2 DEF Kept, Entry, Carried, Apt, Window, Behind
  <2>4. Becomes(d, schedule(p))
    BY <1>4, <2>1 DEF UseOtherDraft
  <2> QED BY <1>0, <2>3, <2>4, KeptSane, ScheduleSane DEF Draws
<1>5. CASE TimerFires(d)
  <2>1. PICK p : p = [r EXCEPT !.timer = FALSE]
    OBVIOUS
  <2>2. Kept(r, p) /\ Repeats(p) = Repeats(r) /\ Apt(p, draft.version) /\ p.setting = r.setting
    BY <1>0, <2>1 DEF Kept, Entry, Carried, Repeats, Apt, Window, Behind
  <2>3. Becomes(d, write(p))
    BY <1>5, <2>1 DEF TimerFires
  <2>4. Sane(p)
    BY <1>0, <2>2, KeptSane
  <2>5. Scheduled(write(p))
    BY <2>4, <1>0, WriteSane, Unwritable DEF Scheduled, Untimed
  <2>6. Apt(write(p), draft.version)
    <3>1. p.setting
      BY <1>0, <1>5, <2>2 DEF TimerFires, Apt, Window
    <3> QED BY <1>0, <2>2, <2>4, <3>1, WriteSane DEF Apt, Window, Behind
  <2> QED BY <1>0, <2>2, <2>3, <2>4, <2>5, <2>6, WriteSane DEF Draws
<1>6. CASE submittedDraft(d)
  <2>1. PICK p : p = [r EXCEPT !.timer = FALSE,
                        !.sending = [stage |-> "loading", text |-> r.body, clears |-> None]]
    OBVIOUS
  <2>2. [stage |-> "loading", text |-> r.body, clears |-> None] \in Sending
    BY <1>0, Sendings DEF Entry
  <2>3. Kept(r, p) /\ Scheduled(p) /\ Apt(p, draft.version)
    <3>1. r.sending.stage = "idle"
      BY <1>6, Sendings DEF submittedDraft
    <3>2. Kept(r, p) /\ Scheduled(p)
      BY <1>0, <2>1, <2>2 DEF Kept, Entry, Carried, Scheduled, Untimed
    <3>3. Apt(p, draft.version)
      BY <1>0, <2>1, <3>1 DEF Entry, Apt, Window, Behind
    <3> QED BY <3>2, <3>3
  <2>4. Becomes(d, loadTextDraft(p))
    BY <1>6, <2>1 DEF submittedDraft
  <2>5. p.setting \/ p.write = Idle
    BY <1>0, <1>6, <2>1, Sendings DEF submittedDraft, Apt, Window, Entry
  <2> QED BY <1>0, <2>3, <2>4, <2>5, KeptSane, LoadSane, Requests DEF Draws
<1> QED BY <1>1, <1>2, <1>3, <1>4, <1>5, <1>6

(* Requests that start and answers that come, or fail.                     *)
LEMMA RequestSteps ==
  ASSUME DraftAssumption, DraftInv, NEW d \in Device,
         \/ ThreadMounts(d) \/ DraftsChanged(d) \/ Online(d)
         \/ ServeRead(d) \/ SettingAnswered(d) \/ ServeRefresh(d)
         \/ RefreshFails(d) \/ startDraftSession(d) \/ WriteRefused(d) \/ sentTextDraft(d)
  PROVE  \E q : /\ Becomes(d, q) /\ Sane(q) /\ Scheduled(q) /\ Draws(dev[d], q)
              /\ Apt(q, draft.version)
<1> DEFINE r == dev[d]
<1>0. /\ r \in Entry /\ Sane(r) /\ Scheduled(r) /\ Apt(r, draft.version) /\ Carried(r)
      /\ minted \in Nat /\ draft \in Draft
  BY DEF DraftInv, DraftTypeOK, Devices, Sane
<1>1. CASE DraftsChanged(d) \/ Online(d)
  <2>1. Becomes(d, StartRefresh(r))
    BY <1>1 DEF DraftsChanged, Online
  <2>2. CASE r.refresh = Idle
    <3>1. PICK p : p = [r EXCEPT !.refresh = Sent(None)]
      OBVIOUS
    <3>2. Sent(None) \in Request /\ Sent(None).stage = "sent" /\ Sent(None) # Idle
      BY Requests
    <3>3. Kept(r, p) /\ Scheduled(p) /\ Apt(p, draft.version)
      BY <1>0, <3>1, <3>2 DEF Kept, Entry, Carried, Scheduled, Untimed,
         Apt, Window, Behind
    <3>4. p = StartRefresh(r)
      BY <2>2, <3>1 DEF StartRefresh
    <3> QED BY <1>0, <2>1, <3>3, <3>4, KeptSane
  <2>3. CASE r.refresh # Idle
    BY <1>0, <2>1, <2>3 DEF StartRefresh, Draws
  <2> QED BY <2>2, <2>3
<1>2. CASE ServeRead(d)
  <2>1. PICK p : p = [r EXCEPT !.read = [stage |-> "answered", value |-> draft]]
    OBVIOUS
  <2>2. [stage |-> "answered", value |-> draft] \in Request
    BY <1>0, Requests
  <2>2a. r.read.stage = "sent" /\ r.read # Idle /\ draft.version \in Nat /\ r.version \in Nat
    BY <1>0, <1>2, Requests DEF ServeRead, Draft, Entry
  <2>3. Kept(r, p) /\ Scheduled(p) /\ Apt(p, draft.version)
    BY <1>0, <2>1, <2>2, <2>2a DEF Kept, Entry, Carried, Scheduled, Untimed,
       Apt, Window, Behind
  <2>4. Becomes(d, p)
    BY <1>2, <2>1 DEF ServeRead
  <2> QED BY <1>0, <2>3, <2>4, KeptSane
<1>3. CASE ServeRefresh(d)
  <2>1. PICK x \in Draft \cup {None} : x = IF draft.version > 0 THEN draft ELSE None
    BY <1>0
  <2>2. PICK p : p = [r EXCEPT !.refresh = [stage |-> "answered", value |-> x]]
    OBVIOUS
  <2>3. /\ [stage |-> "answered", value |-> x] \in Request
        /\ [stage |-> "answered", value |-> x] # Idle
    BY <2>1, Requests DEF Idle
  <2>3a. r.setting /\ draft.version \in Nat /\ (x # None => x.version = draft.version)
    BY <1>0, <1>3, <2>1 DEF ServeRefresh, Draft
  <2>4. Kept(r, p) /\ Scheduled(p) /\ Apt(p, draft.version)
    BY <1>0, <2>2, <2>3, <2>3a DEF Kept, Entry, Carried, Scheduled, Untimed,
       Apt, Window, Behind
  <2>5. Becomes(d, p)
    BY <1>3, <2>1, <2>2 DEF ServeRefresh
  <2> QED BY <1>0, <2>4, <2>5, KeptSane
<1>4. CASE RefreshFails(d)
  <2>1. PICK p : p = [r EXCEPT !.refresh = Idle, !.unread = TRUE]
    OBVIOUS
  <2>2. Idle \in Request /\ Idle.stage = "idle"
    BY Requests
  <2>3. Kept(r, p) /\ Scheduled(p) /\ Apt(p, draft.version)
    BY <1>0, <2>1, <2>2 DEF Kept, Entry, Carried, Scheduled, Untimed,
       Apt, Window, Behind
  <2>4. Becomes(d, p)
    BY <1>4, <2>1 DEF RefreshFails
  <2> QED BY <1>0, <2>3, <2>4, KeptSane
<1>5. CASE startDraftSession(d)
  <2>1. PICK p : p = Started(r)
    OBVIOUS
  <2>2. /\ Idle \in Request /\ Idle.stage = "idle" /\ NotSending \in Sending
        /\ Sent(None) \in Request /\ Sent(None).stage = "sent"
    BY Requests, Sendings
  <2>3. Kept(r, p) /\ Scheduled(p) /\ Apt(p, draft.version)
    BY <1>0, <2>1, <2>2 DEF Kept, Entry, Carried, Scheduled, Untimed,
       Apt, Window, Behind, Started
  <2>4. Becomes(d, p)
    BY <1>5, <2>1 DEF startDraftSession
  <2> QED BY <1>0, <2>3, <2>4, KeptSane
<1>6. CASE WriteRefused(d)
  <2>1. PICK p : p = [r EXCEPT !.mutation = None, !.write.stage = "waits"]
    OBVIOUS
  <2>2. p = [r EXCEPT !.mutation = None, !.write = [r.write EXCEPT !.stage = "waits"]]
    BY <1>0, <2>1 DEF Entry
  <2>3. /\ [r.write EXCEPT !.stage = "waits"] \in Request
        /\ [r.write EXCEPT !.stage = "waits"].stage = "waits"
    BY <1>0 DEF Entry, Request, Stage
  <2>3a. r.write # Idle
    BY <1>6, Requests DEF WriteRefused
  <2>4. Kept(r, p) /\ p.write.stage = "waits" /\ Apt(p, draft.version)
    BY <1>0, <2>2, <2>3, <2>3a DEF Kept, Entry, Carried, Apt, Window, Behind
  <2>5. Scheduled(p)
    BY <2>4 DEF Scheduled, Untimed, Idle
  <2>6. Becomes(d, loadTextDraft(p))
    BY <1>6, <2>1 DEF WriteRefused
  <2> QED BY <1>0, <2>4, <2>5, <2>6, KeptSane, LoadSane DEF Draws
<1>7. CASE sentTextDraft(d)
  <2> DEFINE keep == \/ r.body # r.sending.text \/ r.conflict # None
                     \/ r.sending.clears # None /\ r.version > r.sending.clears
  <2>1. PICK p : p = [r EXCEPT !.sending = NotSending]
    OBVIOUS
  <2>2. NotSending \in Sending /\ r.sending.stage # "idle" /\ r.sending.stage # "writing"
    BY <1>7, Sendings DEF sentTextDraft
  <2>3. Kept(r, p) /\ p.body = r.body /\ p.conflict = r.conflict /\ p.version = r.version
    BY <1>0, <2>1, <2>2 DEF Kept, Entry, Carried
  <2>3a. Apt(p, draft.version) /\ (p.setting \/ p.write = Idle)
    BY <1>0, <2>1, <2>2 DEF Entry, Apt, Window, Behind
  <2>4. CASE keep
    <3>1. Becomes(d, p)
      BY <1>7, <2>1, <2>3, <2>4 DEF sentTextDraft
    <3>2. Scheduled(p)
      BY <1>0, <2>1, <2>4 DEF Scheduled, Untimed, Entry
    <3> QED BY <1>0, <2>3, <2>3a, <3>1, <3>2, KeptSane
  <2>5. CASE ~keep
    <3>1. PICK c : c = [p EXCEPT !.body = Blank, !.dirty = FALSE, !.mutation = None, !.focused = FALSE]
      OBVIOUS
    <3>2. Becomes(d, loadTextDraft(c))
      BY <1>7, <2>1, <2>3, <2>5, <3>1 DEF sentTextDraft
    <3>3. /\ Kept(p, c) /\ Scheduled(c) /\ Apt(c, draft.version)
          /\ c.setting = p.setting /\ c.write = p.write
      BY <2>3, <2>3a, <3>1 DEF Kept, Entry, Carried, Scheduled, Untimed, Apt, Window, Behind, Body
    <3> QED BY <1>0, <2>3, <2>3a, <3>2, <3>3, KeptSane, LoadSane, Requests DEF Draws
  <2> QED BY <2>4, <2>5
<1>8. CASE ThreadMounts(d)
  <2>1. Becomes(d, loadTextDraft(r))
    BY <1>8 DEF ThreadMounts
  <2>2. r.setting \/ r.write = Idle
    BY <1>0, <1>8 DEF ThreadMounts, Apt, Window
  <2> QED BY <1>0, <2>1, <2>2, LoadSane, Requests DEF Draws
<1>9. CASE SettingAnswered(d)
  <2>1. PICK p : p = [r EXCEPT !.setting = TRUE, !.unread = FALSE]
    OBVIOUS
  <2>2. Kept(r, p) /\ Apt(p, draft.version)
    BY <1>0, <2>1 DEF Kept, Entry, Carried, Apt, Window, Behind
  <2>3. Scheduled(p)
    BY <1>0, <1>9, <2>1, Requests DEF SettingAnswered, Entry, Apt, Window, Scheduled
  <2>4. Becomes(d, p)
    BY <1>9, <2>1 DEF SettingAnswered
  <2> QED BY <1>0, <2>2, <2>3, <2>4, KeptSane
<1> QED BY <1>1, <1>2, <1>3, <1>4, <1>5, <1>6, <1>7, <1>8, <1>9

(* What continues when an answer comes, or does not.                       *)
LEMMA AnswerSteps ==
  ASSUME DraftAssumption, DraftInv, NEW d \in Device,
         \/ ReadAnswered(d) \/ RefreshAnswered(d) \/ WriteAnswered(d)
         \/ ReadFails(d) \/ WriteFails(d)
  PROVE  \E q : /\ Becomes(d, q) /\ Sane(q) /\ Scheduled(q) /\ Draws(dev[d], q)
              /\ Apt(q, draft.version)
<1> DEFINE r == dev[d]
<1>0. /\ r \in Entry /\ Sane(r) /\ Scheduled(r) /\ Apt(r, draft.version) /\ Carried(r) /\ minted \in Nat
      /\ Idle \in Request /\ Idle.stage = "idle"
  BY Requests DEF DraftInv, DraftTypeOK, Devices, Sane
<1>1. CASE ReadAnswered(d)
  <2>1. PICK x \in Draft : x = r.read.value
    BY <1>0, <1>1 DEF ReadAnswered, Carried
  <2>2. PICK p : p = [r EXCEPT !.read = Idle]
    OBVIOUS
  <2>3. Kept(r, p) /\ Scheduled(p) /\ Apt(p, draft.version)
    BY <1>0, <2>2 DEF Kept, Entry, Carried, Scheduled, Untimed,
       Apt, Window, Behind
  <2>4. PICK n : n = receiveTextDraft(p, x)
    OBVIOUS
  <2>4a. /\ p.read = Idle /\ p.refresh = r.refresh /\ p.version = r.version
         /\ p.setting = r.setting /\ (Untimed(p) => Untimed(r))
    BY <1>0, <2>2 DEF Entry, Untimed
  <2>4b. x.version <= draft.version /\ (Untimed(p) => x.version >= p.version)
    BY <1>0, <1>1, <2>1, <2>4a DEF ReadAnswered, Apt, Behind, Scheduled
  <2>5. /\ Sane(n) /\ Scheduled(n) /\ Apt(n, draft.version) /\ Repeats(n) \subseteq Repeats(r)
        /\ n.read = Idle /\ n.refresh = r.refresh /\ n.setting = r.setting
        /\ r.setting => ~Untimed(n)
    BY <1>0, <2>1, <2>3, <2>4, <2>4a, <2>4b, KeptSane, ReceiveSane
  <2>6. Becomes(d, AfterRead(n))
    BY <1>1, <2>1, <2>2, <2>4 DEF ReadAnswered
  <2>7. n.refresh.stage = "waits" => ~Untimed(n)
    BY <1>0, <2>5 DEF Apt, Window
  <2> QED BY <1>0, <2>5, <2>6, <2>7, AfterReadSane DEF Draws
<1>2. CASE RefreshAnswered(d)
  <2>1. PICK x \in Draft \cup {None} : x = r.refresh.value
    BY <1>0, <1>2 DEF RefreshAnswered, Carried
  <2>2. PICK p : p = [r EXCEPT !.unread = FALSE]
    OBVIOUS
  <2>2a. /\ r.setting /\ r.refresh # Idle
         /\ x # None => x.version <= draft.version
    BY <1>0, <1>2, <2>1 DEF RefreshAnswered, Apt, Window, Behind
  <2>3. Kept(r, p) /\ Scheduled(p) /\ Apt(p, draft.version) /\ p.setting
    BY <1>0, <2>2, <2>2a DEF Kept, Entry, Carried, Scheduled, Untimed, Apt, Window, Behind
  <2>4. PICK n : n = IF x = None THEN p ELSE receiveTextDraft(p, x)
    OBVIOUS
  <2>5. /\ Sane(n) /\ Scheduled(n) /\ Apt(n, draft.version) /\ Repeats(n) \subseteq Repeats(r)
        /\ n.setting
    BY <1>0, <2>1, <2>2a, <2>3, <2>4, KeptSane, ReceiveSane
  <2>6. CASE ~n.ready \/ n.dirty \/ n.conflict # None \/ n.error
    <3>1. PICK m : m = [n EXCEPT !.refresh = [stage |-> "waits", value |-> None]]
      OBVIOUS
    <3>2. Becomes(d, loadTextDraft(m))
      BY <1>2, <2>1, <2>2, <2>4, <2>6, <3>1 DEF RefreshAnswered
    <3>3. /\ [stage |-> "waits", value |-> None] \in Request
          /\ [stage |-> "waits", value |-> None] # Idle
      BY Requests DEF Idle
    <3>4. Kept(n, m) /\ Scheduled(m) /\ Apt(m, draft.version) /\ m.setting
      BY <2>5, <3>1, <3>3 DEF Sane, Kept, Entry, Carried, Scheduled, Untimed, Apt, Window, Behind
    <3> QED BY <2>5, <3>2, <3>4, KeptSane, LoadSane DEF Draws
  <2>7. CASE ~(~n.ready \/ n.dirty \/ n.conflict # None \/ n.error)
    <3>1. PICK m : m = [n EXCEPT !.refresh = Idle]
      OBVIOUS
    <3>2. Becomes(d, m)
      BY <1>2, <2>1, <2>2, <2>4, <2>7, <3>1 DEF RefreshAnswered
    <3>3. Kept(n, m) /\ Scheduled(m) /\ Apt(m, draft.version)
      BY <1>0, <2>5, <2>7, <3>1 DEF Sane, Kept, Entry, Carried, Scheduled, Untimed,
                                    Apt, Window, Behind
    <3> QED BY <2>5, <3>2, <3>3, KeptSane DEF Draws
  <2> QED BY <2>6, <2>7
<1>3. CASE WriteAnswered(d)
  <2>1. PICK x \in Draft : x = r.write.value
    BY <1>0, <1>3 DEF WriteAnswered, Carried
  <2>2. PICK n : n = receiveTextDraft(r, x)
    OBVIOUS
  <2>2a. x.version <= draft.version /\ (r.setting \/ r.read = Idle) /\ r.write # Idle
    BY <1>0, <1>3, <2>1 DEF WriteAnswered, Apt, Window, Behind
  <2>3. /\ Sane(n) /\ Apt(n, draft.version) /\ Repeats(n) \subseteq Repeats(r)
        /\ n.write # Idle
    BY <1>0, <2>1, <2>2, <2>2a, ReceiveSane
  <2>4. Becomes(d, WriteEnds(n))
    BY <1>3, <2>1, <2>2 DEF WriteAnswered
  <2> QED BY <1>0, <2>3, <2>4, WriteEndsSane DEF Draws
<1>4. CASE ReadFails(d)
  <2>1. PICK p : p = [r EXCEPT !.read = Idle, !.error = TRUE]
    OBVIOUS
  <2>2. Kept(r, p) /\ p.read = Idle /\ ~Untimed(p)
    BY <1>0, <2>1 DEF Kept, Entry, Carried, Untimed
  <2>3. Apt(p, draft.version)
    BY <1>0, <2>1 DEF Entry, Apt, Window, Behind
  <2>4. Becomes(d, AfterRead(p))
    BY <1>4, <2>1 DEF ReadFails
  <2> QED BY <1>0, <2>2, <2>3, <2>4, KeptSane, AfterReadSane DEF Scheduled, Draws
<1>5. CASE WriteFails(d)
  <2>1. PICK p : p = [r EXCEPT !.error = TRUE]
    OBVIOUS
  <2>2. Kept(r, p) /\ p.write = r.write /\ Apt(p, draft.version)
    BY <1>0, <2>1 DEF Kept, Entry, Carried, Apt, Window, Behind
  <2>3. Becomes(d, WriteEnds(p))
    BY <1>5, <2>1 DEF WriteFails
  <2>4. p.write # Idle
    BY <1>0, <1>5, <2>2 DEF WriteFails
  <2> QED BY <1>0, <2>2, <2>3, <2>4, KeptSane, WriteEndsSane DEF Draws
<1> QED BY <1>1, <1>2, <1>3, <1>4, <1>5

(* The server takes a write, or refuses it.                                *)
LEMMA PutStep ==
  ASSUME DraftAssumption, DraftInv, NEW d \in Device, PutTextDraft(d)
  PROVE  /\ \E q : /\ Becomes(d, q) /\ Sane(q) /\ Scheduled(q) /\ Draws(dev[d], q)
                 /\ Apt(q, draft'.version)
         /\ draft' \in Draft /\ draft.version <= draft'.version
<1> DEFINE r == dev[d]
           m == r.write.value
<1>0. /\ r \in Entry /\ Sane(r) /\ Scheduled(r) /\ Apt(r, draft.version) /\ Carried(r) /\ draft \in Draft
      /\ m \in Mutation
  BY DEF DraftInv, DraftTypeOK, Devices, Sane, PutTextDraft, Carried
<1>1. draft' \in Draft /\ draft.version <= draft'.version
  BY <1>0 DEF PutTextDraft, Draft, Mutation
<1>1a. Apt(r, draft'.version) /\ r.write.stage = "sent"
  <2>1. draft'.version \in Nat
    BY <1>1 DEF Draft
  <2> QED BY <1>1, <2>1, AheadOfAll DEF PutTextDraft
<1>2. PICK x \in Draft : x = draft'
  BY <1>1
<1>3. PICK w \in Request :
        /\ w = IF Refused(m) THEN [stage |-> "refused", value |-> None]
                             ELSE [stage |-> "answered", value |-> x]
        /\ w.stage \in {"refused", "answered"}
        /\ w.stage = "answered" => w.value \in Draft
  BY Requests
<1>4. PICK p : p = [r EXCEPT !.write = w]
  OBVIOUS
<1>5. Becomes(d, p)
  BY <1>2, <1>3, <1>4 DEF PutTextDraft
<1>6. Kept(r, p) /\ p.write.stage \in {"refused", "answered"}
  BY <1>0, <1>3, <1>4 DEF Kept, Entry, Carried
<1>7. Scheduled(p)
  BY <1>6 DEF Scheduled, Untimed, Idle
<1>8. Apt(p, draft'.version)
  <2>1. /\ p.setting = r.setting /\ p.timer = r.timer /\ p.refresh = r.refresh
        /\ p.unread = r.unread /\ p.ready = r.ready /\ p.sending = r.sending
        /\ p.read = r.read /\ p.version = r.version /\ p.write = w
    BY <1>0, <1>4 DEF Entry
  <2>2. w.stage = "answered" => w.value.version <= draft'.version
    <3>1. draft'.version \in Nat
      BY <1>1 DEF Draft
    <3> QED BY <1>2, <1>3, <3>1
  <2>3. r.write # Idle
    BY <1>1a, Requests
  <2> QED BY <1>1a, <2>1, <2>2, <2>3 DEF Apt, Window, Behind
<1> QED BY <1>0, <1>1, <1>5, <1>6, <1>7, <1>8, KeptSane

(* A message takes its draft with it.                                      *)
LEMMA ClearStep ==
  ASSUME DraftAssumption, DraftInv, NEW d \in Device, clearSubmittedDraft(d)
  PROVE  draft' \in Draft /\ dev' \in [Device -> Entry] /\ minted' \in Nat /\ Devices'
<1> DEFINE r == dev[d]
<1>0. /\ r \in Entry /\ Sane(r) /\ Scheduled(r) /\ Apt(r, draft.version) /\ Carried(r) /\ draft \in Draft
      /\ dev \in [Device -> Entry] /\ minted \in Nat
  BY DEF DraftInv, DraftTypeOK, Devices, Sane
<1>1. /\ draft' \in Draft /\ draft.version <= draft'.version
      /\ minted' \in Nat /\ minted <= minted'
  BY <1>0 DEF clearSubmittedDraft, Draft, Body
<1>1a. \A e \in Device : Apt(dev[e], draft'.version)
  <2>1. draft'.version \in Nat
    BY <1>1 DEF Draft
  <2> QED BY <1>1, <2>1, AheadOfAll
<1>2. PICK p : p = [r EXCEPT !.sending.stage = "posted"]
  OBVIOUS
<1>3. dev' = [dev EXCEPT ![d] = p]
  BY <1>0, <1>2 DEF clearSubmittedDraft
<1>4. p = [r EXCEPT !.sending = [r.sending EXCEPT !.stage = "posted"]]
  BY <1>0, <1>2 DEF Entry
<1>5. "posted" \in Stage /\ r.sending \in Sending
  BY <1>0 DEF Stage, Entry
<1>6. Kept(r, p) /\ Repeats(p) = Repeats(r)
  <2>1. [r.sending EXCEPT !.stage = "posted"] \in Sending
    BY <1>5 DEF Sending
  <2> QED BY <1>0, <1>4, <2>1 DEF Kept, Entry, Carried, Repeats
<1>7. Scheduled(p)
  BY <1>0, <1>4, <1>5 DEF Scheduled, Untimed, Entry, Sending
<1>7a. Apt(p, draft'.version)
  <2>1. r.sending.stage = "posting"
    BY DEF clearSubmittedDraft
  <2>2. /\ p.setting = r.setting /\ p.timer = r.timer /\ p.refresh = r.refresh
        /\ p.unread = r.unread /\ p.ready = r.ready /\ p.write = r.write
        /\ p.read = r.read /\ p.version = r.version
    BY <1>0, <1>4 DEF Entry
  <2> QED BY <1>1a, <2>1, <2>2, Requests DEF Apt, Window, Behind
<1>8. Sane(p)
  BY <1>0, <1>6, KeptSane
<1>9. dev' \in [Device -> Entry] /\ \A e \in Device : dev'[e] = IF e = d THEN p ELSE dev[e]
  BY <1>0, <1>3, <1>8 DEF Sane
<1>10. \A e \in Device : Repeats(dev'[e]) = Repeats(dev[e])
  BY <1>6, <1>9
<1>11. \A e \in Device : Sane(dev'[e]) /\ Scheduled(dev'[e]) /\ Apt(dev'[e], draft'.version)
  BY <1>1a, <1>7, <1>7a, <1>8, <1>9 DEF DraftInv, Devices
<1>12. \A e \in Device : \A n \in Repeats(dev'[e]) : n \in Nat /\ n <= minted'
  BY <1>0, <1>1, <1>10 DEF DraftInv, Devices
<1>13. \A e, f \in Device : e # f => Repeats(dev'[e]) \cap Repeats(dev'[f]) = {}
  BY <1>10 DEF DraftInv, Devices
<1>14. Devices'
  BY <1>11, <1>12, <1>13 DEF Devices
<1> QED BY <1>1, <1>9, <1>14

LEMMA DraftInvStep ==
  ASSUME DraftAssumption, DraftInv, [DraftNext]_draftVars
  PROVE  DraftInv'
<1>0. /\ changed \subseteq Device /\ edits \in 0 .. MaxEdits /\ turns \in 0 .. MaxTurns
      /\ MaxEdits \in Nat /\ MaxTurns \in Nat
  BY DEF DraftAssumption, DraftInv, DraftTypeOK
<1>1. /\ changed' \subseteq Device
      /\ edits' \in 0 .. MaxEdits /\ turns' \in 0 .. MaxTurns
  <2>1. changed' \subseteq Device
    BY <1>0 DEF DraftNext, draftVars, Step, Fail, editTextDraft, BlurDraft, KeepThisDevice,
         UseOtherDraft, TimerFires, submittedDraft, ThreadMounts, DraftsChanged, Online, ServeRead,
         SettingAnswered, ServeRefresh,
         PutTextDraft, clearSubmittedDraft, ReadAnswered, RefreshAnswered, WriteAnswered,
         WriteRefused, sentTextDraft, ReadFails, RefreshFails, WriteFails, startDraftSession
  <2>2. edits' = edits \/ Edited
    BY DEF DraftNext, draftVars, counters, Step, Fail, editTextDraft, BlurDraft, KeepThisDevice,
         UseOtherDraft, TimerFires, submittedDraft, ThreadMounts, DraftsChanged, Online, ServeRead,
         SettingAnswered, ServeRefresh,
         PutTextDraft, clearSubmittedDraft, ReadAnswered, RefreshAnswered, WriteAnswered,
         WriteRefused, sentTextDraft, ReadFails, RefreshFails, WriteFails, startDraftSession
  <2>3. turns' = turns \/ Turn
    BY DEF DraftNext, draftVars, counters, Step, Fail, editTextDraft, BlurDraft, KeepThisDevice,
         UseOtherDraft, TimerFires, submittedDraft, ThreadMounts, DraftsChanged, Online, ServeRead,
         SettingAnswered, ServeRefresh,
         PutTextDraft, clearSubmittedDraft, ReadAnswered, RefreshAnswered, WriteAnswered,
         WriteRefused, sentTextDraft, ReadFails, RefreshFails, WriteFails, startDraftSession
  <2> QED BY <1>0, <2>1, <2>2, <2>3 DEF Edited, Turn
<1>2. draft' \in Draft /\ dev' \in [Device -> Entry] /\ minted' \in Nat /\ Devices'
  <2>1. ASSUME NEW d \in Device,
               \/ \E t \in Body : editTextDraft(d, t)
               \/ BlurDraft(d) \/ KeepThisDevice(d) \/ UseOtherDraft(d) \/ TimerFires(d)
               \/ submittedDraft(d)
        PROVE  draft' \in Draft /\ dev' \in [Device -> Entry] /\ minted' \in Nat /\ Devices'
    <3>1. draft' = draft
      BY <2>1 DEF editTextDraft, BlurDraft, KeepThisDevice, UseOtherDraft, TimerFires, submittedDraft
    <3>2. draft' \in Draft /\ draft.version <= draft'.version
      BY <3>1 DEF DraftInv, DraftTypeOK, Draft
    <3> QED BY <2>1, <3>1, <3>2, UserSteps, BecomesKeeps
  <2>2. ASSUME NEW d \in Device,
               \/ ThreadMounts(d) \/ DraftsChanged(d) \/ Online(d)
               \/ ServeRead(d) \/ SettingAnswered(d) \/ ServeRefresh(d)
               \/ RefreshFails(d) \/ startDraftSession(d) \/ WriteRefused(d) \/ sentTextDraft(d)
        PROVE  draft' \in Draft /\ dev' \in [Device -> Entry] /\ minted' \in Nat /\ Devices'
    <3>1. draft' = draft
      BY <2>2 DEF ThreadMounts, DraftsChanged, Online, ServeRead, SettingAnswered, ServeRefresh,
                  RefreshFails, startDraftSession, WriteRefused, sentTextDraft, Fail
    <3>2. draft' \in Draft /\ draft.version <= draft'.version
      BY <3>1 DEF DraftInv, DraftTypeOK, Draft
    <3> QED BY <2>2, <3>1, <3>2, RequestSteps, BecomesKeeps
  <2>3. ASSUME NEW d \in Device,
               \/ ReadAnswered(d) \/ RefreshAnswered(d) \/ WriteAnswered(d)
               \/ ReadFails(d) \/ WriteFails(d)
        PROVE  draft' \in Draft /\ dev' \in [Device -> Entry] /\ minted' \in Nat /\ Devices'
    <3>1. draft' = draft
      BY <2>3 DEF ReadAnswered, RefreshAnswered, WriteAnswered, ReadFails, WriteFails, Fail
    <3>2. draft' \in Draft /\ draft.version <= draft'.version
      BY <3>1 DEF DraftInv, DraftTypeOK, Draft
    <3> QED BY <2>3, <3>1, <3>2, AnswerSteps, BecomesKeeps
  <2>4. ASSUME NEW d \in Device, PutTextDraft(d)
        PROVE  draft' \in Draft /\ dev' \in [Device -> Entry] /\ minted' \in Nat /\ Devices'
    BY <2>4, PutStep, BecomesKeeps
  <2>5. ASSUME NEW d \in Device, clearSubmittedDraft(d)
        PROVE  draft' \in Draft /\ dev' \in [Device -> Entry] /\ minted' \in Nat /\ Devices'
    BY <2>5, ClearStep
  <2>6. CASE UNCHANGED draftVars
    BY <2>6 DEF draftVars, DraftInv, DraftTypeOK, Devices
  <2> QED BY <2>1, <2>2, <2>3, <2>4, <2>5, <2>6 DEF DraftNext, Step
<1> QED BY <1>1, <1>2 DEF DraftInv, DraftTypeOK

LEMMA DraftInvInit ==
  ASSUME DraftAssumption, DraftInit PROVE DraftInv
<1> DEFINE r == [body |-> Blank, version |-> 0, ready |-> TRUE, dirty |-> FALSE, focused |-> FALSE,
        error |-> FALSE, setting |-> TRUE, unread |-> FALSE, timer |-> FALSE, conflict |-> None,
        remote |-> draft, mutation |-> None, read |-> Idle, refresh |-> Idle, write |-> Idle,
        sending |-> NotSending]
<1>1. draft \in Draft /\ draft.version = 0
  BY DEF DraftInit, Draft, Body
<1>2. Idle \in Request /\ Idle.stage = "idle" /\ NotSending \in Sending
  BY Requests, Sendings
<1>3. r \in Entry
  BY <1>1, <1>2 DEF Entry, Body
<1>4. draft # None
  BY <1>1 DEF DraftAssumption
<1>5. Sane(r) /\ Scheduled(r) /\ Apt(r, draft.version) /\ Repeats(r) = {}
  BY <1>1, <1>2, <1>3, <1>4 DEF Sane, Carried, Shown, Scheduled, Untimed, Apt, Window, Behind,
                                Repeats
<1>6. dev = [d \in Device |-> r]
  BY DEF DraftInit
<1> HIDE DEF r
<1>7. dev \in [Device -> Entry] /\ \A d \in Device : dev[d] = r
  BY <1>3, <1>6
<1>8. Devices
  BY <1>5, <1>7 DEF Devices
<1>9. 0 \in 0 .. MaxEdits /\ 0 \in 0 .. MaxTurns
  BY DEF DraftAssumption
<1> QED BY <1>1, <1>7, <1>8, <1>9 DEF DraftInit, DraftInv, DraftTypeOK

LEMMA DraftInvHolds ==
  ASSUME DraftAssumption PROVE DraftSpec => []DraftInv
<1>1. DraftInit => DraftInv
  BY DraftInvInit
<1>2. DraftInv /\ [DraftNext]_draftVars => DraftInv'
  BY DraftInvStep
<1> QED BY <1>1, <1>2, PTL DEF DraftSpec

(* The row, the entries and what is on its way keep their types.           *)
THEOREM DraftTypeCorrect ==
  ASSUME DraftAssumption PROVE DraftSpec => []DraftTypeOK
<1>1. DraftInv => DraftTypeOK
  BY DEF DraftInv
<1> QED BY <1>1, DraftInvHolds, PTL

(* Text the server does not have is always on its way there, about to be  *)
(* compared with what is there, or the user is told, whatever answers,     *)
(* failures, sends and reloads come in between, and whatever is typed      *)
(* before the session knows its setting (schedule, the finally of write    *)
(* and refreshDrafts).                                                     *)
THEOREM TextIsOnItsWay ==
  ASSUME DraftAssumption PROVE DraftSpec => []DirtyIsPending
<1>1. DraftInv => DirtyIsPending
  <2> SUFFICES ASSUME DraftInv, NEW d \in Device
               PROVE  LET r == dev[d] IN
                        r.ready /\ r.dirty /\ r.conflict = None /\ ~r.error /\ ~r.unread =>
                          \/ r.timer \/ r.write # Idle \/ r.sending # NotSending
                          \/ r.refresh # Idle
    BY DEF DirtyIsPending
  <2>1. Scheduled(dev[d]) /\ NotSending.stage = "idle"
    BY DEF DraftInv, Devices, NotSending
  <2> QED BY <2>1 DEF Scheduled, Untimed
<1> QED BY <1>1, DraftInvHolds, PTL

(* A device's write replaces a text of another device only after that text *)
(* has been shown: versions are the server's, and no mutation is written   *)
(* by two devices (receiveTextDraft, PutTextDraft).                        *)
THEOREM NothingReplacedUnseen ==
  ASSUME DraftAssumption PROVE DraftSpec => ShownBeforeReplaced
<1>1. ASSUME DraftInv, [DraftNext]_draftVars, NEW d \in Device,
             draft'.version > draft.version, dev[d].write.stage = "sent", draft.body # Blank,
             draft'.mutation = dev[d].write.value.id
      PROVE  dev[d].remote # None /\ dev[d].remote.version >= draft.version
  <2> DEFINE m == dev[d].write.value
  <2>0. /\ draft \in Draft /\ draft.version \in Nat /\ minted \in Nat
        /\ Shown(dev[d]) /\ m \in Mutation
        /\ \A e \in Device : dev[e].write.stage = "sent" => dev[e].write.value \in Mutation
    BY <1>1 DEF DraftInv, DraftTypeOK, Devices, Sane, Carried, Draft
  <2>1. m.id \in Repeats(dev[d]) /\ m.id \in Nat /\ m.id <= minted
    BY <1>1, <2>0 DEF DraftInv, Devices, Repeats
  <2>2. \/ \E e \in Device : PutTextDraft(e) \/ clearSubmittedDraft(e)
        \/ draft' = draft
    BY <1>1 DEF DraftNext, draftVars, Step, editTextDraft, BlurDraft,
         KeepThisDevice, UseOtherDraft, TimerFires, submittedDraft, ThreadMounts, DraftsChanged,
         Online, ServeRead, SettingAnswered, ServeRefresh, ReadAnswered,
         RefreshAnswered, WriteAnswered, WriteRefused, sentTextDraft, ReadFails, RefreshFails,
         WriteFails, startDraftSession, Fail
  <2>3. ASSUME NEW e \in Device, PutTextDraft(e)
        PROVE  dev[d].remote # None /\ dev[d].remote.version >= draft.version
    <3>1. /\ dev[e].write.stage = "sent" /\ draft'.mutation = dev[e].write.value.id
          /\ draft.version = dev[e].write.value.version
      BY <1>1, <2>0, <2>3 DEF PutTextDraft, Refused
    <3>2. dev[e].write.value.id \in Repeats(dev[e])
      BY <3>1 DEF Repeats
    <3>3. e = d
      BY <1>1, <2>1, <3>1, <3>2 DEF DraftInv, Devices
    <3> QED BY <1>1, <2>0, <3>1, <3>3 DEF Shown, Mutation
  <2>4. ASSUME NEW e \in Device, clearSubmittedDraft(e) PROVE FALSE
    <3>1. draft'.mutation = minted + 1
      BY <1>1, <2>0, <2>4 DEF clearSubmittedDraft
    <3> QED BY <1>1, <2>0, <2>1, <3>1
  <2>5. draft' # draft
    BY <1>1, <2>0
  <2> QED BY <2>2, <2>3, <2>4, <2>5
<1>2. DraftInv /\ [DraftNext]_draftVars =>
        [\A d \in Device :
           draft'.version > draft.version /\ dev[d].write.stage = "sent" /\ draft.body # Blank
             /\ draft'.mutation = dev[d].write.value.id
           => dev[d].remote # None /\ dev[d].remote.version >= draft.version]_draftVars
  BY <1>1
<1> QED BY <1>2, DraftInvHolds, PTL DEF DraftSpec, ShownBeforeReplaced

-----------------------------------------------------------------------------
(* MessageHistory                                                          *)

HasPage == "page" \in DOMAIN pending

\* What anybody holds of a message is a version the server has written.
Known(m) == m.n <= Len(log) /\ m.v <= log[m.n]
Seen(list) == \A n \in MessageNumber : list[n] > 0 => n <= Len(log) /\ list[n] <= log[n]
VersionsKnown ==
  /\ Seen(loaded)
  /\ \A m \in publishing \cup replies : Known(m)
  /\ \A e \in ToSet(events) : e.kind = "message" => Known(e.message)
  /\ HasPage => Seen(pending.page)

\* A cursor is inside the log, and a page that is not the last says where to go on.
Cursors ==
  /\ before <= Len(log)
  /\ pending # NoRequest => pending.cursor <= Len(log)
  /\ HasPage /\ pending.more => Numbers(pending.page) # {}

InCache == Numbers(loaded) # {} => opened

\* A catch-up has repaired what is on screen up to its cursor; its page repairs
\* what follows, to the end of the page or, with the last one, of the log.
OnScreen(n) == \E k \in Numbers(loaded) : k <= n
Repaired(n) == loaded[n] = log[n] \/ OnItsWay(n) \/ Again
Covered(n) == n <= Len(log) /\ (~pending.more \/ \E k \in Numbers(pending.page) : n <= k)
Repairs ==
  pending.kind = "catchUp" =>
    /\ OnScreen(pending.cursor + 1)
    /\ \A n \in MessageNumber :
         n <= Len(log) /\ n <= pending.cursor /\ OnScreen(n) => Repaired(n)
    /\ HasPage =>
         /\ \A n \in Numbers(pending.page) : n > pending.cursor
         /\ \A n \in MessageNumber :
              n > pending.cursor /\ Covered(n) => pending.page[n] = log[n] \/ Repaired(n)

HistoryInv == HistoryTypeOK /\ VersionsKnown /\ Cursors /\ InCache /\ Repairs

-----------------------------------------------------------------------------
(* Sets of numbers, sequences of events, the list                          *)

LEMMA LessIsWellFounded ==
  \E R : IsWellFoundedOn(R, Nat) /\ \A x, y \in Nat : y < x => <<y, x>> \in R
<1>1. \A x, y \in Nat : y < x => <<y, x>> \in OpToRel(<, Nat)
  BY Zenon DEF OpToRel
<1> QED
  BY <1>1, NatLessThanWellFounded, Zenon

LEMMA NonemptyHasLeast ==
  ASSUME NEW S \in SUBSET Nat, S # {}
  PROVE  \E n \in S : \A k \in S : n <= k
<1>1. PICK R : IsWellFoundedOn(R, Nat) /\ \A x, y \in Nat : y < x => <<y, x>> \in R
  BY LessIsWellFounded
<1>2. PICK n \in S : \A k \in S : ~ (<<k, n>> \in R)
  BY <1>1, WFMin
<1>3. \A k \in S : ~ (k < n)
  BY <1>1, <1>2, Zenon
<1> QED
  BY <1>3

LEMMA EarliestIsLeast ==
  ASSUME NEW list \in Held, Numbers(list) # {}
  PROVE  /\ Earliest(list) \in Numbers(list)
         /\ \A n \in Numbers(list) : Earliest(list) <= n
<1>1. Numbers(list) \in SUBSET Nat
  BY DEF Numbers, MessageNumber
<1>2. PICK n \in Numbers(list) : \A k \in Numbers(list) : n <= k
  BY <1>1, NonemptyHasLeast
<1> QED
  BY <1>2 DEF Earliest

LEMMA LatestIsGreatest ==
  ASSUME HistoryAssumption, NEW list \in Held, Numbers(list) # {}
  PROVE  /\ Latest(list) \in Numbers(list)
         /\ \A n \in Numbers(list) : Latest(list) >= n
<1> DEFINE Rest == {MaxMessages - n : n \in Numbers(list)}
<1>1. Rest # {} /\ Rest \in SUBSET Nat
  BY DEF Numbers, MessageNumber, HistoryAssumption
<1>2. PICK r \in Rest : \A k \in Rest : r <= k
  BY <1>1, NonemptyHasLeast
<1>3. PICK n \in Numbers(list) : r = MaxMessages - n
  BY <1>2
<1>4. \A k \in Numbers(list) : r <= MaxMessages - k
  BY <1>2
<1>5. MaxMessages \in Nat /\ Numbers(list) \subseteq Nat
  BY DEF Numbers, MessageNumber, HistoryAssumption
<1>6. \A k \in Numbers(list) : n >= k
  <2> HIDE DEF Rest
  <2> QED
    BY <1>3, <1>4, <1>5
<1> QED
  BY <1>6 DEF Latest

LEMMA AppendAdds ==
  ASSUME NEW S, NEW s \in Seq(S), NEW e \in S, NEW x
  PROVE  x \in ToSet(Append(s, e)) <=> x = e \/ x \in ToSet(s)
<1>1. /\ Append(s, e) \in Seq(S) /\ Len(Append(s, e)) = Len(s) + 1
      /\ \A i \in 1 .. Len(s) : Append(s, e)[i] = s[i]
      /\ Append(s, e)[Len(s) + 1] = e
  BY AppendProperties
<1>2. DOMAIN Append(s, e) = 1 .. (Len(s) + 1) /\ DOMAIN s = 1 .. Len(s) /\ Len(s) \in Nat
  BY <1>1
<1>3. ASSUME NEW i \in 1 .. (Len(s) + 1), x = Append(s, e)[i], x # e
      PROVE  \E j \in 1 .. Len(s) : x = s[j]
  BY <1>1, <1>2, <1>3
<1> QED
  BY <1>1, <1>2, <1>3 DEF ToSet

LEMMA TailLeaves ==
  ASSUME NEW S, NEW s \in Seq(S), s # <<>>, NEW x
  PROVE  /\ Head(s) \in S /\ Tail(s) \in Seq(S)
         /\ x \in ToSet(s) <=> x = Head(s) \/ x \in ToSet(Tail(s))
<1>1. /\ Tail(s) \in Seq(S) /\ Len(s) > 0 /\ Len(Tail(s)) = Len(s) - 1 /\ Head(s) = s[1]
      /\ \A i \in 1 .. Len(Tail(s)) : Tail(s)[i] = s[i + 1]
  BY HeadTailProperties
<1>2. DOMAIN s = 1 .. Len(s) /\ DOMAIN Tail(s) = 1 .. Len(Tail(s))
  BY <1>1
<1>3. ASSUME NEW i \in 1 .. Len(s), x = s[i], x # Head(s)
      PROVE  \E j \in 1 .. Len(Tail(s)) : x = Tail(s)[j]
  <2>1. i - 1 \in 1 .. Len(Tail(s)) /\ Tail(s)[i - 1] = s[i]
    BY <1>1, <1>3
  <2> QED
    BY <2>1, <1>3
<1>4. x \in ToSet(s) => x = Head(s) \/ x \in ToSet(Tail(s))
  BY <1>2, <1>3 DEF ToSet
<1>5. x = Head(s) => x \in ToSet(s)
  BY <1>1, <1>2 DEF ToSet
<1>6. x \in ToSet(Tail(s)) => x \in ToSet(s)
  BY <1>1, <1>2 DEF ToSet
<1> QED
  BY <1>1, <1>4, <1>5, <1>6

\* Two lists merged hold what either holds, in the newer version.
LEMMA Merged ==
  ASSUME HistoryAssumption, NEW list \in Held, NEW page \in Held
  PROVE  /\ mergeMessages(list, page) \in Held
         /\ Numbers(mergeMessages(list, page)) = Numbers(list) \cup Numbers(page)
         /\ \A n \in MessageNumber :
              mergeMessages(list, page)[n] = IF list[n] > page[n] THEN list[n] ELSE page[n]
BY DEF Held, mergeMessages, Greater, Numbers, HistoryAssumption

LEMMA NothingHeld ==
  HistoryAssumption => Nothing \in Held /\ Numbers(Nothing) = {}
BY DEF Nothing, Held, Numbers, HistoryAssumption

\* The request on its way, before and after the server has read its page.
LEMMA PendingKinds ==
  ASSUME HistoryTypeOK
  PROVE  /\ HasPage => pending \in Answered
         /\ ~HasPage => pending \in Asked \cup {NoRequest}
         /\ pending.kind = "idle" <=> pending = NoRequest
         /\ pending # NoRequest =>
              pending.kind \in {"load", "older", "catchUp"} /\ pending.cursor \in 0 .. MaxMessages
         /\ HasPage => pending.page \in Held /\ pending.more \in BOOLEAN
BY DEF HistoryTypeOK, HasPage, NoRequest, Asked, Answered

\* A message received joins what is on screen, and moves no end of it.
LEMMA MessageReceived ==
  ASSUME HistoryAssumption, HistoryTypeOK, VersionsKnown, InCache,
         NEW m \in Message, Known(m), receiveMessage(m)
  PROVE  /\ loaded' \in Held
         /\ Numbers(loaded') # {} => opened
         /\ \A n \in MessageNumber : loaded'[n] > 0 => n <= Len(log) /\ loaded'[n] <= log[n]
         /\ \A n \in MessageNumber : n <= Len(log) /\ loaded[n] = log[n] => loaded'[n] = log[n]
         /\ Numbers(loaded) # {} =>
              /\ \A n \in Nat : OnScreen(n)' <=> OnScreen(n)
              /\ OnScreen(m.n) /\ m.v = log[m.n] => loaded'[m.n] = log[m.n]
<1> DEFINE one == [Nothing EXCEPT ![m.n] = m.v]
<1>1. m.n \in MessageNumber /\ m.v \in Version
  BY DEF Message
<1>2. one \in Held /\ one[m.n] = m.v /\ \A n \in MessageNumber : n # m.n => one[n] = 0
  BY <1>1 DEF Nothing, Held, Version, HistoryAssumption
<1>3. loaded \in Held /\ log \in Seq(Version) /\ Len(log) \in Nat
  BY DEF HistoryTypeOK
<1>4. \A n \in 1 .. Len(log) : log[n] \in Nat
  <2>1. \A n \in 1 .. Len(log) : log[n] \in Version
    BY <1>3
  <2> QED
    BY <2>1 DEF Version
<1>5. CASE loaded' = loaded /\ ~opened
  BY <1>3, <1>5 DEF VersionsKnown, Seen, InCache, OnScreen
<1>6. CASE loaded' = loaded /\ opened /\ Numbers(loaded) # {} /\ ~(m.n >= Earliest(loaded))
  <2>1. ~OnScreen(m.n)
    BY <1>1, <1>3, <1>6, EarliestIsLeast DEF OnScreen, Numbers, MessageNumber
  <2> QED
    BY <1>3, <1>6, <2>1 DEF VersionsKnown, Seen, OnScreen
<1>7. CASE /\ loaded' = mergeMessages(loaded, one) /\ opened
           /\ Numbers(loaded) = {} \/ m.n >= Earliest(loaded) \/ loaded[m.n] > 0
  <2> HIDE DEF one
  <2>1. /\ loaded' \in Held
        /\ Numbers(loaded') = Numbers(loaded) \cup Numbers(one)
        /\ \A n \in MessageNumber : loaded'[n] = IF loaded[n] > one[n] THEN loaded[n] ELSE one[n]
    BY <1>2, <1>3, <1>7, Merged
  <2>2. \A n \in MessageNumber : loaded'[n] > 0 => n <= Len(log) /\ loaded'[n] <= log[n]
    BY <1>1, <1>2, <1>3, <2>1 DEF VersionsKnown, Seen, Known, Held
  <2>3. \A n \in MessageNumber : n <= Len(log) /\ loaded[n] = log[n] => loaded'[n] = log[n]
    <3> TAKE n \in MessageNumber
    <3> QED
      BY <1>1, <1>2, <1>3, <1>4, <2>1, <2>2 DEF Held, MessageNumber
  <2>4. ASSUME Numbers(loaded) # {}
        PROVE  \A n \in Nat : OnScreen(n)' <=> OnScreen(n)
    <3>1. PICK k \in Numbers(loaded) : k <= m.n
      BY <1>1, <1>3, <1>7, <2>4, EarliestIsLeast DEF Numbers, MessageNumber
    <3>2. \A n \in Numbers(loaded') : n \in Numbers(loaded) \/ n = m.n
      BY <1>2, <2>1 DEF Numbers
    <3> QED
      BY <2>1, <3>1, <3>2, <1>1 DEF OnScreen, Numbers, MessageNumber
  <2>5. m.v = log[m.n] /\ m.n <= Len(log) => loaded'[m.n] = log[m.n]
    BY <1>1, <1>2, <1>3, <1>4, <2>1, <2>2 DEF Held, Version, MessageNumber
  <2> QED
    BY <1>7, <2>1, <2>2, <2>3, <2>4, <2>5 DEF Known
<1>8. \/ loaded' = loaded /\ ~opened
      \/ loaded' = loaded /\ opened /\ Numbers(loaded) # {} /\ ~(m.n >= Earliest(loaded))
      \/ /\ loaded' = mergeMessages(loaded, one) /\ opened
         /\ Numbers(loaded) = {} \/ m.n >= Earliest(loaded) \/ loaded[m.n] > 0
  BY DEF receiveMessage
<1> HIDE DEF one
<1> QED
  BY <1>5, <1>6, <1>7, <1>8

\* What the server reads into a page: versions of the log; the page leaves
\* nothing out between its cursor and its end.
LEMMA PageRead ==
  ASSUME HistoryAssumption, HistoryTypeOK, Cursors, NEW r \in Asked, r.cursor <= Len(log)
  PROVE  LET a == Page(r) IN
           /\ a \in Answered /\ a.kind = r.kind /\ a.cursor = r.cursor
           /\ \A n \in MessageNumber : a.page[n] > 0 => n <= Len(log) /\ a.page[n] <= log[n]
           /\ a.more => Numbers(a.page) # {}
           /\ r.kind = "catchUp" =>
                /\ \A n \in Numbers(a.page) : n > r.cursor
                /\ \A n \in MessageNumber :
                     /\ n > r.cursor /\ n <= Len(log)
                     /\ ~a.more \/ \E k \in Numbers(a.page) : n <= k
                     => a.page[n] = log[n]
<1> DEFINE wanted == IF r.kind = "catchUp" THEN (r.cursor + 1) .. Len(log)
                     ELSE IF r.kind = "older" THEN 1 .. (r.cursor - 1) ELSE 1 .. Len(log)
           inPage(n) == IF r.kind = "catchUp" THEN n <= r.cursor + CatchUpPage
                        ELSE \A k \in wanted : k < n + PageSize
           numbers == {n \in wanted : inPage(n)}
           page == [n \in MessageNumber |-> IF n \in numbers THEN log[n] ELSE 0]
<1>1. /\ log \in Seq(Version) /\ Len(log) \in Nat /\ Len(log) <= MaxMessages
      /\ \A n \in 1 .. Len(log) : log[n] \in Version
      /\ r.cursor \in Nat
  BY DEF HistoryTypeOK, Asked
<1>2. wanted \subseteq 1 .. Len(log) /\ 1 .. Len(log) \subseteq MessageNumber
  BY <1>1 DEF MessageNumber, HistoryAssumption
<1>3. numbers \subseteq wanted
  OBVIOUS
<1>4. page \in Held /\ Numbers(page) = numbers
  <2>1. \A n \in numbers : log[n] \in 1 .. MaxVersion
    BY <1>1, <1>2, <1>3 DEF Version
  <2>2. numbers \subseteq MessageNumber
    BY <1>2, <1>3
  <2> HIDE DEF numbers
  <2>3. page \in Held
    BY <2>1 DEF Held, HistoryAssumption
  <2> QED
    BY <2>1, <2>2, <2>3 DEF Numbers
<1>5. numbers # wanted => numbers # {}
  <2> SUFFICES ASSUME wanted # {} PROVE numbers # {}
    OBVIOUS
  <2>1. CASE r.kind = "catchUp"
    <3>1. r.cursor + 1 \in numbers
      BY <1>1, <2>1 DEF HistoryAssumption
    <3> QED
      BY <3>1
  <2>2. CASE r.kind # "catchUp" /\ r.kind = "older"
    <3>1. r.cursor - 1 \in numbers
      BY <1>1, <2>2 DEF HistoryAssumption
    <3> QED
      BY <3>1
  <2>3. CASE r.kind # "catchUp" /\ r.kind # "older"
    <3>1. Len(log) \in numbers
      BY <1>1, <2>3 DEF HistoryAssumption
    <3> QED
      BY <3>1
  <2> QED
    BY <2>1, <2>2, <2>3
<1>6. PICK a : a = Answer(r, page, numbers # wanted)
  OBVIOUS
<1>7. /\ a \in Answered /\ a.kind = r.kind /\ a.cursor = r.cursor
      /\ a.page = page /\ a.more = (numbers # wanted)
  <2> HIDE DEF page, numbers, wanted
  <2> QED
    BY <1>4, <1>6 DEF Answer, Asked, Answered
<1>8. Page(r) = a
  BY <1>6 DEF Page
<1>9. \A n \in MessageNumber : a.page[n] > 0 => n <= Len(log) /\ a.page[n] <= log[n]
  BY <1>1, <1>2, <1>3, <1>4, <1>7 DEF Version, Numbers
<1>10. ASSUME r.kind = "catchUp"
       PROVE  /\ \A n \in Numbers(a.page) : n > r.cursor
              /\ \A n \in MessageNumber :
                     /\ n > r.cursor /\ n <= Len(log)
                     /\ ~a.more \/ \E k \in Numbers(a.page) : n <= k
                     => a.page[n] = log[n]
  <2>1. \A n \in numbers : n > r.cursor /\ n <= r.cursor + CatchUpPage
    BY <1>1, <1>10
  <2>2. ASSUME NEW n \in MessageNumber, n > r.cursor, n <= Len(log),
               numbers = wanted \/ \E k \in numbers : n <= k
        PROVE  n \in numbers
    <3>1. n \in wanted
      BY <1>1, <1>10, <2>2 DEF MessageNumber
    <3> QED
      BY <1>1, <1>10, <2>1, <2>2, <3>1 DEF MessageNumber, HistoryAssumption
  <2> HIDE DEF numbers, wanted
  <2> QED
    BY <1>4, <1>7, <2>1, <2>2
<1> QED
  BY <1>4, <1>5, <1>7, <1>8, <1>9, <1>10

-----------------------------------------------------------------------------
(* Each step keeps the invariant.                                          *)

\* While no request is answered and nothing is asked, a catch-up stays on its
\* way, if every version is still to come or still held.
LEMMA RepairsStay ==
  ASSUME HistoryInv, HistoryTypeOK', pending' = pending, Len(log) <= Len(log'),
         Numbers(loaded) # {} => \A n \in Nat : OnScreen(n)' <=> OnScreen(n),
         \A n \in MessageNumber : n <= Len(log') =>
           \/ OnItsWay(n)'
           \/ n <= Len(log) /\ log'[n] = log[n] /\ (OnScreen(n) /\ Repaired(n) => Repaired(n)')
  PROVE  Repairs'
<1> SUFFICES ASSUME pending.kind = "catchUp"
             PROVE  Repairs'
  BY DEF Repairs
<1>1. /\ pending # NoRequest /\ pending.cursor \in Nat /\ Repairs
      /\ HasPage' <=> HasPage
      /\ HasPage => pending.page \in Held
  BY PendingKinds DEF HistoryInv, NoRequest, HasPage
<1>2. Numbers(loaded) # {} /\ OnScreen(pending.cursor + 1)
  BY <1>1 DEF Repairs, OnScreen
<1>3. \E k \in Numbers(loaded') : k <= pending.cursor + 1
  BY <1>1, <1>2 DEF OnScreen
<1>4. ASSUME NEW n \in MessageNumber, n <= Len(log'), n <= pending.cursor, OnScreen(n)'
      PROVE  Repaired(n)'
  BY <1>1, <1>2, <1>4 DEF Repairs, Repaired, MessageNumber
<1>5. ASSUME HasPage, NEW n \in MessageNumber, n > pending.cursor, Covered(n)'
      PROVE  pending.page[n] = log'[n] \/ Repaired(n)'
  <2>1. OnScreen(n)
    BY <1>1, <1>2, <1>5 DEF OnScreen, Numbers, MessageNumber
  <2>2. CASE OnItsWay(n)'
    BY <2>2 DEF Repaired
  <2>3. CASE n <= Len(log) /\ log'[n] = log[n] /\ (OnScreen(n) /\ Repaired(n) => Repaired(n)')
    <3>1. Covered(n)
      BY <1>5, <2>3 DEF Covered
    <3> QED
      BY <1>1, <1>5, <2>1, <2>3, <3>1 DEF Repairs
  <2> QED
    BY <1>5, <2>2, <2>3 DEF Covered
<1>6. HasPage => \A n \in Numbers(pending.page) : n > pending.cursor
  BY <1>1 DEF Repairs
<1> QED
  BY <1>1, <1>3, <1>4, <1>5, <1>6 DEF Repairs, OnScreen, HasPage

LEMMA WriteStep ==
  ASSUME HistoryAssumption, HistoryInv, NEW n \in MessageNumber, NEW own \in BOOLEAN, Write(n, own)
  PROVE  HistoryInv'
<1> USE DEF HistoryInv
<1>1. PICK v : v = IF n <= Len(log) THEN log[n] + 1 ELSE 1
  OBVIOUS
<1>2. PICK m : m = [n |-> n, v |-> v]
  OBVIOUS
<1>3. /\ n <= Len(log) + 1 /\ v <= MaxVersion
      /\ writes < MaxWrites /\ writes' = writes + 1
      /\ log' = IF n <= Len(log) THEN [log EXCEPT ![n] = v] ELSE Append(log, v)
      /\ publishing' = publishing \cup {m}
      /\ replies' \in {replies, replies \cup {m}}
      /\ UNCHANGED <<socketVars, subscribed, cache, pending, failures>>
  BY <1>1, <1>2, Zenon DEF Write
<1>4. UNCHANGED <<connected, events, disruptions, subscribed, opened, loaded, before, loading,
                  loadingOlder, failed, pending, failures>>
  BY <1>3 DEF socketVars, cache, flags
<1>5. log \in Seq(Version) /\ Len(log) \in Nat /\ \A k \in 1 .. Len(log) : log[k] \in Version
  BY DEF HistoryTypeOK
<1>6. v \in Version /\ (n <= Len(log) => v = log[n] + 1)
  BY <1>1, <1>3, <1>5 DEF Version, MessageNumber
<1>7. m \in Message /\ m.n = n /\ m.v = v
  BY <1>2, <1>6 DEF Message
<1>8. /\ log' \in Seq(Version) /\ Len(log') \in Nat /\ Len(log) <= Len(log')
      /\ n <= Len(log') /\ Len(log') <= MaxMessages /\ log'[n] = v
      /\ \A k \in 1 .. Len(log) : k # n => log'[k] = log[k]
      /\ \A k \in 1 .. Len(log') : k = n \/ k <= Len(log)
  <2>1. CASE n <= Len(log)
    BY <1>3, <1>5, <1>6, <2>1 DEF MessageNumber, HistoryTypeOK
  <2>2. CASE ~(n <= Len(log))
    <3>1. n = Len(log) + 1 /\ log' = Append(log, v)
      BY <1>3, <1>5, <2>2 DEF MessageNumber
    <3>2. /\ log' \in Seq(Version) /\ Len(log') = Len(log) + 1
          /\ \A k \in 1 .. Len(log) : log'[k] = log[k]
          /\ log'[Len(log) + 1] = v
      BY <1>5, <1>6, <3>1, AppendProperties
    <3> QED
      BY <1>5, <3>1, <3>2 DEF MessageNumber, HistoryAssumption
  <2> QED
    BY <2>1, <2>2
<1>9. \A k \in MessageNumber : k <= Len(log) => k <= Len(log') /\ log[k] <= log'[k]
  BY <1>5, <1>6, <1>8 DEF MessageNumber, Version
<1>10. HistoryTypeOK'
  BY <1>3, <1>4, <1>7, <1>8 DEF HistoryTypeOK, HistoryAssumption
<1>11. VersionsKnown'
  <2>1. \A k \in MessageNumber, x \in 0 .. MaxVersion :
          k <= Len(log) /\ x <= log[k] => k <= Len(log') /\ x <= log'[k]
    BY <1>5, <1>6, <1>8 DEF MessageNumber, Version
  <2>2. \A x \in Message : Known(x) => Known(x)'
    BY <2>1, HistoryAssumption DEF Message, Known, Version
  <2>3. \A list \in Held : Seen(list) => Seen(list)'
    BY <2>1 DEF Seen, Held
  <2>4. Known(m)'
    BY <1>6, <1>7, <1>8 DEF Known, Version
  <2>5. \A x \in publishing' \cup replies' : Known(x)'
    BY <1>3, <2>2, <2>4 DEF VersionsKnown, HistoryTypeOK
  <2>6. \A e \in ToSet(events) : e.kind = "message" => e.message \in Message
    BY DEF ToSet, HistoryTypeOK, Event
  <2>7. (HasPage => Seen(pending.page))'
    BY <1>4, <2>3, PendingKinds DEF VersionsKnown, HasPage
  <2>8. Seen(loaded)'
    BY <1>4, <2>3 DEF VersionsKnown, HistoryTypeOK
  <2> QED
    BY <1>4, <2>2, <2>5, <2>6, <2>7, <2>8 DEF VersionsKnown
<1>12. Cursors'
  BY <1>4, <1>5, <1>8, PendingKinds DEF Cursors, HasPage, HistoryTypeOK
<1>13. InCache'
  BY <1>4 DEF InCache
<1>14. Repairs'
  <2>1. \A k \in Nat : OnScreen(k)' <=> OnScreen(k)
    BY <1>4 DEF OnScreen
  <2>2. OnItsWay(n)'
    BY <1>2, <1>3, <1>8 DEF OnItsWay
  <2>3. ASSUME NEW k \in MessageNumber, k <= Len(log'), k # n
        PROVE  k <= Len(log) /\ log'[k] = log[k] /\ (Repaired(k) => Repaired(k)')
    <3>1. k <= Len(log) /\ log'[k] = log[k]
      BY <1>8, <2>3 DEF MessageNumber
    <3>2. OnItsWay(k) => OnItsWay(k)'
      <4>1. publishing \subseteq publishing' /\ events' = events /\ log'[k] = log[k]
        BY <1>3, <1>4, <3>1
      <4> QED
        BY <4>1, Zenon DEF OnItsWay
    <3>3. Again => Again'
      BY <1>4 DEF Again
    <3> QED
      BY <1>4, <3>1, <3>2, <3>3 DEF Repaired
  <2> QED
    BY <1>4, <1>8, <1>10, <2>1, <2>2, <2>3, RepairsStay
<1> QED
  BY <1>10, <1>11, <1>12, <1>13, <1>14
LEMMA PublishStep ==
  ASSUME HistoryAssumption, HistoryInv, NEW m \in publishing, Publish(m)
  PROVE  HistoryInv'
<1> USE DEF HistoryInv
<1>1. PICK e : e = [kind |-> "message", message |-> m]
  OBVIOUS
<1>2. /\ publishing' = publishing \ {m}
      /\ events' = IF connected THEN Append(events, e) ELSE events
      /\ UNCHANGED <<log, writes, replies, connected, disruptions, subscribed, opened, loaded,
                     before, loading, loadingOlder, failed, pending, failures>>
  BY <1>1, Zenon DEF Publish, cache, flags
<1>3. m \in Message /\ events \in Seq(Event)
  BY DEF HistoryTypeOK
<1>4. e \in Event /\ e.message = m
  BY <1>1, <1>3 DEF Event
<1>5. /\ events' \in Seq(Event)
      /\ \A x : x \in ToSet(events') => x = e \/ x \in ToSet(events)
      /\ \A x : x \in ToSet(events) => x \in ToSet(events')
      /\ connected => e \in ToSet(events')
  BY <1>2, <1>3, <1>4, AppendAdds, AppendProperties
<1>6. HistoryTypeOK'
  BY <1>2, <1>5 DEF HistoryTypeOK
<1>7. VersionsKnown'
  BY <1>2, <1>4, <1>5 DEF VersionsKnown, Known, Seen, HasPage
<1>8. Cursors'
  BY <1>2 DEF Cursors, HasPage
<1>9. InCache'
  BY <1>2 DEF InCache
<1>10. Repairs'
  <2>1. \A k \in Nat : OnScreen(k)' <=> OnScreen(k)
    BY <1>2 DEF OnScreen
  <2>2. Again => Again'
    BY <1>2, <1>5 DEF Again
  <2>3. ASSUME NEW k \in MessageNumber, Repaired(k)
        PROVE  Repaired(k)'
    <3>1. CASE loaded[k] = log[k] \/ Again
      BY <1>2, <2>2, <3>1 DEF Repaired
    <3>2. CASE OnItsWay(k)
      <4>1. PICK x : x = [n |-> k, v |-> log[k]]
        OBVIOUS
      <4>2. x \in publishing \/ [kind |-> "message", message |-> x] \in ToSet(events)
        BY <3>2, <4>1, Zenon DEF OnItsWay
      <4>3. \/ x \in publishing' \/ [kind |-> "message", message |-> x] \in ToSet(events')
            \/ ~connected'
        BY <1>1, <1>2, <1>5, <4>2
      <4> QED
        BY <1>2, <4>1, <4>3, Zenon DEF Repaired, OnItsWay, Again
    <3> QED
      BY <2>3, <3>1, <3>2 DEF Repaired
  <2> QED
    BY <1>2, <1>6, <2>1, <2>3, RepairsStay
<1> QED
  BY <1>6, <1>7, <1>8, <1>9, <1>10

LEMMA ReadStep ==
  ASSUME HistoryAssumption, HistoryInv, Read
  PROVE  HistoryInv'
<1> USE DEF HistoryInv
<1>1. /\ pending \in Asked /\ ~HasPage /\ pending' = Page(pending)
      /\ UNCHANGED <<log, writes, publishing, replies, connected, events, disruptions, subscribed,
                     opened, loaded, before, loading, loadingOlder, failed, failures>>
  BY PendingKinds DEF Read, HasPage, serverVars, socketVars, cache, flags, NoRequest
<1>2. pending.cursor <= Len(log)
  BY <1>1, PendingKinds DEF Cursors, NoRequest, Read
<1>3. /\ pending' \in Answered /\ pending'.kind = pending.kind /\ pending'.cursor = pending.cursor
      /\ \A n \in MessageNumber :
           pending'.page[n] > 0 => n <= Len(log) /\ pending'.page[n] <= log[n]
      /\ pending'.more => Numbers(pending'.page) # {}
      /\ pending.kind = "catchUp" =>
           /\ \A n \in Numbers(pending'.page) : n > pending.cursor
           /\ \A n \in MessageNumber :
                /\ n > pending.cursor /\ n <= Len(log)
                /\ ~pending'.more \/ \E k \in Numbers(pending'.page) : n <= k
                => pending'.page[n] = log[n]
  BY <1>1, <1>2, PageRead
<1>4. HistoryTypeOK'
  BY <1>1, <1>3 DEF HistoryTypeOK
<1>5. VersionsKnown'
  BY <1>1, <1>3 DEF VersionsKnown, Known, Seen
<1>6. Cursors'
  BY <1>1, <1>2, <1>3 DEF Cursors
<1>7. InCache'
  BY <1>1 DEF InCache
<1>8. Repairs'
  <2>1. \A k \in MessageNumber : Repaired(k)' <=> Repaired(k)
    BY <1>1, Zenon DEF Repaired, OnItsWay, Again
  <2>2. SUFFICES ASSUME pending.kind = "catchUp"
                 PROVE  Repairs'
    BY <1>3 DEF Repairs
  <2> QED
    BY <1>1, <1>3, <2>1, <2>2 DEF Repairs, OnScreen, Covered
<1> QED
  BY <1>4, <1>5, <1>6, <1>7, <1>8

\* The socket: what it still carries, or what it owes after it was lost.
LEMMA SocketSteps ==
  ASSUME HistoryAssumption, HistoryInv, SocketLost \/ RoomsChange \/ Reconnect
  PROVE  HistoryInv'
<1> USE DEF HistoryInv
<1>1. /\ UNCHANGED <<log, writes, publishing, replies, subscribed, opened, loaded, before, loading,
                     loadingOlder, failed, pending, failures>>
      /\ connected' \in BOOLEAN /\ disruptions' \in 0 .. MaxDisruptions
  <2>1. /\ UNCHANGED <<log, writes, publishing, replies, subscribed, opened, loaded, before, loading,
                       loadingOlder, failed, pending, failures>>
        /\ connected' \in {connected, TRUE, FALSE}
        /\ disruptions' = disruptions \/ (disruptions < MaxDisruptions /\ disruptions' = disruptions + 1)
    BY DEF SocketLost, RoomsChange, Reconnect, Disrupt, serverVars, cache, flags
  <2>2. disruptions \in 0 .. MaxDisruptions /\ connected \in BOOLEAN /\ MaxDisruptions \in Nat
    BY DEF HistoryTypeOK, HistoryAssumption
  <2>3. disruptions' \in 0 .. MaxDisruptions
    BY <2>1, <2>2
  <2> QED
    BY <2>1, <2>2, <2>3
<1>2. /\ events' \in Seq(Event)
      /\ \A x \in ToSet(events') : x \in ToSet(events) \/ x.kind # "message"
      /\ Again' \/ (connected' = connected /\ \A x \in ToSet(events) : x \in ToSet(events'))
  <2>1. events \in Seq(Event)
    BY DEF HistoryTypeOK
  <2>2. CASE SocketLost
    BY <2>1, <2>2 DEF SocketLost, Again, ToSet
  <2>3. CASE RoomsChange
    <3>1. PICK e : e = [kind |-> "reset"]
      OBVIOUS
    <3>2. e \in Event /\ e.kind = "reset"
      BY <3>1 DEF Event
    <3> QED
      BY <2>1, <2>3, <3>1, <3>2, AppendAdds, AppendProperties DEF RoomsChange
  <2>4. CASE Reconnect
    <3>1. PICK e : e = [kind |-> "ready"]
      OBVIOUS
    <3>2. e \in Event /\ e.kind = "ready" /\ events' = <<e>>
      BY <2>4, <3>1 DEF Event, Reconnect
    <3>3. ToSet(events') = {e}
      BY <3>2 DEF ToSet
    <3> QED
      BY <3>1, <3>2, <3>3 DEF Again
  <2> QED
    BY <2>2, <2>3, <2>4
<1>3. HistoryTypeOK'
  BY <1>1, <1>2 DEF HistoryTypeOK
<1>4. VersionsKnown'
  BY <1>1, <1>2 DEF VersionsKnown, Known, Seen, HasPage
<1>5. Cursors'
  BY <1>1 DEF Cursors, HasPage
<1>6. InCache'
  BY <1>1 DEF InCache
<1>7. Repairs'
  <2>1. \A k \in Nat : OnScreen(k)' <=> OnScreen(k)
    BY <1>1 DEF OnScreen
  <2>2. ASSUME NEW k \in MessageNumber, Repaired(k)
        PROVE  Repaired(k)'
    <3>1. CASE Again'
      BY <3>1 DEF Repaired
    <3>2. CASE connected' = connected /\ \A x \in ToSet(events) : x \in ToSet(events')
      <4>1. OnItsWay(k) => OnItsWay(k)'
        BY <1>1, <3>2, Zenon DEF OnItsWay
      <4>2. Again => Again'
        BY <3>2 DEF Again
      <4> QED
        BY <1>1, <2>2, <4>1, <4>2 DEF Repaired
    <3> QED
      BY <1>2, <3>1, <3>2
  <2> QED
    BY <1>1, <1>3, <2>1, <2>2, RepairsStay
<1> QED
  BY <1>3, <1>4, <1>5, <1>6, <1>7

\* A message received, from a reply or from the head of the socket's events.
LEMMA ReceivingSteps ==
  ASSUME HistoryAssumption, HistoryInv, (\E m \in replies : ReplyReceived(m)) \/ MessageEvent
  PROVE  HistoryInv'
<1> USE DEF HistoryInv
<1>1. \E m \in Message :
        /\ Known(m) /\ receiveMessage(m)
        /\ events' \in Seq(Event) /\ replies' \subseteq Message
        /\ replies' \subseteq replies /\ \A x \in ToSet(events') : x \in ToSet(events)
        /\ \A x \in ToSet(events) : x \in ToSet(events') \/ x = [kind |-> "message", message |-> m]
  <2>1. ASSUME NEW m \in replies, ReplyReceived(m)
        PROVE  m \in Message /\ Known(m) /\ receiveMessage(m) /\ events' = events
               /\ replies' = replies \ {m}
    BY <2>1 DEF ReplyReceived, VersionsKnown, HistoryTypeOK, socketVars
  <2>2. ASSUME MessageEvent
        PROVE  \E m \in Message :
                 /\ Known(m) /\ receiveMessage(m) /\ replies' = replies
                 /\ events' \in Seq(Event) /\ \A x \in ToSet(events') : x \in ToSet(events)
                 /\ \A x \in ToSet(events) :
                      x \in ToSet(events') \/ x = [kind |-> "message", message |-> m]
    <3>1. /\ events # <<>> /\ Head(events).kind = "message" /\ events' = Tail(events)
          /\ receiveMessage(Head(events).message) /\ replies' = replies
      BY <2>2 DEF MessageEvent, serverVars
    <3>2. /\ Head(events) \in Event /\ events' \in Seq(Event)
          /\ \A x : x \in ToSet(events) <=> x = Head(events) \/ x \in ToSet(events')
      BY <3>1, TailLeaves DEF HistoryTypeOK
    <3>3. PICK m \in Message : Head(events) = [kind |-> "message", message |-> m]
      BY <3>1, <3>2 DEF Event
    <3>4. Head(events).message = m /\ Known(m)
      BY <3>1, <3>2, <3>3 DEF VersionsKnown
    <3> QED
      BY <3>1, <3>2, <3>3, <3>4
  <2> QED
    BY <2>1, <2>2 DEF HistoryTypeOK
<1>2. UNCHANGED <<log, writes, publishing, connected, disruptions, subscribed, opened, before, loading,
                  loadingOlder, failed, pending, failures>>
  BY DEF ReplyReceived, MessageEvent, serverVars, socketVars, flags
<1>3. PICK m \in Message :
        /\ Known(m) /\ receiveMessage(m)
        /\ events' \in Seq(Event) /\ replies' \subseteq Message
        /\ replies' \subseteq replies /\ \A x \in ToSet(events') : x \in ToSet(events)
        /\ \A x \in ToSet(events) : x \in ToSet(events') \/ x = [kind |-> "message", message |-> m]
  BY <1>1
<1>4. /\ loaded' \in Held
      /\ Numbers(loaded') # {} => opened
      /\ \A n \in MessageNumber : loaded'[n] > 0 => n <= Len(log) /\ loaded'[n] <= log[n]
      /\ \A n \in MessageNumber : n <= Len(log) /\ loaded[n] = log[n] => loaded'[n] = log[n]
      /\ Numbers(loaded) # {} =>
           /\ \A n \in Nat : OnScreen(n)' <=> OnScreen(n)
           /\ OnScreen(m.n) /\ m.v = log[m.n] => loaded'[m.n] = log[m.n]
  <2>1. HistoryTypeOK /\ VersionsKnown /\ InCache
    OBVIOUS
  <2> HIDE DEF HistoryInv
  <2> QED
    BY <1>3, <2>1, MessageReceived
<1>5. HistoryTypeOK'
  BY <1>2, <1>3, <1>4 DEF HistoryTypeOK
<1>6. VersionsKnown'
  BY <1>2, <1>3, <1>4 DEF VersionsKnown, Known, Seen, HasPage
<1>7. Cursors'
  BY <1>2 DEF Cursors, HasPage
<1>8. InCache'
  BY <1>2, <1>4 DEF InCache
<1>9. Repairs'
  <2>1. ASSUME NEW k \in MessageNumber, k <= Len(log), OnScreen(k), Repaired(k)
        PROVE  Repaired(k)'
    <3>1. CASE loaded[k] = log[k]
      BY <1>2, <1>4, <2>1, <3>1 DEF Repaired
    <3>2. CASE Again
      <4>1. ASSUME [kind |-> "ready"] \in ToSet(events)
            PROVE  [kind |-> "ready"] \in ToSet(events')
        <5>1. [kind |-> "ready"] # [kind |-> "message", message |-> m]
          OBVIOUS
        <5> QED
          BY <1>3, <4>1, <5>1
      <4> QED
        BY <1>2, <3>2, <4>1 DEF Again, Repaired
    <3>3. CASE OnItsWay(k)
      <4>1. PICK x : x = [n |-> k, v |-> log[k]]
        OBVIOUS
      <4>2. x \in publishing \/ [kind |-> "message", message |-> x] \in ToSet(events)
        BY <3>3, <4>1, Zenon DEF OnItsWay
      <4>3. \/ x \in publishing' \/ [kind |-> "message", message |-> x] \in ToSet(events')
            \/ x = m
        <5>1. [kind |-> "message", message |-> x] = [kind |-> "message", message |-> m] => x = m
          OBVIOUS
        <5> QED
          BY <1>2, <1>3, <4>2, <5>1
      <4>4. CASE x = m
        <5>1. m.n = k /\ m.v = log[k] /\ Numbers(loaded) # {}
          BY <2>1, <4>1, <4>4 DEF OnScreen
        <5> QED
          BY <1>2, <1>4, <2>1, <5>1 DEF Repaired
      <4> QED
        BY <1>2, <4>1, <4>3, <4>4, Zenon DEF Repaired, OnItsWay
    <3> QED
      BY <2>1, <3>1, <3>2, <3>3 DEF Repaired
  <2> QED
    BY <1>2, <1>4, <1>5, <2>1, RepairsStay
<1> QED
  BY <1>5, <1>6, <1>7, <1>8, <1>9
\* The steps of the cache itself: the server and the socket stay, no request is
\* answered, and a catch-up that goes on has repaired what it has passed.
LEMMA CacheStep ==
  ASSUME HistoryInv,
         UNCHANGED <<log, writes, publishing, replies, connected, disruptions>>,
         events' \in Seq(Event), \A x \in ToSet(events') : x \in ToSet(events),
         {subscribed', opened', loading', loadingOlder', failed'} \subseteq BOOLEAN,
         failures' \in 0 .. MaxFailures,
         loaded' \in Held, Numbers(loaded') # {} => opened',
         \A n \in MessageNumber : loaded'[n] > 0 => n <= Len(log) /\ loaded'[n] <= log[n],
         before' \in 0 .. MaxMessages, before' <= Len(log),
         NEW r \in Asked \cup {NoRequest}, pending' = r,
         r # NoRequest => r.cursor <= Len(log),
         r.kind = "catchUp" =>
           /\ \E k \in Numbers(loaded') : k <= r.cursor + 1
           /\ \A n \in MessageNumber :
                n <= Len(log) /\ n <= r.cursor /\ (\E k \in Numbers(loaded') : k <= n) =>
                  loaded'[n] = log[n] \/ OnItsWay(n)' \/ Again'
  PROVE  HistoryInv'
<1>1. HistoryTypeOK'
  BY DEF HistoryInv, HistoryTypeOK
<1>2. ~HasPage'
  BY DEF HasPage, Asked, NoRequest
<1>3. VersionsKnown'
  BY <1>2 DEF HistoryInv, VersionsKnown, Known, Seen
<1>4. Cursors'
  BY <1>2 DEF Cursors
<1>5. InCache'
  BY DEF InCache
<1>6. Repairs'
  <2>2. SUFFICES ASSUME r.kind = "catchUp"
                 PROVE  Repairs'
    BY DEF Repairs
  <2>3. \A n \in MessageNumber : n <= Len(log) /\ n <= r.cursor /\ OnScreen(n)' => Repaired(n)'
    BY <2>2 DEF Repaired, OnScreen
  <2>4. \E k \in Numbers(loaded') : k <= r.cursor + 1
    BY <2>2
  <2> QED
    BY <1>2, <2>3, <2>4 DEF Repairs, OnScreen
<1> QED
  BY <1>1, <1>3, <1>4, <1>5, <1>6 DEF HistoryInv

LEMMA AskedKinds ==
  ASSUME NEW kind \in {"load", "older", "catchUp"}, NEW cursor \in 0 .. MaxMessages,
         NEW empty \in BOOLEAN, NEW r, r = Asks(kind, cursor, empty)
  PROVE  r \in Asked /\ r.kind = kind /\ r.cursor = cursor /\ r # NoRequest
BY DEF Asks, Asked, NoRequest

LEMMA Lists ==
  ASSUME HistoryAssumption, HistoryInv
  PROVE  /\ {subscribed, opened, loading, loadingOlder, failed} \subseteq BOOLEAN
         /\ failures \in 0 .. MaxFailures
         /\ loaded \in Held
         /\ \A n \in MessageNumber : loaded[n] > 0 => n <= Len(log) /\ loaded[n] <= log[n]
         /\ before \in 0 .. MaxMessages /\ before <= Len(log)
         /\ Numbers(loaded) # {} => opened
         /\ \A n \in MessageNumber : Nothing[n] = 0
         /\ Nothing \in Held /\ Numbers(Nothing) = {}
         /\ events \in Seq(Event) /\ Len(log) \in Nat /\ Len(log) <= MaxMessages /\ MaxMessages \in Nat
BY NothingHeld DEF HistoryInv, HistoryTypeOK, VersionsKnown, Seen, Cursors, InCache, Nothing,
   HistoryAssumption

\* What ends with no request, or with one for a page of the history.
LEMMA LoadingSteps ==
  ASSUME HistoryAssumption, HistoryInv,
         \/ loadConversation \/ loadOlder \/ Mount \/ Unmount \/ Evict
         \/ RequestFails \/ discardRoomAccess
  PROVE  HistoryInv'
<1>1. UNCHANGED <<log, writes, publishing, replies, connected, events, disruptions>>
  BY DEF loadConversation, loadOlder, Mount, Unmount, Evict, RequestFails, discardRoomAccess,
         serverVars, socketVars
<1>2. /\ {subscribed', opened', loading', loadingOlder', failed'} \subseteq BOOLEAN
      /\ failures' \in 0 .. MaxFailures
  <2>1. failures' = failures \/ (failures < MaxFailures /\ failures' = failures + 1)
    <3>1. loadConversation \/ loadOlder \/ Mount \/ Unmount \/ Evict => failures' = failures
      BY Zenon DEF loadConversation, loadOlder, Mount, Unmount, Evict
    <3>2. RequestFails \/ discardRoomAccess => failures < MaxFailures /\ failures' = failures + 1
      BY Zenon DEF RequestFails, discardRoomAccess
    <3> QED
      BY <3>1, <3>2
  <2>2. failures' \in 0 .. MaxFailures
    BY <2>1, Lists DEF HistoryAssumption
  <2>3. /\ subscribed' \in {subscribed, TRUE, FALSE} /\ opened' \in {opened, TRUE, FALSE}
        /\ loading' \in {loading, TRUE, FALSE} /\ loadingOlder' \in {loadingOlder, TRUE, FALSE}
        /\ failed' \in {failed, TRUE, FALSE}
    BY DEF loadConversation, loadOlder, Mount, Unmount, Evict, RequestFails, discardRoomAccess,
           StartLoad, Dropped, cache, flags
  <2> QED
    BY <2>2, <2>3, Lists
<1>3. \/ loaded' = loaded /\ (opened => opened') /\ before' = before
      \/ loaded' = Nothing /\ before' = 0
  <2>1. loadConversation \/ loadOlder \/ Mount \/ Unmount \/ RequestFails =>
          loaded' = loaded /\ (opened => opened') /\ before' = before
    <3>1. loadConversation \/ loadOlder \/ Mount \/ Unmount \/ RequestFails =>
            loaded' = loaded /\ before' = before
      BY DEF loadConversation, loadOlder, Mount, Unmount, RequestFails
    <3>2. loadConversation \/ Mount \/ RequestFails => opened'
      BY DEF loadConversation, Mount, RequestFails, StartLoad
    <3>3. loadOlder \/ Unmount => opened' = opened
      BY DEF loadOlder, Unmount
    <3> QED
      BY <3>1, <3>2, <3>3, Zenon
  <2>2. Evict \/ discardRoomAccess => loaded' = Nothing /\ before' = 0
    BY DEF Evict, discardRoomAccess, Dropped
  <2> QED
    BY <2>1, <2>2
<1>4. /\ loaded' \in Held /\ (Numbers(loaded') # {} => opened')
      /\ \A n \in MessageNumber : loaded'[n] > 0 => n <= Len(log) /\ loaded'[n] <= log[n]
      /\ before' \in 0 .. MaxMessages /\ before' <= Len(log)
  <2>1. CASE loaded' = loaded /\ (opened => opened') /\ before' = before
    <3>1. Numbers(loaded) # {} => opened'
      <4>1. Numbers(loaded) # {} => opened
        BY Lists
      <4> QED
        BY <2>1, <4>1
    <3> QED
      BY <2>1, <3>1, Lists
  <2>2. CASE loaded' = Nothing /\ before' = 0
    BY <2>2, Lists
  <2> QED
    BY <1>3, <2>1, <2>2
<1>5. \E r \in Asked \cup {NoRequest} :
        /\ pending' = r /\ r.kind # "catchUp"
        /\ r # NoRequest => r.cursor <= Len(log)
  <2>1. CASE pending' = NoRequest
    BY <2>1 DEF NoRequest
  <2>2. CASE loadOlder
    <3>1. PICK r : r = Asks("older", before, FALSE)
      OBVIOUS
    <3>2. r \in Asked /\ r.kind = "older" /\ r.cursor = before
      <4>1. before \in 0 .. MaxMessages /\ FALSE \in BOOLEAN
        BY Lists
      <4> QED
        BY <3>1, <4>1, AskedKinds
    <3>3. pending' = r
      BY <2>2, <3>1 DEF loadOlder
    <3> QED
      BY <3>2, <3>3, Lists
  <2>3. CASE loadConversation \/ Mount
    <3>1. PICK empty \in BOOLEAN : empty = (Numbers(loaded) = {})
      OBVIOUS
    <3>2. PICK r : r = Asks("load", 0, empty)
      OBVIOUS
    <3>3. r \in Asked /\ r.kind = "load" /\ r.cursor = 0
      BY <3>2, AskedKinds, Lists
    <3>4. pending' = r
      BY <2>3, <3>1, <3>2 DEF loadConversation, Mount, StartLoad
    <3> QED
      BY <3>3, <3>4, Lists
  <2>4. Unmount \/ Evict \/ RequestFails \/ discardRoomAccess => pending' = NoRequest
    BY DEF Unmount, Evict, RequestFails, discardRoomAccess
  <2> QED
    BY <2>1, <2>2, <2>3, <2>4
<1>6. PICK r \in Asked \cup {NoRequest} :
        /\ pending' = r /\ r.kind # "catchUp"
        /\ r # NoRequest => r.cursor <= Len(log)
  BY <1>5
<1> QED
  <2>1. events' \in Seq(Event) /\ \A x \in ToSet(events') : x \in ToSet(events)
    BY <1>1, Lists
  <2> QED
    BY <1>1, <1>2, <1>4, <1>6, <2>1, CacheStep

\* A page is merged into the list: what is seen stays seen, what is known is
\* repaired by it.
LEMMA PageMerged ==
  ASSUME HistoryAssumption, HistoryInv, HasPage,
         loaded' = mergeMessages(loaded, pending.page)
  PROVE  /\ loaded' \in Held /\ pending.page \in Held
         /\ Numbers(loaded') = Numbers(loaded) \cup Numbers(pending.page)
         /\ \A n \in MessageNumber :
              /\ loaded'[n] > 0 => n <= Len(log) /\ loaded'[n] <= log[n]
              /\ n <= Len(log) /\ (loaded[n] = log[n] \/ pending.page[n] = log[n]) => loaded'[n] = log[n]
<1> USE DEF HistoryInv
<1>1. loaded \in Held /\ pending.page \in Held
  BY PendingKinds DEF HistoryTypeOK
<1>2. /\ loaded' \in Held
      /\ Numbers(loaded') = Numbers(loaded) \cup Numbers(pending.page)
      /\ \A n \in MessageNumber :
           loaded'[n] = IF loaded[n] > pending.page[n] THEN loaded[n] ELSE pending.page[n]
  BY <1>1, Merged
<1>3. /\ \A n \in MessageNumber : loaded[n] > 0 => n <= Len(log) /\ loaded[n] <= log[n]
      /\ \A n \in MessageNumber : pending.page[n] > 0 => n <= Len(log) /\ pending.page[n] <= log[n]
  BY DEF VersionsKnown, Seen
<1>4. \A n \in 1 .. Len(log) : log[n] \in 1 .. MaxVersion
  <2>1. \A n \in 1 .. Len(log) : log[n] \in Version
    BY DEF HistoryTypeOK
  <2> QED
    BY <2>1 DEF Version
<1>5. ASSUME NEW n \in MessageNumber
      PROVE  /\ loaded'[n] > 0 => n <= Len(log) /\ loaded'[n] <= log[n]
             /\ n <= Len(log) /\ (loaded[n] = log[n] \/ pending.page[n] = log[n]) => loaded'[n] = log[n]
  <2>1. loaded[n] \in 0 .. MaxVersion /\ pending.page[n] \in 0 .. MaxVersion
    BY <1>1 DEF Held
  <2>2. n <= Len(log) => log[n] \in 1 .. MaxVersion
    BY <1>4 DEF MessageNumber, HistoryTypeOK
  <2> QED
    BY <1>2, <1>3, <2>1, <2>2 DEF HistoryAssumption
<1> QED
  BY <1>1, <1>2, <1>5

LEMMA PageLoadedStep ==
  ASSUME HistoryAssumption, HistoryInv, PageLoaded
  PROVE  HistoryInv'
<1>1. /\ UNCHANGED <<log, writes, publishing, replies, connected, events, disruptions, subscribed,
                     failed, failures>>
      /\ HasPage /\ loaded' = mergeMessages(loaded, pending.page) /\ pending' = NoRequest
      /\ loading' = FALSE /\ loadingOlder' = FALSE /\ opened' = TRUE
  BY DEF PageLoaded, HasPage, serverVars, socketVars
<1>2. /\ loaded' \in Held /\ pending.page \in Held
      /\ \A n \in MessageNumber : loaded'[n] > 0 => n <= Len(log) /\ loaded'[n] <= log[n]
  BY <1>1, PageMerged
<1>3. before' \in 0 .. MaxMessages /\ before' <= Len(log)
  <2>1. before' \in {before, 0} \/ (pending.more /\ before' = Earliest(pending.page))
    BY DEF PageLoaded
  <2>2. CASE pending.more /\ before' = Earliest(pending.page)
    <3>1. Numbers(pending.page) # {}
      BY <1>1, <2>2 DEF HistoryInv, Cursors
    <3>2. Earliest(pending.page) \in Numbers(pending.page)
      BY <1>2, <3>1, EarliestIsLeast
    <3>3. before' \in MessageNumber /\ before' <= Len(log)
      BY <1>1, <2>2, <3>2 DEF HistoryInv, VersionsKnown, Seen, Numbers
    <3> QED
      BY <3>3 DEF MessageNumber
  <2> QED
    BY <2>1, <2>2, Lists
<1>4. NoRequest \in Asked \cup {NoRequest} /\ NoRequest.kind # "catchUp"
  BY DEF NoRequest
<1> QED
  BY <1>1, <1>2, <1>3, <1>4, Lists, CacheStep

LEMMA CatchUpStep ==
  ASSUME HistoryAssumption, HistoryInv, catchUpConversation
  PROVE  HistoryInv'
<1> USE DEF HistoryInv
<1>1. /\ UNCHANGED <<log, writes, publishing, replies, connected, events, disruptions, subscribed,
                     opened, before, loading, loadingOlder, failed, failures>>
      /\ pending.kind = "catchUp" /\ HasPage /\ loaded' = mergeMessages(loaded, pending.page)
      /\ pending' = IF pending.more THEN Asks("catchUp", Latest(pending.page), FALSE) ELSE NoRequest
  BY DEF catchUpConversation, HasPage, serverVars, socketVars, cache, flags
<1>2. /\ loaded' \in Held /\ pending.page \in Held
      /\ Numbers(loaded') = Numbers(loaded) \cup Numbers(pending.page)
      /\ \A n \in MessageNumber :
           /\ loaded'[n] > 0 => n <= Len(log) /\ loaded'[n] <= log[n]
           /\ n <= Len(log) /\ (loaded[n] = log[n] \/ pending.page[n] = log[n]) => loaded'[n] = log[n]
  BY <1>1, PageMerged
<1>3. /\ pending.cursor \in Nat
      /\ OnScreen(pending.cursor + 1)
      /\ \A n \in MessageNumber :
           n <= Len(log) /\ n <= pending.cursor /\ OnScreen(n) => Repaired(n)
      /\ \A n \in Numbers(pending.page) : n > pending.cursor
      /\ \A n \in MessageNumber :
           n > pending.cursor /\ Covered(n) => pending.page[n] = log[n] \/ Repaired(n)
  BY <1>1, PendingKinds DEF Repairs, NoRequest
<1>4. Numbers(loaded') # {} => opened'
  <2>1. Numbers(loaded) # {}
    BY <1>3 DEF OnScreen
  <2> QED
    BY <1>1, <2>1 DEF InCache
<1>5. \A n \in Nat : OnScreen(n)' <=> OnScreen(n)
  BY <1>2, <1>3 DEF OnScreen, Numbers, MessageNumber
<1>6. CASE ~pending.more
  <2>1. NoRequest \in Asked \cup {NoRequest} /\ NoRequest.kind # "catchUp" /\ pending' = NoRequest
    BY <1>1, <1>6 DEF NoRequest
  <2> QED
    BY <1>1, <1>2, <1>4, <2>1, Lists, CacheStep
<1>7. CASE pending.more
  <2>1. PICK c : c = Latest(pending.page)
    OBVIOUS
  <2>2. c \in Numbers(pending.page)
    BY <1>1, <1>2, <1>7, <2>1, LatestIsGreatest DEF Cursors
  <2>3. c \in MessageNumber /\ c <= Len(log) /\ c > pending.cursor
    BY <1>1, <1>3, <2>2 DEF VersionsKnown, Seen, Numbers
  <2>4. PICK r : r = Asks("catchUp", c, FALSE)
    OBVIOUS
  <2>5. r \in Asked /\ r.kind = "catchUp" /\ r.cursor = c /\ r # NoRequest /\ pending' = r
    <3>1. c \in 0 .. MaxMessages /\ FALSE \in BOOLEAN
      BY <2>3 DEF MessageNumber
    <3>2. r \in Asked /\ r.kind = "catchUp" /\ r.cursor = c /\ r # NoRequest
      BY <2>4, <3>1, AskedKinds
    <3> QED
      BY <1>1, <1>7, <2>1, <2>4, <3>2
  <2>6. \E k \in Numbers(loaded') : k <= c + 1
    BY <1>2, <1>3, <2>3 DEF OnScreen, Numbers, MessageNumber
  <2>7. ASSUME NEW n \in MessageNumber, n <= Len(log), n <= c, OnScreen(n)'
        PROVE  loaded'[n] = log[n] \/ OnItsWay(n) \/ Again
    <3>1. CASE n <= pending.cursor
      BY <1>2, <1>3, <1>5, <2>7, <3>1 DEF MessageNumber, Repaired
    <3>2. CASE ~(n <= pending.cursor)
      <4>1. Covered(n) /\ n > pending.cursor
        BY <1>3, <2>2, <2>7, <3>2 DEF Covered, MessageNumber
      <4> QED
        BY <1>2, <1>3, <2>7, <4>1 DEF Repaired
    <3> QED
      BY <3>1, <3>2
  <2>8. \A n \in MessageNumber :
          n <= Len(log) /\ n <= c /\ (\E k \in Numbers(loaded') : k <= n) =>
            loaded'[n] = log[n] \/ OnItsWay(n)' \/ Again'
    <3>1. \A n \in MessageNumber : OnItsWay(n) => OnItsWay(n)'
      BY <1>1, Zenon DEF OnItsWay
    <3>2. Again => Again'
      BY <1>1 DEF Again
    <3> QED
      BY <2>7, <3>1, <3>2 DEF OnScreen
  <2> QED
    BY <1>1, <1>2, <1>4, <2>3, <2>5, <2>6, <2>8, Lists, CacheStep
<1> QED
  BY <1>6, <1>7
LEMMA ReconcileStep ==
  ASSUME HistoryAssumption, HistoryInv, reconcileMessaging
  PROVE  HistoryInv'
<1> USE DEF HistoryInv
<1>1. /\ UNCHANGED <<log, writes, publishing, replies, connected, disruptions, subscribed, failures>>
      /\ events # <<>> /\ Head(events).kind # "message" /\ events' = Tail(events)
  BY DEF reconcileMessaging, serverVars
<1>2. events \in Seq(Event)
  BY DEF HistoryTypeOK
<1>3. /\ events' \in Seq(Event)
      /\ \A x : x \in ToSet(events') => x \in ToSet(events)
  BY <1>1, <1>2, TailLeaves
<1>4. \/ /\ loaded' = Nothing /\ before' \in {before, 0} /\ loading' \in BOOLEAN
         /\ loadingOlder' = FALSE /\ failed' = FALSE /\ opened' \in BOOLEAN
         /\ pending' \in {NoRequest, Asks("load", 0, TRUE)}
      \/ /\ pending' = CatchUp(loaded) /\ Numbers(loaded) # {}
         /\ UNCHANGED <<opened, loaded, before, loading, loadingOlder, failed>>
  BY Lists DEF reconcileMessaging, StartLoad, Dropped, cache, flags
<1>5. CASE /\ loaded' = Nothing /\ before' \in {before, 0} /\ loading' \in BOOLEAN
           /\ loadingOlder' = FALSE /\ failed' = FALSE /\ opened' \in BOOLEAN
           /\ pending' \in {NoRequest, Asks("load", 0, TRUE)}
  <2>1. PICK r : r = pending'
    OBVIOUS
  <2>2. r \in Asked \cup {NoRequest} /\ r.kind # "catchUp" /\ (r # NoRequest => r.cursor = 0)
    <3>1. CASE r = NoRequest
      BY <3>1 DEF NoRequest
    <3>2. CASE r = Asks("load", 0, TRUE)
      <4>1. 0 \in 0 .. MaxMessages /\ TRUE \in BOOLEAN
        BY Lists
      <4> QED
        BY <3>2, <4>1, AskedKinds
    <3> QED
      BY <1>5, <2>1, <3>1, <3>2
  <2>3. before' \in 0 .. MaxMessages /\ before' <= Len(log)
    BY <1>5, Lists
  <2>4. {subscribed', opened', loading', loadingOlder', failed'} \subseteq BOOLEAN
    BY <1>1, <1>5, Lists
  <2>5. /\ loaded' \in Held /\ Numbers(loaded') = {} /\ failures' \in 0 .. MaxFailures
        /\ \A n \in MessageNumber : loaded'[n] = 0
    BY <1>1, <1>5, Lists
  <2>6. r # NoRequest => r.cursor <= Len(log)
    BY <2>2, Lists
  <2> QED
    BY <1>1, <1>3, <2>1, <2>2, <2>3, <2>4, <2>5, <2>6, CacheStep
<1>6. CASE /\ pending' = CatchUp(loaded) /\ Numbers(loaded) # {}
           /\ UNCHANGED <<opened, loaded, before, loading, loadingOlder, failed>>
  <2>1. PICK n \in Numbers(loaded) : n = Earliest(loaded) /\ \A k \in Numbers(loaded) : n <= k
    BY <1>6, EarliestIsLeast, Lists
  <2>2. PICK c : c = n - 1
    OBVIOUS
  <2>3. n \in MessageNumber /\ n <= Len(log)
    BY Lists DEF Numbers
  <2>4. c \in 0 .. MaxMessages /\ FALSE \in BOOLEAN
    BY <2>2, <2>3, Lists DEF MessageNumber
  <2>5. PICK r : r = Asks("catchUp", c, FALSE)
    OBVIOUS
  <2>6. r \in Asked /\ r.kind = "catchUp" /\ r.cursor = c
    BY <2>4, <2>5, AskedKinds
  <2>7. pending' = r
    BY <1>6, <2>1, <2>2, <2>5 DEF CatchUp
  <2>8. r.cursor <= Len(log) /\ \E k \in Numbers(loaded') : k <= r.cursor + 1
    BY <1>6, <2>2, <2>3, <2>6, Lists DEF MessageNumber
  <2>9. \A k \in MessageNumber : k <= r.cursor => ~ \E j \in Numbers(loaded') : j <= k
    BY <1>6, <2>1, <2>2, <2>3, <2>6 DEF MessageNumber, Numbers
  <2> QED
    BY <1>1, <1>3, <1>6, <2>7, <2>6, <2>8, <2>9, Lists, CacheStep
<1> QED
  BY <1>4, <1>5, <1>6

-----------------------------------------------------------------------------
LEMMA HistoryStarts ==
  ASSUME HistoryAssumption, HistoryInit
  PROVE  HistoryInv
<1>1. /\ log \in BoundedSeq({1}, MaxMessages - 1)
      /\ writes = 0 /\ publishing = {} /\ replies = {} /\ events = <<>> /\ disruptions = 0
      /\ loaded = Nothing /\ before = 0 /\ pending = NoRequest /\ failures = 0
  BY DEF HistoryInit
<1>2. log \in Seq(Version) /\ Len(log) <= MaxMessages
  <2>1. PICK k \in 0 .. (MaxMessages - 1) : log \in [1 .. k -> {1}]
    BY <1>1 DEF BoundedSeq, SeqOf
  <2>2. log \in Seq({1}) /\ Len(log) = k
    BY <2>1, SeqDef
  <2>3. 1 \in Version
    BY DEF Version, HistoryAssumption
  <2> QED
    BY <2>1, <2>2, <2>3 DEF HistoryAssumption
<1>3. HistoryTypeOK
  <2>1. events \in Seq(Event)
    BY <1>1
  <2>2. {0} \subseteq 0 .. MaxWrites \cap 0 .. MaxDisruptions \cap 0 .. MaxFailures \cap 0 .. MaxMessages
    BY DEF HistoryAssumption
  <2>3. /\ connected = TRUE /\ subscribed = FALSE /\ opened = FALSE
        /\ loading = FALSE /\ loadingOlder = FALSE /\ failed = FALSE
    BY DEF HistoryInit
  <2> QED
    BY <1>1, <1>2, <2>1, <2>2, <2>3, NothingHeld DEF HistoryTypeOK
<1>4. ~HasPage /\ pending.kind # "catchUp"
  BY <1>1 DEF HasPage, NoRequest
<1>5. VersionsKnown
  BY <1>1, <1>4 DEF VersionsKnown, Seen, Nothing, ToSet
<1>6. Cursors /\ InCache
  BY <1>1, <1>2, <1>4, NothingHeld DEF Cursors, InCache
<1>7. Repairs
  BY <1>4 DEF Repairs
<1> QED
  BY <1>3, <1>5, <1>6, <1>7 DEF HistoryInv

LEMMA HistoryStepKeeps ==
  ASSUME HistoryAssumption, HistoryInv, [HistoryNext]_historyVars
  PROVE  HistoryInv'
<1>1. CASE UNCHANGED historyVars
  BY <1>1 DEF historyVars, serverVars, socketVars, cache, flags, HistoryInv, HistoryTypeOK,
     VersionsKnown, Known, Seen, HasPage, Cursors, InCache, Repairs, OnScreen, Covered, Repaired,
     OnItsWay, Again
<1>2. CASE HistoryNext
  BY <1>2, WriteStep, PublishStep, ReadStep, SocketSteps, ReceivingSteps, LoadingSteps,
     PageLoadedStep, CatchUpStep, ReconcileStep DEF HistoryNext
<1> QED
  BY <1>1, <1>2

LEMMA HistoryInvHolds ==
  ASSUME HistoryAssumption PROVE HistorySpec => []HistoryInv
<1>1. HistoryInit => HistoryInv
  BY HistoryStarts
<1>2. HistoryInv /\ [HistoryNext]_historyVars => HistoryInv'
  BY HistoryStepKeeps
<1> QED BY <1>1, <1>2, PTL DEF HistorySpec

(* The log, the list and what is on its way keep their types.              *)
THEOREM HistoryTypeCorrect ==
  ASSUME HistoryAssumption PROVE HistorySpec => []HistoryTypeOK
<1>1. HistoryInv => HistoryTypeOK
  BY DEF HistoryInv
<1> QED BY <1>1, HistoryInvHolds, PTL

(* No message goes back to an older version, in whatever order a page, an  *)
(* event and the answer of a write arrive (mergeMessages).                 *)
THEOREM VersionsOnlyGrow ==
  ASSUME HistoryAssumption PROVE HistorySpec => NoStaleVersions
<1>1. ASSUME HistoryInv, [HistoryNext]_historyVars, Numbers(loaded') # {},
             NEW n \in MessageNumber
      PROVE  loaded'[n] >= loaded[n]
  <2>1. loaded \in Held /\ loaded' # Nothing
    BY <1>1, NothingHeld DEF HistoryInv, HistoryTypeOK
  <2>2. loaded[n] \in Nat
    BY <2>1 DEF Held
  <2>3. ASSUME NEW page \in Held, loaded' = mergeMessages(loaded, page)
        PROVE  loaded'[n] >= loaded[n]
    BY <2>1, <2>2, <2>3, Merged DEF Held
  <2>4. CASE loaded' = loaded
    BY <2>2, <2>4
  <2>5. CASE PageLoaded \/ catchUpConversation
    <3>1. HasPage /\ loaded' = mergeMessages(loaded, pending.page)
      BY <2>5 DEF PageLoaded, catchUpConversation, HasPage
    <3> QED
      BY <1>1, <2>3, <3>1, PendingKinds DEF HistoryInv
  <2>6. ASSUME NEW m \in Message, receiveMessage(m)
        PROVE  loaded'[n] >= loaded[n]
    <3>1. [Nothing EXCEPT ![m.n] = m.v] \in Held
      BY DEF Nothing, Held, Message, Version, HistoryAssumption
    <3> QED
      BY <2>3, <2>4, <2>6, <3>1 DEF receiveMessage
  <2>7. CASE \E m \in replies : ReplyReceived(m)
    BY <1>1, <2>6, <2>7 DEF ReplyReceived, HistoryInv, HistoryTypeOK
  <2>8. CASE MessageEvent
    <3>1. Head(events) \in Event /\ Head(events).kind = "message"
      BY <1>1, <2>8, TailLeaves DEF MessageEvent, HistoryInv, HistoryTypeOK
    <3>2. Head(events).message \in Message
      BY <3>1 DEF Event
    <3> QED
      BY <2>6, <2>8, <3>2 DEF MessageEvent
  <2>9. \/ loaded' = loaded \/ PageLoaded \/ catchUpConversation
        \/ (\E m \in replies : ReplyReceived(m)) \/ MessageEvent
    BY <1>1, <2>1 DEF HistoryNext, historyVars, cache, Write, Publish, Read, loadConversation, loadOlder,
       Mount, Unmount, Evict, RequestFails, discardRoomAccess, SocketLost, RoomsChange, Reconnect,
       reconcileMessaging, Dropped, StartLoad
  <2> QED
    BY <2>4, <2>5, <2>7, <2>8, <2>9
<1>2. HistoryInv /\ [HistoryNext]_historyVars =>
        [Numbers(loaded') # {} => \A n \in MessageNumber : loaded'[n] >= loaded[n]]_historyVars
  BY <1>1
<1> QED BY <1>2, HistoryInvHolds, PTL DEF HistorySpec, NoStaleVersions

(* A catch-up repairs whatever was missed, page by page, however many      *)
(* messages are written, edited, published and received in between         *)
(* (reconcileMessaging, catchUpConversation).                              *)
THEOREM NothingStaysMissed ==
  ASSUME HistoryAssumption PROVE HistorySpec => CatchUpRepairs
<1>1. ASSUME HistoryInv, [HistoryNext]_historyVars, CatchUpEnds, pending' = NoRequest,
             loaded' # Nothing, subscribed', failures' = failures,
             NEW n \in MessageNumber, Earliest(loaded') <= n, n <= Len(log)
      PROVE  loaded'[n] = log[n] \/ OnItsWay(n) \/ Again
  <2>1. HasPage /\ pending.kind = "catchUp" /\ ~pending.more /\ pending # NoRequest
    BY <1>1 DEF CatchUpEnds, HasPage, NoRequest
  <2>2. catchUpConversation
    <3>1. failures \in Nat
      BY <1>1 DEF HistoryInv, HistoryTypeOK
    <3>2. ~RequestFails /\ ~discardRoomAccess /\ ~Unmount /\ ~Evict
      <4>1. failures' # failures + 1
        BY <1>1, <3>1
      <4> QED
        BY <1>1, <4>1, Zenon DEF RequestFails, discardRoomAccess, Unmount, Evict, Dropped
    <3>3. ~PageLoaded /\ ~Read /\ ~loadConversation /\ ~loadOlder
      BY <2>1 DEF PageLoaded, Read, loadConversation, loadOlder, HasPage
    <3>4. \A c, e : Asks("load", c, e) # NoRequest /\ Asks("catchUp", c, e) # NoRequest
      BY DEF Asks, NoRequest
    <3>5. ~Mount /\ ~reconcileMessaging
      BY <1>1, <3>4 DEF Mount, reconcileMessaging, StartLoad, Dropped, CatchUp
    <3>6. pending' # pending
      BY <1>1, <2>1
    <3> QED
      BY <1>1, <3>2, <3>3, <3>5, <3>6 DEF HistoryNext, historyVars, Write, Publish, ReplyReceived,
         SocketLost, RoomsChange, Reconnect, MessageEvent
  <2>3. loaded' = mergeMessages(loaded, pending.page)
    BY <2>2 DEF catchUpConversation
  <2>4. /\ loaded' \in Held /\ pending.page \in Held
        /\ Numbers(loaded') = Numbers(loaded) \cup Numbers(pending.page)
        /\ loaded[n] = log[n] \/ pending.page[n] = log[n] => loaded'[n] = log[n]
    BY <1>1, <2>1, <2>3, PageMerged
  <2>5. Repairs /\ pending.cursor \in Nat
    BY <1>1, <2>1, PendingKinds DEF HistoryInv
  <2>6. CASE n <= pending.cursor
    <3>1. Numbers(loaded') # {}
      BY <2>1, <2>4, <2>5 DEF Repairs, OnScreen
    <3>2. Earliest(loaded') \in Numbers(loaded')
      BY <2>4, <3>1, EarliestIsLeast
    <3>3. OnScreen(n)
      BY <1>1, <2>1, <2>4, <2>5, <2>6, <3>2 DEF Repairs, OnScreen, Numbers, MessageNumber
    <3> QED
      BY <1>1, <2>1, <2>4, <2>5, <2>6, <3>3 DEF Repairs, Repaired
  <2>7. CASE ~(n <= pending.cursor)
    <3>1. n > pending.cursor /\ Covered(n)
      BY <1>1, <2>1, <2>5, <2>7 DEF Covered, MessageNumber
    <3> QED
      BY <2>1, <2>4, <2>5, <3>1 DEF Repairs, Repaired
  <2> QED
    BY <2>6, <2>7
<1>2. HistoryInv /\ [HistoryNext]_historyVars =>
        [CatchUpEnds /\ pending' = NoRequest /\ loaded' # Nothing /\ subscribed' /\ failures' = failures =>
           \A n \in MessageNumber : Earliest(loaded') <= n /\ n <= Len(log) =>
             loaded'[n] = log[n] \/ OnItsWay(n) \/ Again]_historyVars
  BY <1>1
<1> QED BY <1>2, HistoryInvHolds, PTL DEF HistorySpec, CatchUpRepairs

-----------------------------------------------------------------------------
(* The three together: what moves one of them leaves the others alone, so  *)
(* that a behaviour of all is a behaviour of each, and what is proved of a *)
(* component holds where TLC checks it.                                    *)
LEMMA ClientStateComposed == MCSpec => Spec /\ HistorySpec /\ DraftSpec
<1>1. MCInit => Init /\ HistoryInit /\ DraftInit
  BY DEF MCInit
<1>2. [MCNext]_all => [Next]_vars /\ [HistoryNext]_historyVars /\ [DraftNext]_draftVars
  <2> SUFFICES ASSUME [MCNext]_all
               PROVE  [Next]_vars /\ [HistoryNext]_historyVars /\ [DraftNext]_draftVars
    OBVIOUS
  <2>1. CASE Talks(Next)
    BY <2>1 DEF Talks
  <2>2. CASE Reads(HistoryNext)
    BY <2>2 DEF Reads
  <2>3. CASE Writes(DraftNext)
    BY <2>3 DEF Writes
  <2>4. CASE UNCHANGED all
    BY <2>4 DEF all
  <2> QED BY <2>1, <2>2, <2>3, <2>4 DEF MCNext
<1> QED BY <1>1, <1>2, PTL DEF MCSpec, Spec, HistorySpec, DraftSpec

(* The gate, the history and the draft keep their types side by side       *)
(* (accept, mergeMessages, draftStore).                                    *)
THEOREM ClientTypesCorrect ==
  ASSUME HistoryAssumption, DraftAssumption PROVE MCSpec => []TypesOK
<1>1. MCInit => which \in Component
  BY DEF MCInit
<1>2. which \in Component /\ [MCNext]_all => (which \in Component)'
  BY DEF MCNext, Talks, Reads, Writes, all
<1>3. MCSpec => [](which \in Component)
  BY <1>1, <1>2, PTL DEF MCSpec
<1> QED
  BY <1>3, ClientStateComposed, TypeCorrect, HistoryTypeCorrect, DraftTypeCorrect, PTL DEF TypesOK
=============================================================================
