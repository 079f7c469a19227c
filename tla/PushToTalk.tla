----------------------------- MODULE PushToTalk -----------------------------
(***************************************************************************)
(* The gate of the call microphone (class CallMicrophone,                  *)
(* apps/web/src/media/pushToTalk.ts) and the desktop application's global  *)
(* shortcut (class NativePushToTalk, nativePushToTalk.ts): keys pressed in *)
(* the window reach the page as DOM events, keys pressed anywhere reach it *)
(* as numbered snapshots of a hook, late, out of order or not at all.      *)
(*                                                                         *)
(* The hook itself (apps/desktop-wails, Go) is modelled by what the page   *)
(* relies on: a key that was down when it started counts only after a      *)
(* release, and every change of a watched key has a number of its own.     *)
(***************************************************************************)
EXTENDS Naturals, FiniteSets

CONSTANTS
  GlobalInput,   \* the desktop application can watch keys (isNativePushToTalk)
  MaxPresses     \* bound on physical key presses

ASSUME TalkAssumption ==
  GlobalInput \in BOOLEAN /\ MaxPresses \in Nat

VARIABLES
  \* CallMicrophone
  active, enabled, held, foregroundHeld, manualMuted, deafened,
  status,            \* globalStatus
  \* NativePushToTalk, of the current generation
  native,            \* none, starting, watching
  accepted,          \* number of the next snapshot that is news (sequence + 1)
  mutesSeen,         \* muteCount
  \* the hook
  hook,              \* its state while watching
  flight,            \* snapshots on their way to the page
  \* the person and the window
  down, muteDown, focused, editing,
  globalMute,        \* a shortcut for mute is assigned
  presses,
  reported           \* of the hook's talk presses, how many the page knows of

gateVars == <<active, enabled, held, foregroundHeld, manualMuted, deafened, status>>
nativeVars == <<native, accepted, mutesSeen>>
worldVars == <<down, muteDown, focused, editing, globalMute, presses>>
vars == <<gateVars, nativeVars, hook, flight, worldVars, reported>>

Status == {"foreground", "connecting", "active", "unavailable"}
Number == 0 .. 2 * MaxPresses
Snapshot == [sequence : Number, pressed : BOOLEAN, focused : BOOLEAN, mutes : Number,
             talks : 0 .. MaxPresses]
Hook == [sequence : Number, focused : BOOLEAN, armed : BOOLEAN, pressed : BOOLEAN,
         muteArmed : BOOLEAN, mutePressed : BOOLEAN, mutes : Number,
         talks : 0 .. MaxPresses]

TypeOK ==
  /\ {active, enabled, held, foregroundHeld, manualMuted, deafened} \subseteq BOOLEAN
  /\ status \in Status /\ native \in {"none", "starting", "watching"}
  /\ accepted \in 0 .. 2 * MaxPresses + 1 /\ mutesSeen \in Number
  /\ hook \in Hook /\ flight \subseteq Snapshot
  /\ {down, muteDown, focused, editing, globalMute} \subseteq BOOLEAN
  /\ presses \in 0 .. MaxPresses /\ reported \in 0 .. MaxPresses

(* What the call publishes.                                                *)
Transmitting == active /\ ~manualMuted /\ ~deafened /\ (~enabled \/ held)

NewHook(talkDown, mDown) ==
  [sequence |-> 0, focused |-> TRUE, armed |-> ~talkDown, pressed |-> FALSE,
   muteArmed |-> ~mDown, mutePressed |-> FALSE, mutes |-> 0,
   talks |-> 0]

Init ==
  /\ active = FALSE /\ enabled \in BOOLEAN /\ held = FALSE /\ foregroundHeld = FALSE
  /\ manualMuted = FALSE /\ deafened = FALSE /\ status = "foreground"
  /\ native = "none" /\ accepted = 0 /\ mutesSeen = 0
  /\ hook = NewHook(FALSE, FALSE) /\ flight = {}
  /\ down = FALSE /\ muteDown = FALSE /\ focused = TRUE /\ editing = FALSE
  /\ globalMute \in BOOLEAN /\ presses = 0 /\ reported = 0

-----------------------------------------------------------------------------
(* update: whoever is not held is not held in the foreground either.       *)
Hold(h, foreground) ==
  /\ held' = h
  /\ foregroundHeld' = (h /\ foreground)

Release == Hold(FALSE, FALSE)

(* configureNative for the settings and the call as they become: the old   *)
(* registration is dropped, and a new one starts if anything needs it.     *)
ConfigureNative ==
  /\ IF active' /\ (enabled' \/ globalMute') /\ GlobalInput
     THEN native' = "starting" /\ status' = "connecting"
     ELSE native' = "none" /\ status' = "foreground"
  /\ accepted' = 0 /\ mutesSeen' = 0 /\ flight' = {}
  /\ UNCHANGED hook

(* CallMicrophone.start, as a call is joined.                              *)
Start ==
  /\ ~active
  /\ active' = TRUE /\ manualMuted' = FALSE /\ deafened' = FALSE /\ Release
  /\ UNCHANGED <<enabled, worldVars, reported>>
  /\ ConfigureNative

(* CallMicrophone.stop: the call is left, the page is hidden for good.     *)
Stop ==
  /\ active
  /\ active' = FALSE /\ manualMuted' = FALSE /\ deafened' = FALSE /\ Release
  /\ status' = "foreground" /\ native' = "none" /\ flight' = {}
  /\ UNCHANGED <<enabled, accepted, mutesSeen, hook, worldVars, reported>>

(* settingsChanged, when push-to-talk is switched on or off.               *)
SettingsChanged ==
  /\ enabled' = ~enabled /\ Release
  /\ UNCHANGED <<active, manualMuted, deafened, worldVars, reported>>
  /\ ConfigureNative

(* shortcutSettingsChanged: a key for mute is assigned or cleared.         *)
ShortcutSettingsChanged ==
  /\ globalMute' = ~globalMute /\ Release
  /\ UNCHANGED <<active, enabled, manualMuted, deafened, down, muteDown, focused,
                 editing, presses, reported>>
  /\ ConfigureNative

ToggleMuteHeld ==
  /\ active /\ ~deafened
  /\ manualMuted' = ~manualMuted
  /\ UNCHANGED <<active, enabled, held, foregroundHeld, deafened, status, nativeVars, hook,
                 flight, worldVars, reported>>
ToggleMute ==
  /\ active /\ ~deafened
  /\ manualMuted' = ~manualMuted /\ Release
  /\ UNCHANGED <<active, enabled, deafened, status, nativeVars, hook, flight, worldVars,
                 reported>>

ToggleDeafenHeld ==
  /\ active
  /\ deafened' = ~deafened
  /\ UNCHANGED <<active, enabled, held, foregroundHeld, manualMuted, status, nativeVars, hook,
                 flight, worldVars, reported>>
ToggleDeafen ==
  /\ active
  /\ deafened' = ~deafened /\ Release
  /\ UNCHANGED <<active, enabled, manualMuted, status, nativeVars, hook, flight, worldVars,
                 reported>>

-----------------------------------------------------------------------------
(* NativePushToTalk.start has resolved: the hook watches, with the keys    *)
(* that were down before it not counting yet; or this platform cannot; or  *)
(* it failed.                                                              *)
NativeStarts ==
  /\ native = "starting"
  /\ native' = "watching" /\ status' = "active" /\ Release
  /\ hook' = NewHook(down, muteDown)
  /\ accepted' = 1 /\ mutesSeen' = 0 /\ flight' = {} /\ reported' = 0
  /\ UNCHANGED <<active, enabled, manualMuted, deafened, worldVars>>

NativeRefused ==
  /\ native = "starting"
  /\ native' = "none" /\ status' \in {"foreground", "unavailable"} /\ Release
  /\ UNCHANGED <<active, enabled, manualMuted, deafened, accepted, mutesSeen, hook, flight,
                 worldVars, reported>>

(* fail: a heartbeat that is not answered in time, or an unhealthy hook.   *)
NativeFails ==
  /\ native = "watching"
  /\ native' = "none" /\ status' = "unavailable" /\ Release /\ flight' = {}
  /\ UNCHANGED <<active, enabled, manualMuted, deafened, accepted, mutesSeen, hook, worldVars,
                 reported>>

(* accept: the mute shortcut first, then the talk key.                     *)
MuteActs(s) ==
  (s.mutes - mutesSeen) % 2 = 1 /\ ~s.focused /\ active /\ ~deafened

AcceptedTwice(s) ==
  /\ accepted' = s.sequence + 2 /\ mutesSeen' = s.mutes /\ reported' = s.talks
  /\ UNCHANGED <<gateVars, native>>
Accept(s) ==
  IF s.sequence < accepted
  THEN UNCHANGED <<gateVars, nativeVars, reported>>
  ELSE /\ accepted' = s.sequence + 1 /\ mutesSeen' = s.mutes
       /\ manualMuted' = (manualMuted # MuteActs(s))
       /\ IF ~enabled \/ (s.pressed /\ s.focused)
          THEN IF MuteActs(s) THEN Release ELSE UNCHANGED <<held, foregroundHeld>>
          ELSE Hold(s.pressed /\ ~manualMuted' /\ ~deafened, foregroundHeld /\ ~s.pressed)
       /\ reported' = s.talks
       /\ UNCHANGED <<active, enabled, deafened, status, native>>

Deliver(s) ==
  /\ native = "watching" /\ s \in flight
  /\ Accept(s)
  /\ flight' = flight \ {s}
  /\ UNCHANGED <<hook, worldVars>>

Lose(s) ==
  /\ s \in flight
  /\ flight' = flight \ {s}
  /\ UNCHANGED <<gateVars, nativeVars, hook, worldVars, reported>>

(* heartbeat: the last snapshot the hook has published comes as the reply, *)
(* with the focus the window had when it was published.                    *)
Published(h) ==
  [sequence |-> h.sequence, pressed |-> h.pressed, focused |-> h.focused, mutes |-> h.mutes,
   talks |-> h.talks]

Heartbeat ==
  /\ native = "watching"
  /\ Accept(Published(hook))
  /\ UNCHANGED <<hook, flight, worldVars>>

-----------------------------------------------------------------------------
(* The hook observes a change of the talk key or of the mute key, and      *)
(* publishes it when it is news.                                           *)
ObserveTalk(isDown) ==
  LET armed == hook.armed \/ ~isDown
      next == [hook EXCEPT !.armed = armed, !.pressed = armed /\ isDown]
  IN IF native # "watching" \/ next.pressed = hook.pressed
     THEN /\ hook' = IF native = "watching" THEN next ELSE hook
          /\ UNCHANGED flight
     ELSE /\ hook' = [next EXCEPT !.sequence = @ + 1, !.focused = focused,
                                  !.talks = IF isDown THEN @ + 1 ELSE @]
          /\ flight' = flight \cup {Published(hook')}

ObserveMute(isDown) ==
  LET armed == hook.muteArmed \/ ~isDown
      next == [hook EXCEPT !.muteArmed = armed, !.mutePressed = armed /\ isDown]
  IN IF native # "watching" \/ next.mutePressed = hook.mutePressed
     THEN /\ hook' = IF native = "watching" THEN next ELSE hook
          /\ UNCHANGED flight
     ELSE /\ hook' = [next EXCEPT !.sequence = @ + 1, !.focused = focused,
                                  !.mutes = IF isDown THEN @ + 1 ELSE @]
          /\ flight' = flight \cup {Published(hook')}

(* press: only in the window, outside editors, and when nothing mutes.     *)
MayPress ==
  /\ status \in {"foreground", "active"}
  /\ active /\ enabled /\ ~manualMuted /\ ~deafened /\ ~editing

PressTalk ==
  /\ ~down /\ presses < MaxPresses
  /\ down' = TRUE /\ presses' = presses + 1
  /\ IF focused /\ MayPress
     THEN Hold(TRUE, TRUE)
     ELSE UNCHANGED <<held, foregroundHeld>>
  /\ ObserveTalk(TRUE)
  /\ UNCHANGED <<active, enabled, manualMuted, deafened, status, nativeVars, muteDown,
                 focused, editing, reported, globalMute>>

ReleaseTalk ==
  /\ down
  /\ down' = FALSE
  /\ IF focused /\ (foregroundHeld \/ status = "foreground")
     THEN Release
     ELSE UNCHANGED <<held, foregroundHeld>>
  /\ ObserveTalk(FALSE)
  /\ UNCHANGED <<active, enabled, manualMuted, deafened, status, nativeVars, muteDown,
                 focused, editing, presses, reported, globalMute>>

(* The mute key: in the window it is keyDown that toggles.                 *)
PressMute ==
  /\ globalMute /\ ~muteDown /\ presses < MaxPresses
  /\ muteDown' = TRUE /\ presses' = presses + 1
  /\ IF focused /\ active /\ ~deafened /\ ~editing
     THEN manualMuted' = ~manualMuted /\ Release
     ELSE UNCHANGED <<manualMuted, held, foregroundHeld>>
  /\ ObserveMute(TRUE)
  /\ UNCHANGED <<active, enabled, deafened, status, nativeVars, down, focused, editing,
                 reported, globalMute>>

ReleaseMute ==
  /\ muteDown
  /\ muteDown' = FALSE
  /\ ObserveMute(FALSE)
  /\ UNCHANGED <<gateVars, nativeVars, down, focused, editing, presses, reported, globalMute>>

(* blur, visibility: the page no longer hears of the key.                  *)
BlurHeld ==
  /\ focused /\ focused' = FALSE
  /\ UNCHANGED <<gateVars, nativeVars, hook, flight, down, muteDown, editing, presses,
                 reported, globalMute>>
Blur ==
  /\ focused
  /\ focused' = FALSE
  /\ IF foregroundHeld \/ status # "active"
     THEN Release
     ELSE UNCHANGED <<held, foregroundHeld>>
  /\ UNCHANGED <<active, enabled, manualMuted, deafened, status, nativeVars, hook,
                 flight, down, muteDown, editing, presses, reported, globalMute>>

Focus ==
  /\ ~focused
  /\ focused' = TRUE
  /\ UNCHANGED <<gateVars, nativeVars, hook, flight, down, muteDown, editing, presses,
                 reported, globalMute>>

(* focusin: typing somewhere stops a shortcut that is held.                *)
Edit ==
  /\ focused /\ editing' = ~editing
  /\ IF editing' THEN Release ELSE UNCHANGED <<held, foregroundHeld>>
  /\ UNCHANGED <<active, enabled, manualMuted, deafened, status, nativeVars, hook,
                 flight, down, muteDown, focused, presses, reported, globalMute>>

Next ==
  \/ Start \/ Stop \/ SettingsChanged \/ ShortcutSettingsChanged \/ ToggleMute \/ ToggleDeafen
  \/ NativeStarts \/ NativeRefused \/ NativeFails \/ Heartbeat
  \/ \E s \in flight : Deliver(s) \/ Lose(s)
  \/ PressTalk \/ ReleaseTalk \/ PressMute \/ ReleaseMute \/ Blur \/ Focus \/ Edit

(* The page's timer keeps asking the hook; nothing else is owed.           *)
Fairness == WF_vars(Heartbeat)

Spec == Init /\ [][Next]_vars
FairSpec == Spec /\ Fairness

-----------------------------------------------------------------------------
(* The gate is held only where holding means something: in a call with     *)
(* push-to-talk on that nothing mutes (update derives `transmitting`, but  *)
(* every path has to clear `held` itself).                                 *)
HeldOnlyInUse ==
  /\ held => active /\ enabled /\ ~manualMuted /\ ~deafened
  /\ foregroundHeld => held

\* A step that opens the microphone presses the key, or learns of a press.
OpenedByAPress ==
  ~Transmitting /\ Transmitting' /\ enabled' => (~down /\ down') \/ reported' > reported

(* With push-to-talk on, the microphone opens only as the key is pressed:  *)
(* not when the call starts with the key down, nor when mute is lifted     *)
(* (docs/PUSH_TO_TALK.md: "unmuting or undeafening requires a fresh        *)
(* shortcut press"), as long as no global shortcut lifts the mute: accept  *)
(* lets that one act first, then takes the talk key as it is.              *)
OpensOnAPressAlone == [][~globalMute => OpenedByAPress]_vars

(* A key that is up closes the microphone, even when the window had lost   *)
(* the focus or the hook's message was lost.                               *)
ReleaseCloses == ~down ~> (~held \/ down)
=============================================================================
