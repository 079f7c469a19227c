---------------------------- MODULE VoiceFallback ----------------------------
(***************************************************************************)
(* The voice route between two callers: when their connection is not up,   *)
(* the microphone goes through the server, encrypted with keys agreed over *)
(* signaling (class VoiceRelay, apps/web/src/media/voiceRelay.ts); when it *)
(* is up and stable at both ends, audio returns to it (updateVoiceRoute,   *)
(* scheduleVoiceRelay, restoreDirectVoice and handleSignal of engine.ts).  *)
(*                                                                         *)
(* Every handler awaits key generation, key derivation or a codec, and     *)
(* checks afterwards that it is still current: such a continuation is a    *)
(* task here. Signals between the two are in order and can be lost (the    *)
(* server drops a full queue, a reconnecting socket loses what was sent).  *)
(***************************************************************************)
EXTENDS Naturals, Sequences, FiniteSets

CONSTANTS
  Initiator, Responder,   \* the smaller peer id makes the offers
  Nil,
  MaxChanges,             \* bound on changes of the connection's state
  MaxLosses,              \* bound on lost or repeated signals and socket failures
  MaxLate,                \* bound on timers that overtake what they wait for
  MaxTries                \* handshake attempts after the first (2 in the code)

End == {Initiator, Responder}
Other(p) == IF p = Initiator THEN Responder ELSE Initiator

(* What the theorems about this module assume.                             *)
VoiceAssumption ==
  /\ Initiator # Responder /\ Nil \notin {Initiator, Responder} \X Nat
  /\ MaxChanges \in Nat /\ MaxLosses \in Nat /\ MaxLate \in Nat /\ MaxTries \in Nat

VARIABLES
  connected,      \* end -> it sees the direct connection up
  stableTimer, relayTimer,
  directReady, directProbe,
  relay,          \* end -> its VoiceRelay's entry for the other
  tasks,          \* end -> the relay's continuations
  signals,        \* end -> signals on their way to it
  fresh,          \* end -> how many epochs, keys and nonces it has made
  keyed,          \* end -> the own key of each session it has had, in order
  acknowledged,   \* probes the other end has answered while it was ready
  changes, losses,
  late            \* how many timers have fired although something was on its way

routeVars == <<connected, stableTimer, relayTimer, directReady, directProbe>>
voiceVars == <<routeVars, relay, tasks, signals, fresh, keyed, acknowledged, changes, losses,
              late>>

Phase == {"idle", "offering", "answering", "active"}
SignalKind == {"ready", "offer", "answer", "stop", "direct-probe", "direct-ready", "direct-unready"}
TaskKind == {"offer", "answer", "session", "activate"}

(* What an end makes new: an epoch, a key, a nonce.                        *)
Id == (End \X Nat) \cup {Nil}

Entry ==
  [wanted : BOOLEAN, phase : Phase, epoch : Id, key : Id, crypto : Id, exposed : BOOLEAN,
   attempts : 0 .. MaxTries, armed : BOOLEAN, generation : Nat, reconnecting : BOOLEAN]
SignalSet == [kind : SignalKind, tag : Id, key : Id]
TaskSet == [kind : TaskKind, generation : Nat, tag : Id, key : Id, copy : Nat]

Absent == [wanted |-> FALSE, phase |-> "idle", epoch |-> Nil, key |-> Nil, crypto |-> Nil,
           exposed |-> FALSE, attempts |-> 0, armed |-> FALSE, generation |-> 0,
           reconnecting |-> FALSE]
Signal(kind, tag, key) == [kind |-> kind, tag |-> tag, key |-> key]

VoiceTypeOK ==
  /\ {connected, stableTimer, relayTimer, directReady} \subseteq [End -> BOOLEAN]
  /\ directProbe \in [End -> Id] /\ fresh \in [End -> Nat]
  /\ relay \in [End -> Entry]
  /\ signals \in [End -> Seq(SignalSet)]
  /\ tasks \in [End -> SUBSET TaskSet] /\ (\A p \in End : IsFiniteSet(tasks[p]))
  /\ keyed \in [End -> Seq(Id)] /\ acknowledged \subseteq Id
  /\ changes \in 0 .. MaxChanges /\ losses \in 0 .. MaxLosses /\ late \in 0 .. MaxLate

VoiceInit ==
  /\ connected = [p \in End |-> FALSE]
  /\ stableTimer = [p \in End |-> FALSE] /\ relayTimer = [p \in End |-> TRUE]
  /\ directReady = [p \in End |-> FALSE] /\ directProbe = [p \in End |-> Nil]
  /\ relay = [p \in End |-> Absent] /\ tasks = [p \in End |-> {}]
  /\ signals = [p \in End |-> <<>>]
  /\ fresh = [p \in End |-> 0] /\ keyed = [p \in End |-> <<>>] /\ acknowledged = {}
  /\ changes = 0 /\ losses = 0 /\ late = 0

(* The next epoch, key or nonce an end makes.                              *)
New(p) == <<p, fresh[p] + 1>>
Make(p) == fresh' = [fresh EXCEPT ![p] = @ + 1]

Send(queues, p, s) == [queues EXCEPT ![Other(p)] = Append(@, s)]
Received(p) == [signals EXCEPT ![p] = Tail(@)]

-----------------------------------------------------------------------------
(* resetMedia: codecs, session and keys go; what was heard is heard no     *)
(* more. The epoch stays.                                                  *)
ResetMedia(r) ==
  [r EXCEPT !.phase = "idle", !.key = Nil, !.crypto = Nil, !.exposed = FALSE, !.armed = FALSE]

(* removePeer. (The generation stands for the entry's identity as well:    *)
(* an entry made later is another one.)                                    *)
Removed(r) == [Absent EXCEPT !.generation = r.generation + 1]

Wanted(r) == [r EXCEPT !.wanted = TRUE]

(* Mutant: an offer is not a generation of its own.                        *)
OfferInPlace(r) ==
  [ResetMedia(r) EXCEPT !.phase = "offering", !.epoch = New(Initiator)]

(* offer, until its await; and what the responder does instead.            *)
StartOffer(r) ==
  [ResetMedia(r) EXCEPT !.generation = r.generation + 1, !.phase = "offering",
                        !.epoch = New(Initiator)]

Task(kind, r, tag, key) ==
  [kind |-> kind, generation |-> r.generation, tag |-> tag, key |-> key, copy |-> 0]

Handshake(p, r, queues) ==
  IF p = Initiator
  THEN LET offering == StartOffer(r)
       IN /\ relay' = [relay EXCEPT ![p] = offering]
          /\ tasks' = [tasks EXCEPT ![p] = @ \cup {Task("offer", offering, offering.epoch, Nil)}]
          /\ Make(p)
          /\ signals' = queues
  ELSE /\ relay' = [relay EXCEPT ![p] = [r EXCEPT !.armed = TRUE]]
       /\ signals' = Send(queues, p, Signal("ready", Nil, Nil))
       /\ UNCHANGED <<tasks, fresh>>

CurrentTask(p, t) == relay[p].wanted /\ relay[p].generation = t.generation

(* Nothing is on its way: no signal, no continuation, no audio.            *)
Quiet ==
  \A p \in End :
    /\ signals[p] = <<>> /\ tasks[p] = {}
    /\ ~relay[p].reconnecting
    /\ ~(relay[p].phase = "active" /\ relay[Other(p)].phase = "active"
         /\ relay[p].epoch = relay[Other(p)].epoch /\ ~relay[p].exposed)

(* A timer fires when nothing is on its way, or overtakes what is.         *)
TimerFires ==
  \/ Quiet /\ UNCHANGED late
  \/ ~Quiet /\ late < MaxLate /\ late' = late + 1

(* VoiceRelay.start, when the relay timer fires.                           *)
StartRelay(p) ==
  /\ relayTimer[p] /\ TimerFires
  /\ relayTimer' = [relayTimer EXCEPT ![p] = FALSE]
  /\ IF relay[p].wanted
     THEN UNCHANGED <<relay, tasks, signals, fresh>>
     ELSE Handshake(p, Wanted(relay[p]), signals)
  /\ UNCHANGED <<connected, stableTimer, directReady, directProbe, keyed, acknowledged, changes,
                 losses>>

(* The key pair is made, and the offer goes out.                           *)
OfferMade(p, t) ==
  /\ t \in tasks[p] /\ t.kind = "offer"
  /\ tasks' = [tasks EXCEPT ![p] = @ \ {t}]
  /\ IF CurrentTask(p, t)
     THEN /\ Make(p)
          /\ relay' = [relay EXCEPT ![p] = [@ EXCEPT !.key = New(p), !.armed = TRUE]]
          /\ signals' = Send(signals, p, Signal("offer", t.tag, New(p)))
     ELSE UNCHANGED <<relay, signals, fresh>>
  /\ UNCHANGED <<routeVars, keyed, acknowledged, changes, losses, late>>

(* The responder has its key and the session: it answers.                  *)
AnswerMade(p, t) ==
  /\ t \in tasks[p] /\ t.kind = "answer"
  /\ IF CurrentTask(p, t)
     THEN /\ Make(p) /\ keyed' = [keyed EXCEPT ![p] = Append(@, New(p))]
          /\ relay' = [relay EXCEPT ![p] = [@ EXCEPT !.key = New(p), !.crypto = t.key]]
          /\ signals' = Send(signals, p, Signal("answer", t.tag, New(p)))
          /\ tasks' = [tasks EXCEPT ![p] = (@ \ {t}) \cup {[t EXCEPT !.kind = "activate"]}]
     ELSE /\ tasks' = [tasks EXCEPT ![p] = @ \ {t}]
          /\ UNCHANGED <<relay, signals, fresh, keyed>>
  /\ UNCHANGED <<routeVars, acknowledged, changes, losses, late>>

(* Mutant: what another answer did meanwhile is not looked at.             *)
SessionMadeAnyway(p, t) ==
  /\ t \in tasks[p] /\ t.kind = "session"
  /\ IF CurrentTask(p, t)
     THEN /\ relay' = [relay EXCEPT ![p].crypto = t.key]
          /\ keyed' = [keyed EXCEPT ![p] = Append(@, relay[p].key)]
          /\ tasks' = [tasks EXCEPT ![p] = (@ \ {t}) \cup {[t EXCEPT !.kind = "activate"]}]
     ELSE tasks' = [tasks EXCEPT ![p] = @ \ {t}] /\ UNCHANGED <<relay, keyed>>
  /\ UNCHANGED <<routeVars, signals, fresh, acknowledged, changes, losses, late>>

(* The initiator has derived the session from the answer.                  *)
SessionMade(p, t) ==
  /\ t \in tasks[p] /\ t.kind = "session"
  /\ IF CurrentTask(p, t) /\ relay[p].phase = "offering" /\ relay[p].crypto = Nil
     THEN /\ relay' = [relay EXCEPT ![p].crypto = t.key]
          /\ keyed' = [keyed EXCEPT ![p] = Append(@, relay[p].key)]
          /\ tasks' = [tasks EXCEPT ![p] = (@ \ {t}) \cup {[t EXCEPT !.kind = "activate"]}]
     ELSE tasks' = [tasks EXCEPT ![p] = @ \ {t}] /\ UNCHANGED <<relay, keyed>>
  /\ UNCHANGED <<routeVars, signals, fresh, acknowledged, changes, losses, late>>

(* The codecs are up.                                                      *)
Activated(p, t) ==
  /\ t \in tasks[p] /\ t.kind = "activate"
  /\ tasks' = [tasks EXCEPT ![p] = @ \ {t}]
  /\ relay' = IF CurrentTask(p, t)
              THEN [relay EXCEPT ![p] = [@ EXCEPT !.phase = "active", !.armed = TRUE]]
              ELSE relay
  /\ UNCHANGED <<routeVars, signals, fresh, keyed, acknowledged, changes, losses, late>>

(* receivePacket: the first packet of this epoch.  It authenticates when   *)
(* both ends have derived their session from the same two keys.            *)
Authentic(p) ==
  relay[p].crypto = relay[Other(p)].key /\ relay[Other(p)].crypto = relay[p].key

CanHear(p) ==
  LET r == relay[p]  o == relay[Other(p)]
  IN /\ r.phase = "active" /\ o.phase = "active" /\ ~r.exposed
     /\ r.epoch = o.epoch /\ ~r.reconnecting /\ ~o.reconnecting

Hear(p) ==
  /\ CanHear(p)
  /\ relay' = IF Authentic(p)
              THEN [relay EXCEPT ![p] = [@ EXCEPT !.exposed = TRUE, !.armed = FALSE]]
              ELSE [relay EXCEPT ![p] = Removed(@)]
  /\ UNCHANGED <<routeVars, tasks, signals, fresh, keyed, acknowledged, changes, losses, late>>

-----------------------------------------------------------------------------
(* handleSignalUnsafe, kind by kind.                                       *)
Takes(p, kind) == signals[p] # <<>> /\ Head(signals[p]).kind = kind

StopReceived(p) ==
  /\ Takes(p, "stop")
  /\ LET e == Head(signals[p]).tag
         stale == e # Nil /\ relay[p].epoch # Nil /\ e # relay[p].epoch
     IN relay' = IF ~relay[p].wanted \/ stale THEN relay ELSE [relay EXCEPT ![p] = Removed(@)]
  /\ signals' = Received(p)
  /\ UNCHANGED <<routeVars, tasks, fresh, keyed, acknowledged, changes, losses, late>>

ReadyReceived(p) ==
  /\ Takes(p, "ready") /\ p = Initiator
  /\ Handshake(p, Wanted(relay[p]), Received(p))
  /\ UNCHANGED <<routeVars, keyed, acknowledged, changes, losses, late>>

OfferReceived(p) ==
  /\ Takes(p, "offer") /\ p = Responder
  /\ LET s == Head(signals[p])
         r == Wanted(relay[p])
         answering == [ResetMedia(r) EXCEPT !.generation = r.generation + 1,
                                            !.phase = "answering", !.epoch = s.tag]
     IN IF r.epoch = s.tag /\ r.phase # "idle"
        THEN UNCHANGED <<relay, tasks>>
        ELSE /\ relay' = [relay EXCEPT ![p] = answering]
             /\ tasks' = [tasks EXCEPT ![p] = @ \cup {Task("answer", answering, s.tag, s.key)}]
  /\ signals' = Received(p)
  /\ UNCHANGED <<routeVars, fresh, keyed, acknowledged, changes, losses, late>>

AnswerReceived(p) ==
  /\ Takes(p, "answer") /\ p = Initiator
  /\ LET s == Head(signals[p])
         r == Wanted(relay[p])
     IN /\ relay' = [relay EXCEPT ![p] = r]
        /\ tasks' = IF r.epoch = s.tag /\ r.key # Nil /\ r.phase = "offering" /\ r.crypto = Nil
                    THEN [tasks EXCEPT ![p] = @ \cup
                           {[Task("session", r, s.tag, s.key) EXCEPT !.copy = Cardinality(tasks[p])]}]
                    ELSE tasks
  /\ signals' = Received(p)
  /\ UNCHANGED <<routeVars, fresh, keyed, acknowledged, changes, losses, late>>

(* Mutant: no second attempt.                                              *)
HandshakeTimeoutOnce(p) ==
  /\ relay[p].armed /\ ~relay[p].exposed /\ TimerFires
  /\ relay' = [relay EXCEPT ![p] = Removed(@)]
  /\ UNCHANGED <<routeVars, tasks, signals, fresh, keyed, acknowledged, changes, losses>>

(* armHandshake's timer: another attempt, or none after two, or after a    *)
(* session over which nothing was heard.                                   *)
HandshakeTimeout(p) ==
  /\ relay[p].armed /\ ~relay[p].exposed /\ TimerFires
  /\ IF relay[p].phase = "active" \/ relay[p].attempts >= MaxTries
     THEN relay' = [relay EXCEPT ![p] = Removed(@)] /\ UNCHANGED <<tasks, signals, fresh>>
     ELSE Handshake(p, [relay[p] EXCEPT !.attempts = @ + 1, !.armed = FALSE], signals)
  /\ UNCHANGED <<routeVars, keyed, acknowledged, changes, losses>>

(* The relay's socket closes; it is opened again, or given up.             *)
SocketLost(p) ==
  /\ relay[p].wanted /\ ~relay[p].reconnecting /\ losses < MaxLosses
  /\ losses' = losses + 1
  /\ LET r == relay[p]
     IN relay' = [relay EXCEPT ![p] =
          [ResetMedia(r) EXCEPT !.generation = r.generation + 1, !.attempts = 0,
                                !.reconnecting = TRUE]]
  /\ UNCHANGED <<routeVars, tasks, signals, fresh, keyed, acknowledged, changes, late>>

SocketBack(p) ==
  /\ relay[p].reconnecting
  /\ Handshake(p, [relay[p] EXCEPT !.reconnecting = FALSE], signals)
  /\ UNCHANGED <<routeVars, keyed, acknowledged, changes, losses, late>>

SocketUnavailable(p) ==
  /\ relay[p].reconnecting /\ losses < MaxLosses /\ losses' = losses + 1
  /\ relay' = [relay EXCEPT ![p] = Removed(@)]
  /\ UNCHANGED <<routeVars, tasks, signals, fresh, keyed, acknowledged, changes, late>>

-----------------------------------------------------------------------------
(* updateVoiceRoute, as the connection's state changes at this end.        *)
ConnectionUp(p) ==
  /\ ~connected[p] /\ changes < MaxChanges /\ changes' = changes + 1
  /\ connected' = [connected EXCEPT ![p] = TRUE]
  /\ stableTimer' = [stableTimer EXCEPT ![p] = TRUE]
  /\ relayTimer' = [relayTimer EXCEPT ![p] = FALSE]
  /\ UNCHANGED <<directReady, directProbe, relay, tasks, signals, fresh, keyed, acknowledged,
                 losses, late>>

ConnectionDown(p) ==
  /\ connected[p] /\ changes < MaxChanges /\ changes' = changes + 1
  /\ connected' = [connected EXCEPT ![p] = FALSE]
  /\ stableTimer' = [stableTimer EXCEPT ![p] = FALSE]
  /\ relayTimer' = [relayTimer EXCEPT ![p] = TRUE]
  /\ directReady' = [directReady EXCEPT ![p] = FALSE]
  /\ directProbe' = [directProbe EXCEPT ![p] = Nil]
  /\ signals' = Send(signals, p, Signal("direct-unready", Nil, Nil))
  /\ UNCHANGED <<relay, tasks, fresh, keyed, acknowledged, losses, late>>

(* Five seconds of it: this end is ready, and asks the other.              *)
Stable(p) ==
  /\ stableTimer[p] /\ TimerFires
  /\ stableTimer' = [stableTimer EXCEPT ![p] = FALSE]
  /\ directReady' = [directReady EXCEPT ![p] = TRUE]
  /\ Make(p) /\ directProbe' = [directProbe EXCEPT ![p] = New(p)]
  /\ signals' = Send(signals, p, Signal("direct-probe", New(p), Nil))
  /\ UNCHANGED <<connected, relayTimer, relay, tasks, keyed, acknowledged, changes, losses>>

ProbeReceived(p) ==
  /\ Takes(p, "direct-probe")
  /\ LET n == Head(signals[p]).tag
     IN IF directReady[p]
        THEN /\ signals' = Send(Received(p), p, Signal("direct-ready", n, Nil))
             /\ acknowledged' = acknowledged \cup {n}
        ELSE signals' = Received(p) /\ UNCHANGED acknowledged
  /\ UNCHANGED <<routeVars, relay, tasks, fresh, keyed, changes, losses, late>>

(* Mutant: any answer restores the direct route.                           *)
AnyReadyReceived(p) ==
  /\ Takes(p, "direct-ready")
  /\ relayTimer' = [relayTimer EXCEPT ![p] = FALSE]
  /\ directProbe' = [directProbe EXCEPT ![p] = Nil]
  /\ relay' = IF relay[p].wanted THEN [relay EXCEPT ![p] = Removed(@)] ELSE relay
  /\ signals' = IF relay[p].wanted
                THEN Send(Received(p), p, Signal("stop", relay[p].epoch, Nil))
                ELSE Received(p)
  /\ UNCHANGED <<connected, stableTimer, directReady, tasks, fresh, keyed, acknowledged, changes,
                 losses, late>>

(* restoreDirectVoice, for the probe that is out and no other: the relay   *)
(* is stopped here, and the other end is told if there was one.            *)
DirectReadyReceived(p) ==
  /\ Takes(p, "direct-ready")
  /\ IF directProbe[p] = Head(signals[p]).tag /\ directReady[p]
     THEN /\ relayTimer' = [relayTimer EXCEPT ![p] = FALSE]
          /\ directProbe' = [directProbe EXCEPT ![p] = Nil]
          /\ relay' = IF relay[p].wanted THEN [relay EXCEPT ![p] = Removed(@)] ELSE relay
          /\ signals' = IF relay[p].wanted
                        THEN Send(Received(p), p, Signal("stop", relay[p].epoch, Nil))
                        ELSE Received(p)
     ELSE signals' = Received(p) /\ UNCHANGED <<relayTimer, directProbe, relay>>
  /\ UNCHANGED <<connected, stableTimer, directReady, tasks, fresh, keyed, acknowledged, changes,
                 losses, late>>

UnreadyReceived(p) ==
  /\ Takes(p, "direct-unready")
  /\ directProbe' = [directProbe EXCEPT ![p] = Nil]
  /\ relayTimer' = [relayTimer EXCEPT ![p] = TRUE]
  /\ signals' = Received(p)
  /\ UNCHANGED <<connected, stableTimer, directReady, relay, tasks, fresh, keyed, acknowledged,
                 changes, losses, late>>

LoseSignal(p) ==
  /\ signals[p] # <<>> /\ losses < MaxLosses /\ losses' = losses + 1
  /\ signals' = Received(p)
  /\ UNCHANGED <<routeVars, relay, tasks, fresh, keyed, acknowledged, changes, late>>

RepeatSignal(p) ==
  /\ signals[p] # <<>> /\ losses < MaxLosses /\ losses' = losses + 1
  /\ signals' = [signals EXCEPT ![p] = Append(@, Head(@))]
  /\ UNCHANGED <<routeVars, relay, tasks, fresh, keyed, acknowledged, changes, late>>

Receive(p) ==
  \/ StopReceived(p) \/ ReadyReceived(p) \/ OfferReceived(p) \/ AnswerReceived(p)
  \/ ProbeReceived(p) \/ DirectReadyReceived(p) \/ UnreadyReceived(p)

Continue(p, t) == OfferMade(p, t) \/ AnswerMade(p, t) \/ SessionMade(p, t) \/ Activated(p, t)

VoiceNext ==
  \E p \in End :
    \/ Receive(p) \/ (\E t \in tasks[p] : Continue(p, t))
    \/ StartRelay(p) \/ Hear(p) \/ HandshakeTimeout(p)
    \/ SocketLost(p) \/ SocketBack(p) \/ SocketUnavailable(p)
    \/ ConnectionUp(p) \/ ConnectionDown(p) \/ Stable(p) \/ LoseSignal(p) \/ RepeatSignal(p)

(* Signals arrive, awaits resolve, timers fire and audio is sent; nothing  *)
(* makes the connection change or the network lose anything.               *)
Progress(p) ==
  \/ Receive(p) \/ (\E t \in tasks[p] : Continue(p, t))
  \/ StartRelay(p) \/ Hear(p) \/ HandshakeTimeout(p) \/ SocketBack(p) \/ Stable(p)

VoiceFairness == \A p \in End : WF_voiceVars(Progress(p))

VoiceSpec == VoiceInit /\ [][VoiceNext]_voiceVars
VoiceFairSpec == VoiceSpec /\ VoiceFairness

-----------------------------------------------------------------------------
(* A key encrypts for one session only: a duplicate or late answer, a      *)
(* repeated offer and a restart never start the nonce counter again under  *)
(* the same key (docs/VOICE_RELAY.md: "duplicate negotiation messages must *)
(* not reset the nonce counter").                                          *)
KeysServeOneSession ==
  \A p \in End : \A i, j \in DOMAIN keyed[p] : i # j => keyed[p][i] # keyed[p][j]

(* The responder has answered the offer that is in use once more: it lost  *)
(* its socket and the offer came again. The initiator took the first       *)
(* answer, and does not learn of the new key.                              *)
AnsweredAgain ==
  \E i, j \in DOMAIN keyed[Responder] :
    /\ i < j /\ keyed[Responder][i] = relay[Initiator].crypto
    /\ keyed[Responder][j] = relay[Responder].key

(* Only what authenticates is heard: while an end hears the other, and the *)
(* other has a session in the same epoch, the other's session is derived   *)
(* from this end's key; and this end's from the other's key, unless the    *)
(* initiator holds an answer that the responder has replaced since.        *)
EpochsAgree ==
  \A p \in End :
    relay[p].exposed /\ relay[Other(p)].crypto # Nil /\ relay[p].epoch = relay[Other(p)].epoch =>
      /\ relay[Other(p)].crypto = relay[p].key
      /\ relay[p].crypto = relay[Other(p)].key \/ (p = Initiator /\ AnsweredAgain)

(* "Both ends must see a stable RTC path before either stops the           *)
(* fallback": whoever sends stop has been answered, for the probe it has   *)
(* out, by an end that was ready, and is ready itself.                     *)
RestoredTogether ==
  [][\A p \in End :
       relay[p].wanted /\ ~relay'[p].wanted /\ Len(signals'[Other(p)]) > Len(signals[Other(p)]) =>
         connected[p] /\ directReady[p] /\ directProbe[p] \in acknowledged]_voiceVars

Down == \A p \in End : ~connected[p]

(* An answer that comes after its initiator has given up makes an entry    *)
(* with no handshake and no timer.                                         *)
Stranded(p) ==
  relay[p].wanted /\ relay[p].epoch = Nil /\ ~relay[p].reconnecting /\ ~relay[p].armed

(* While the connection stays down no end waits for ever: it hears the     *)
(* other or gives up, whatever is lost, repeated or late; only an entry    *)
(* that a late answer made waits on.                                       *)
FallbackSettles ==
  <>[]Down => \A p \in End : <>[](relay[p].exposed \/ ~relay[p].wanted \/ Stranded(p))

(* Each comes to hear the other through the server if no more than one     *)
(* signal or socket is lost or repeated and no timer overtakes what it     *)
(* waits for (one that does uses up an attempt, or ends the session).      *)
FallbackHeard ==
  <>[](Down /\ losses <= 1 /\ late = 0) => <>[](\A p \in End : relay[p].exposed)
=============================================================================
