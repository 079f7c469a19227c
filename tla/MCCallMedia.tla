---------------------------- MODULE MCCallMedia ----------------------------
(***************************************************************************)
(* The client's side of a call, for TLC: the exchange of session           *)
(* descriptions (PeerNegotiation), the voice fallback (VoiceFallback), the *)
(* captured tracks (LocalTracks) and the call session (CallSession).  They *)
(* share no variable, so one run checks them side by side: `which` names   *)
(* the component that moves, and their state spaces add up instead of      *)
(* multiplying.                                                            *)
(***************************************************************************)
EXTENDS VoiceFallback, CallSession, LocalTracks, PeerNegotiation

CONSTANT MaxBegun   \* attempts and recordings that begin, together

VARIABLE which

all == <<which, vars, voiceVars, negotiationVars, tracksVars>>

\* What the theorems about these components assume of their constants.
ASSUME FallbackAssumption == VoiceAssumption
ASSUME CallAssumption == SessionAssumption
ASSUME CaptureAssumption == TrackAssumption
ASSUME ExchangeAssumption == NegotiationAssumption

\* The calls that stay within the bound on what begins in them.
BeginsFew ==
  Cardinality({a \in Attempt : attempt'[a] # "unused"})
    + Cardinality({s \in Session : recording'[s] # "unused"}) <= MaxBegun

\* Every change of the connection with one loss, or two losses or late timers,
\* or one of these and two changes.
DisturbedLittle ==
  (losses' <= 1 /\ late' = 0) \/ changes' + 2 * (losses' + late') <= 4

Component == {"negotiation", "relay", "tracks", "call"}
Negotiates(A) == which = "negotiation" /\ A /\ UNCHANGED <<which, vars, voiceVars, tracksVars>>
Relays(A) ==
  which = "relay" /\ A /\ DisturbedLittle /\ UNCHANGED <<which, vars, negotiationVars, tracksVars>>
Captures(A) == which = "tracks" /\ A /\ UNCHANGED <<which, vars, voiceVars, negotiationVars>>
Joins(A) == which = "call" /\ A /\ UNCHANGED <<which, voiceVars, negotiationVars, tracksVars>>

MCInit ==
  /\ which \in Component
  /\ Init /\ VoiceInit /\ NegotiationInit /\ TracksInit

MCNext ==
  \/ Negotiates(NegotiationNext)
  \/ Relays(VoiceNext)
  \/ Captures(TracksNext)
  \/ Joins(Next) /\ BeginsFew

\* The fairness of the components that state one, as their modules do.
MCFairness ==
  /\ \A p \in Participant :
       /\ WF_all(Negotiates(NegotiationNeeded(p)))
       /\ WF_all(Negotiates(Greet(p)))
       /\ WF_all(Negotiates(SendOffer(p)))
       /\ WF_all(Negotiates(OfferTimer(p)))
       /\ WF_all(Negotiates(HandleSignal(p)))
       /\ WF_all(Negotiates(Operate(p)))
  /\ \A p \in End : WF_all(Relays(Progress(p)))

MCSpec == MCInit /\ [][MCNext]_all
MCFairSpec == MCSpec /\ MCFairness

-----------------------------------------------------------------------------
\* Every variable keeps its type, in each of the components.
TypesOK ==
  which \in Component /\ TypeOK /\ VoiceTypeOK /\ NegotiationTypeOK /\ TracksTypeOK

\* In the end both participants' last changes are in the session, whatever was
\* lost or collided (negotiate, watchOffer).
ChangesGetNegotiated == which = "negotiation" => ChangesAreNegotiated

\* While the direct connection stays down, each end hears the other through the
\* server or gives up; and each hears the other if little is lost and no timer
\* overtakes what it waits for (scheduleVoiceRelay, armHandshake).
FallbackGetsHeard == which = "relay" => FallbackSettles /\ FallbackHeard
=============================================================================
