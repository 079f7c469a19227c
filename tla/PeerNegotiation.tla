-------------------------- MODULE PeerNegotiation --------------------------
(***************************************************************************)
(* How two participants agree on a media session (class MediaEngine,       *)
(* apps/web/src/media/engine.ts): offers, answers and track metadata over  *)
(* the room's signaling, glare, unanswered offers sent again.              *)
(*                                                                         *)
(* The JavaScript of one participant interleaves at every await: a chain   *)
(* of inbound signals per peer (handleSignal), negotiate(), and timers.    *)
(* The RTCPeerConnection they share belongs to the browser; it is modelled *)
(* by what the engine relies on: a queue of operations run one by one,     *)
(* implicit rollback, setLocalDescription() that makes whatever the state  *)
(* asks for, negotiationneeded raised when stable and idle.                *)
(*                                                                         *)
(* A description is what it says of its author: the revision of the        *)
(* author's tracks and route it covers.  Both participants have called     *)
(* addPeer and attached their first tracks (revision 1).                   *)
(***************************************************************************)
EXTENDS Naturals, Sequences

CONSTANTS
  Impolite, Polite,  \* localPeerId.localeCompare(peerId): one of each
  MaxRevision,       \* bound on the changes of a participant's tracks
  MaxSendLosses,     \* bound on sends that fail or are lost on the way
  MaxQueue,          \* nobody changes or repeats anything behind that many signals
  PromptTimers,      \* offers are repeated although the answer is on its way
  SlowLimits,        \* applyQuality waits for the browser (setParameters)
  NoDescription

VARIABLES
  revision,   \* what the participant's senders and route now are
  agreed,     \* the revision its last completed exchange covered
  signaling,  \* pc.signalingState
  pending,    \* the offer of pc.pendingLocalDescription, or None
  asked,      \* the offer of pc.pendingRemoteDescription, or None
  session,    \* <<offer, answer>> of the current descriptions, or None
  operations, \* the peer connection's operations chain
  raised,     \* negotiationneeded has been raised and nothing settled since
  making,     \* negotiate(): idle, creating, limiting (peer.makingOffer)
  handling,   \* the signal whose setRemoteDescription is under way, or None
  settling,   \* peer.isSettingRemoteAnswerPending
  watching,   \* peer.offerTimer is armed
  greeted,    \* addPeer's microtask for the first offer has run
  named,      \* the revision of the other's metadata this one has
  channel,    \* signals on their way to a participant
  sendLosses

pcVars == <<agreed, signaling, pending, asked, session, raised>>
jsVars == <<making, handling, settling, watching, greeted, named>>
negotiationVars == <<revision, operations, pcVars, jsVars, channel, sendLosses>>

Participant == {Impolite, Polite}
OtherSide(p) == IF p = Polite THEN Impolite ELSE Polite

Revision == 0 .. MaxRevision
Offer == [type : {"offer"}, from : Participant, covers : Revision]
Answer == [type : {"answer"}, from : Participant, covers : Revision, to : Offer]
Metadata == [type : {"track-metadata"}, covers : Revision]
PeerSignal == Offer \cup Answer \cup Metadata
Operation == {"offer", "apply", "answer"}

NegotiationAssumption ==
  /\ Impolite # Polite
  /\ MaxRevision \in Nat \ {0} /\ {MaxSendLosses, MaxQueue} \subseteq Nat
  /\ {PromptTimers, SlowLimits} \subseteq BOOLEAN
  /\ NoDescription \notin PeerSignal /\ NoDescription \notin Offer \X Answer

Types ==
  /\ revision \in [Participant -> Revision] /\ agreed \in [Participant -> Revision]
  /\ signaling \in [Participant -> {"stable", "have-local-offer", "have-remote-offer"}]
  /\ pending \in [Participant -> Offer \cup {NoDescription}]
  /\ asked \in [Participant -> Offer \cup {NoDescription}]
  /\ session \in [Participant -> (Offer \X Answer) \cup {NoDescription}]
  /\ operations \in [Participant -> Seq(Operation)]
  /\ {raised, settling, watching, greeted} \subseteq [Participant -> BOOLEAN]
  /\ making \in [Participant -> {"idle", "creating", "limiting"}]
  /\ handling \in [Participant -> Offer \cup Answer \cup {NoDescription}]
  /\ named \in [Participant -> Revision]
  /\ channel \in [Participant -> Seq(PeerSignal)]
  /\ sendLosses \in 0 .. MaxSendLosses

(* The types of the state; the operations chain holds at most what         *)
(* negotiate and one inbound signal have started.                          *)
NegotiationTypeOK == Types /\ \A p \in Participant : Len(operations[p]) <= 2

NegotiationInit ==
  /\ revision = [p \in Participant |-> 1] /\ agreed = [p \in Participant |-> 0]
  /\ signaling = [p \in Participant |-> "stable"]
  /\ pending = [p \in Participant |-> NoDescription]
  /\ asked = [p \in Participant |-> NoDescription]
  /\ session = [p \in Participant |-> NoDescription]
  /\ operations = [p \in Participant |-> <<>>]
  /\ raised = [p \in Participant |-> FALSE]
  /\ making = [p \in Participant |-> "idle"]
  /\ handling = [p \in Participant |-> NoDescription]
  /\ settling = [p \in Participant |-> FALSE]
  /\ watching = [p \in Participant |-> FALSE]
  /\ greeted = [p \in Participant |-> FALSE]
  /\ named = [p \in Participant |-> 0]
  /\ channel = [p \in Participant |-> <<>>]
  /\ sendLosses = 0

-----------------------------------------------------------------------------
(* send, for what one task sends in a row.  A send fails while the socket  *)
(* reconnects, and the last of what was sent can be lost with it.          *)
SendInOrder(p, signals) ==
  LET q == OtherSide(p) IN
  /\ \/ channel' = [channel EXCEPT ![q] = @ \o signals] /\ UNCHANGED sendLosses
     \/ /\ sendLosses < MaxSendLosses
        /\ sendLosses' = sendLosses + 1
        /\ \E sent \in 0 .. Len(signals) - 1 :
             channel' = [channel EXCEPT ![q] = @ \o SubSeq(signals, 1, sent)]

TrackMetadata(p) == [type |-> "track-metadata", covers |-> revision[p]]

(* What pc.localDescription is when an offer is sent: the pending one, or  *)
(* what the participant last contributed to a session.                     *)
LocalDescription(p) ==
  IF pending[p] # NoDescription THEN pending[p]
  ELSE IF session[p][1].from = p THEN session[p][1] ELSE session[p][2]

HasRemoteDescription(p) == session[p] # NoDescription \/ asked[p] # NoDescription

(* Without SlowLimits an offer leaves in the task that created it, before  *)
(* anything else happens at this participant.                              *)
AtRest(p) == SlowLimits \/ making[p] # "limiting"

(* The first, synchronous part of negotiate().                             *)
MayNegotiateTwice(p) ==                      \* mutant: makingOffer is not looked at
  /\ p = Polite => HasRemoteDescription(p)
  /\ signaling[p] = "stable"

MayNegotiate(p) ==
  /\ p = Polite => HasRemoteDescription(p)
  /\ making[p] = "idle" /\ signaling[p] = "stable"

Negotiate(p) ==
  IF MayNegotiate(p)
  THEN /\ making' = [making EXCEPT ![p] = "creating"]
       /\ operations' = [operations EXCEPT ![p] = Append(@, "offer")]
  ELSE UNCHANGED <<making, operations>>

-----------------------------------------------------------------------------
(* The browser raises negotiationneeded; or it is addPeer's microtask.     *)
NegotiationNeeded(p) ==
  /\ AtRest(p) /\ signaling[p] = "stable" /\ operations[p] = <<>>
  /\ revision[p] # agreed[p] /\ ~raised[p]
  /\ raised' = [raised EXCEPT ![p] = TRUE]
  /\ Negotiate(p)
  /\ UNCHANGED <<revision, agreed, signaling, pending, asked, session, handling, settling,
                 watching, greeted, named, channel, sendLosses>>

Greet(p) ==
  /\ p = Impolite /\ ~greeted[p]
  /\ greeted' = [greeted EXCEPT ![p] = TRUE]
  /\ IF HasRemoteDescription(p) THEN UNCHANGED <<making, operations>> ELSE Negotiate(p)
  /\ UNCHANGED <<revision, pcVars, handling, settling, watching, named, channel, sendLosses>>

(* A local track is added, replaced or removed, or the route is restarted; *)
(* replaceLocalTrack tells the other the names of the tracks.  A native    *)
(* screen's fallback sender also calls negotiate itself.                   *)
ChangeTracks(p, fallback) ==
  /\ AtRest(p) /\ revision[p] < MaxRevision /\ Len(channel[OtherSide(p)]) < MaxQueue
  /\ revision' = [revision EXCEPT ![p] = @ + 1]
  /\ SendInOrder(p, <<[type |-> "track-metadata", covers |-> revision[p] + 1]>>)
  /\ IF fallback THEN Negotiate(p) ELSE UNCHANGED <<making, operations>>
  /\ UNCHANGED <<pcVars, handling, settling, watching, greeted, named>>

(* setLocalDescription() of negotiate: an offer, unless a remote one has   *)
(* been applied since it was queued.  watchOffer follows at once.          *)
MakeOffer(p, fits) ==
  LET offer == [type |-> "offer", from |-> p, covers |-> revision[p]]
      answer == [type |-> "answer", from |-> p, to |-> asked[p],
                 covers |-> IF fits THEN revision[p] ELSE agreed[p]]
  IN
  IF signaling[p] = "have-remote-offer"
  THEN /\ signaling' = [signaling EXCEPT ![p] = "stable"]
       /\ session' = [session EXCEPT ![p] = <<asked[p], answer>>]
       /\ agreed' = [agreed EXCEPT ![p] = answer.covers]
       /\ asked' = [asked EXCEPT ![p] = NoDescription]
       /\ raised' = [raised EXCEPT ![p] = FALSE]
       /\ UNCHANGED pending
  ELSE /\ signaling' = [signaling EXCEPT ![p] = "have-local-offer"]
       /\ pending' = [pending EXCEPT ![p] = offer]
       /\ UNCHANGED <<session, agreed, asked, raised>>

CreateOffer(p) ==
  /\ AtRest(p) /\ operations[p] # <<>> /\ Head(operations[p]) = "offer"
  /\ operations' = [operations EXCEPT ![p] = Tail(@)]
  /\ \E fits \in BOOLEAN : MakeOffer(p, fits)
  /\ making' = [making EXCEPT ![p] = "limiting"]
  /\ watching' = [watching EXCEPT ![p] = TRUE]
  /\ UNCHANGED <<revision, handling, settling, greeted, named, channel, sendLosses>>

(* applyQuality is through: the offer and the metadata go out.             *)
SendOffer(p) ==
  /\ making[p] = "limiting"
  /\ SendInOrder(p, <<LocalDescription(p), TrackMetadata(p)>>)
  /\ making' = [making EXCEPT ![p] = "idle"]
  /\ UNCHANGED <<revision, operations, pcVars, handling, settling, watching, greeted, named>>

(* The offer timer: a pending offer is sent again, without metadata, and   *)
(* watched again; otherwise the watch is over.  Timers slower than a round *)
(* trip wait until the offer or its answer must have been lost.            *)
Outstanding(p) ==
  LET q == OtherSide(p)
      Concerns(d) ==
        d # NoDescription /\ (d = pending[p] \/ (d.type = "answer" /\ d.to = pending[p]))
  IN
  \/ Concerns(handling[p]) \/ Concerns(handling[q])
  \/ \E i \in DOMAIN channel[q] : Concerns(channel[q][i])
  \/ \E i \in DOMAIN channel[p] : Concerns(channel[p][i])

OfferTimerIdles(p) ==                        \* mutant: the timer repeats nothing
  /\ AtRest(p) /\ watching[p]
  /\ watching' = [watching EXCEPT ![p] = FALSE]
  /\ UNCHANGED <<revision, operations, pcVars, making, handling, settling, greeted, named,
                 channel, sendLosses>>

OfferTimer(p) ==
  /\ AtRest(p) /\ watching[p]
  /\ PromptTimers \/ (~Outstanding(p) /\ operations[p] = <<>> /\ making[p] = "idle")
  /\ IF pending[p] # NoDescription
     THEN /\ Len(channel[OtherSide(p)]) < MaxQueue
          /\ SendInOrder(p, <<pending[p]>>) /\ UNCHANGED watching
     ELSE watching' = [watching EXCEPT ![p] = FALSE] /\ UNCHANGED <<channel, sendLosses>>
  /\ UNCHANGED <<revision, operations, pcVars, making, handling, settling, greeted, named>>

-----------------------------------------------------------------------------
(* handleNormalSignal, up to its call of setRemoteDescription: the         *)
(* impolite side ignores an offer that collides with its own, and an       *)
(* answer nobody waits for any more is dropped.                            *)
ReadyForOffer(p) == making[p] = "idle" /\ (signaling[p] = "stable" \/ settling[p])

WantedDescription(p, d) ==
  IF d.type = "offer" THEN p = Polite \/ ReadyForOffer(p)
  ELSE signaling[p] = "have-local-offer"

ReceiveDescription(p) ==
  LET d == Head(channel[p]) IN
  /\ AtRest(p) /\ handling[p] = NoDescription /\ channel[p] # <<>> /\ d.type # "track-metadata"
  /\ channel' = [channel EXCEPT ![p] = Tail(@)]
  /\ IF WantedDescription(p, d)
     THEN /\ handling' = [handling EXCEPT ![p] = d]
          /\ settling' = [settling EXCEPT ![p] = d.type = "answer"]
          /\ operations' = [operations EXCEPT ![p] = Append(@, "apply")]
     ELSE UNCHANGED <<handling, settling, operations>>
  /\ UNCHANGED <<revision, pcVars, making, watching, greeted, named, sendLosses>>

ReceiveMetadata(p) ==
  LET m == Head(channel[p]) IN
  /\ AtRest(p) /\ handling[p] = NoDescription /\ channel[p] # <<>> /\ m.type = "track-metadata"
  /\ channel' = [channel EXCEPT ![p] = Tail(@)]
  /\ named' = [named EXCEPT ![p] = m.covers]
  /\ UNCHANGED <<revision, operations, pcVars, making, handling, settling, watching, greeted,
                 sendLosses>>

(* setRemoteDescription of an offer: a pending offer of one's own is       *)
(* rolled back.  The handler goes on to setLocalDescription().             *)
ApplyOffer(p) ==
  /\ AtRest(p) /\ operations[p] # <<>> /\ Head(operations[p]) = "apply" /\ handling[p].type = "offer"
  /\ signaling' = [signaling EXCEPT ![p] = "have-remote-offer"]
  /\ asked' = [asked EXCEPT ![p] = handling[p]]
  /\ pending' = [pending EXCEPT ![p] = NoDescription]
  /\ settling' = [settling EXCEPT ![p] = FALSE]
  /\ operations' = [operations EXCEPT ![p] = Append(Tail(@), "answer")]
  /\ UNCHANGED <<revision, agreed, session, raised, making, handling, watching, greeted,
                 named, channel, sendLosses>>

(* ... which answers it, unless negotiate's call came first and did; the   *)
(* handler then finds itself making an offer, and sends that.              *)
SendAnswer(p) ==
  LET q == OtherSide(p) IN
  /\ AtRest(p) /\ operations[p] # <<>> /\ Head(operations[p]) = "answer"
  /\ operations' = [operations EXCEPT ![p] = Tail(@)]
  /\ \E fits \in BOOLEAN : MakeOffer(p, fits)
  /\ SendInOrder(p, <<LocalDescription(p)', TrackMetadata(p)>>)
  /\ handling' = [handling EXCEPT ![p] = NoDescription]
  /\ UNCHANGED <<revision, making, settling, watching, greeted, named>>

(* setRemoteDescription of an answer.  The browser takes one to an earlier *)
(* offer too when its media lines match; if it does not, the error leaves  *)
(* isSettingRemoteAnswerPending set.                                       *)
ApplyAnswer(p) ==
  LET d == handling[p] IN
  /\ AtRest(p) /\ operations[p] # <<>> /\ Head(operations[p]) = "apply" /\ d.type = "answer"
  /\ operations' = [operations EXCEPT ![p] = Tail(@)]
  /\ handling' = [handling EXCEPT ![p] = NoDescription]
  /\ \/ /\ signaling[p] = "have-local-offer"
        /\ session' = [session EXCEPT ![p] = <<pending[p], d>>]
        /\ agreed' = [agreed EXCEPT ![p] = pending[p].covers]
        /\ signaling' = [signaling EXCEPT ![p] = "stable"]
        /\ pending' = [pending EXCEPT ![p] = NoDescription]
        /\ raised' = [raised EXCEPT ![p] = FALSE]
        /\ settling' = [settling EXCEPT ![p] = FALSE]
     \/ /\ signaling[p] # "have-local-offer" \/ d.to # pending[p]
        /\ UNCHANGED <<session, agreed, signaling, pending, raised, settling>>
  /\ UNCHANGED <<revision, asked, making, watching, greeted, named, channel, sendLosses>>

HandleSignal(p) == ReceiveDescription(p) \/ ReceiveMetadata(p)
Operate(p) == CreateOffer(p) \/ ApplyOffer(p) \/ SendAnswer(p) \/ ApplyAnswer(p)

NegotiationNext ==
  \E p \in Participant :
    \/ NegotiationNeeded(p) \/ Greet(p) \/ SendOffer(p) \/ OfferTimer(p)
    \/ HandleSignal(p) \/ Operate(p)
    \/ \E fallback \in BOOLEAN : ChangeTracks(p, fallback)

(* Promises resolve, timers fire, the browser raises what it owes; people  *)
(* need not change anything.                                               *)
NegotiationFairness ==
  \A p \in Participant :
    /\ WF_negotiationVars(NegotiationNeeded(p)) /\ WF_negotiationVars(Greet(p))
    /\ WF_negotiationVars(SendOffer(p)) /\ WF_negotiationVars(OfferTimer(p))
    /\ WF_negotiationVars(HandleSignal(p)) /\ WF_negotiationVars(Operate(p))

NegotiationSpec == NegotiationInit /\ [][NegotiationNext]_negotiationVars
NegotiationFairSpec == NegotiationSpec /\ NegotiationFairness

-----------------------------------------------------------------------------
(* Whatever changes, is lost or collides, both participants' last changes  *)
(* are in the session in the end.                                          *)
ChangesAreNegotiated ==
  <>[](\A p \in Participant : signaling[p] = "stable" /\ agreed[p] = revision[p])
=============================================================================
