---------------------------- MODULE MCServerState ----------------------------
(***************************************************************************)
(* Three more parts of the server, for TLC: an attachment being uploaded   *)
(* (AttachmentUpload), the event stream (RealtimePresence) and the media   *)
(* sessions of a peer (SfuEngine).  They share no variable, so one run     *)
(* checks them side by side: `which` names the component that moves, and   *)
(* their state spaces add up instead of multiplying.                       *)
(***************************************************************************)
EXTENDS AttachmentUpload, SfuEngine, RealtimePresence

VARIABLE which

all == <<which, vars, sfuVars, presenceVars>>

\* What the theorems about the event stream and the media sessions assume of
\* their constants.
ASSUME StreamAssumption == PresenceAssumption
ASSUME MediaAssumption == SfuAssumption

(* A contact's windows and its devices in a call share nothing but the     *)
(* observer's queue: they move in runs of their own.                       *)
Component == {"upload", "contact", "call", "media"}
Uploads(A) == which = "upload" /\ A /\ UNCHANGED <<which, sfuVars, presenceVars>>
Streams(c, A) == which = c /\ A /\ UNCHANGED <<which, vars, sfuVars>>
Serves(A) == which = "media" /\ A /\ UNCHANGED <<which, vars, presenceVars>>

(* The handlers of requests are alike: a request takes the first free one. *)
FirstFree ==
  \A r, q \in Request : handler[r].stage = "idle" /\ handler'[r].stage # "idle" /\ q < r
                       => handler[q].stage # "idle"

MCInit ==
  /\ which \in Component
  /\ Init /\ PresenceInit /\ SfuInit
  /\ which # "contact" => stored = "online"

MCNext ==
  \/ Uploads(Next /\ FirstFree)
  \/ Streams(which, which \in {"contact", "call"} /\ Observe)
  \/ Streams("contact", ContactMoves)
  \/ Streams("call", CallMoves)
  \/ Serves(SfuNext)

(* Fairness of the two components that have liveness properties.           *)
MCFairness ==
  /\ \A r \in Process : WF_all(Uploads(Handle(r)))
  /\ WF_all(Uploads(LeaseEnds)) /\ WF_all(Uploads(Cleanup))
  /\ WF_all(Serves(Engine))
  /\ \A s \in Socket :
       /\ WF_all(Serves(Register(s))) /\ WF_all(Serves(AuthorizationEnds(s)))
       /\ WF_all(Serves(Unregister(s)))
       /\ WF_all(Serves(hold(s))) /\ WF_all(Serves(sfuAuthorization(s)))

MCSpec == MCInit /\ [][MCNext]_all
MCFairSpec == MCSpec /\ MCFairness

-----------------------------------------------------------------------------
\* Every variable keeps its type, in each of the components.
TypesOK == which \in Component /\ TypeOK /\ PresenceTypeOK /\ SfuTypeOK
=============================================================================
