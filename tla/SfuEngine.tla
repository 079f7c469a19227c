------------------------------ MODULE SfuEngine ------------------------------
(***************************************************************************)
(* The media sessions of one peer at the media server (apps/sfu): its      *)
(* successive signaling sockets (signaling.rs), the authorization lease    *)
(* each holds at the API (authorization.rs, and sfu_authorization.go on    *)
(* the other side), the route table and the engine's single queue          *)
(* (engine.rs).  Several sockets of the peer may be there at a time, one   *)
(* that has not finished and others that want its place.                   *)
(*                                                                         *)
(* The engine itself (the sfu crate) is external: it handles its events    *)
(* one by one and answers descriptions.  A socket's place is used again.   *)
(***************************************************************************)
EXTENDS Naturals, Sequences

CONSTANTS
  Socket,
  MaxInbound,   \* bound: a client sends nothing behind that many events and answers
  NoSocket

SfuAssumption == NoSocket \notin Socket

VARIABLES
  socket,        \* signaling socket -> where its task is
  lease,         \* socket -> its lease as the API has it
  told,          \* sockets whose lease the server knows to be over
  route,         \* routes[(room, client)]: the socket it delivers to
  inbound,       \* events on their way to the engine
  mediaSession,  \* the socket whose Join the engine has handled
  answers,       \* socket -> answers in its channel
  stalled        \* sockets whose client does not drain what it is sent

sfuVars == <<socket, lease, told, route, inbound, mediaSession, answers, stalled>>

Task == {"idle", "admitted", "serving", "writing", "leaving"}
Lease == {"none", "granted", "revoked", "unheard"}
Event == [kind : {"Join", "Leave", "Description"}, from : Socket]

SfuTypeOK ==
  /\ socket \in [Socket -> Task] /\ lease \in [Socket -> Lease] /\ told \subseteq Socket
  /\ route \in Socket \cup {NoSocket} /\ mediaSession \in Socket \cup {NoSocket}
  /\ inbound \in Seq(Event) /\ answers \in [Socket -> Nat] /\ stalled \subseteq Socket

SfuInit ==
  /\ socket = [s \in Socket |-> "idle"] /\ lease = [s \in Socket |-> "none"] /\ told = {}
  /\ route = NoSocket /\ inbound = <<>> /\ mediaSession = NoSocket
  /\ answers = [s \in Socket |-> 0] /\ stalled = {}

Sends(kind, s) == inbound' = Append(inbound, [kind |-> kind, from |-> s])
Goes(s, task) == socket' = [socket EXCEPT ![s] = task]

-----------------------------------------------------------------------------
(* handler: the API grants one lease per peer, whatever the media server   *)
(* has; the socket is upgraded with it.                                    *)
acquire(s) ==
  /\ socket[s] = "idle" /\ lease[s] = "none" /\ Len(inbound) < MaxInbound
  /\ \A d \in Socket : lease[d] \in {"none", "revoked"}
  /\ lease' = [lease EXCEPT ![s] = "granted"] /\ Goes(s, "admitted")
  /\ UNCHANGED <<told, route, inbound, mediaSession, answers, stalled>>

(* run: the route is taken, and only then is the engine told.  A route     *)
(* that is taken belongs to a socket that has not left: this one goes, and *)
(* its lease with it.                                                      *)
MayReplace(s) == TRUE
MayRegister(s) == route = NoSocket
Register(s) ==
  /\ socket[s] = "admitted"
  /\ IF MayRegister(s)
     THEN route' = s /\ Sends("Join", s) /\ Goes(s, "serving")
     ELSE Goes(s, "idle") /\ UNCHANGED <<route, inbound>>
  /\ UNCHANGED <<lease, told, mediaSession, answers, stalled>>

ClientSends(s) ==
  /\ socket[s] = "serving" /\ Len(inbound) + answers[s] < MaxInbound
  /\ Sends("Description", s)
  /\ UNCHANGED <<socket, lease, told, route, mediaSession, answers, stalled>>

Forward(s) ==
  /\ socket[s] = "serving" /\ answers[s] > 0
  /\ Goes(s, "writing") /\ answers' = [answers EXCEPT ![s] = @ - 1]
  /\ UNCHANGED <<lease, told, route, inbound, mediaSession, stalled>>

\* send_with_lease: written, unless the client does not read.
Written(s) ==
  /\ socket[s] = "writing" /\ s \notin stalled
  /\ Goes(s, "serving")
  /\ UNCHANGED <<lease, told, route, inbound, mediaSession, answers, stalled>>
Stall(s) ==
  /\ socket[s] \in {"serving", "writing"} /\ s \notin stalled
  /\ stalled' = stalled \cup {s}
  /\ UNCHANGED <<socket, lease, told, route, inbound, mediaSession, answers>>

\* The loop ends: the client goes, a write times out, or the lease is over.
Leaves(s) == Sends("Leave", s) /\ Goes(s, "leaving")
SocketEnds(s) ==
  /\ socket[s] \in {"serving", "writing"} /\ Leaves(s)
  /\ UNCHANGED <<lease, told, route, mediaSession, answers, stalled>>
AuthorizationSeen(s) == socket[s] = "serving" /\ s \in told
AuthorizationOver(s) == socket[s] \in {"serving", "writing"} /\ s \in told
AuthorizationEnds(s) ==
  /\ AuthorizationOver(s) /\ Leaves(s)
  /\ UNCHANGED <<lease, told, route, mediaSession, answers, stalled>>

Unregister(s) ==
  /\ socket[s] = "leaving"
  /\ Goes(s, "idle")
  /\ route' = NoSocket /\ told' = told \ {s} /\ stalled' = stalled \ {s}
  /\ answers' = [answers EXCEPT ![s] = 0]
  /\ UNCHANGED <<lease, inbound, mediaSession>>

-----------------------------------------------------------------------------
(* The engine task: route_event looks the route up when the answer is      *)
(* there, whoever asked for it.                                            *)
Engine ==
  /\ inbound # <<>> /\ inbound' = Tail(inbound)
  /\ LET e == Head(inbound) IN
     /\ mediaSession' = CASE e.kind = "Join" -> e.from
                          [] e.kind = "Leave" -> NoSocket
                          [] OTHER -> mediaSession
     /\ answers' = IF e.kind = "Description" /\ mediaSession # NoSocket /\ route # NoSocket
                   THEN [answers EXCEPT ![route] = @ + 1] ELSE answers
  /\ UNCHANGED <<socket, lease, told, route, stalled>>

-----------------------------------------------------------------------------
(* The lease.  revokeSFU frees it and closes its connection; an API that   *)
(* is gone, or stuck, is not heard of again.                               *)
revokeSFU(s) ==
  /\ lease[s] = "granted" /\ lease' = [lease EXCEPT ![s] = "revoked"]
  /\ UNCHANGED <<socket, told, route, inbound, mediaSession, answers, stalled>>
Lost(s) ==
  /\ lease[s] = "granted" /\ lease' = [lease EXCEPT ![s] = "unheard"]
  /\ UNCHANGED <<socket, told, route, inbound, mediaSession, answers, stalled>>

\* hold: the close arrives, or pings stay unanswered for 40 seconds.
hold(s) ==
  /\ socket[s] \in {"serving", "writing"} /\ lease[s] # "granted" /\ s \notin told
  /\ told' = told \cup {s}
  /\ UNCHANGED <<socket, lease, route, inbound, mediaSession, answers, stalled>>

\* sfuAuthorization: the handler's read fails, when the media server has let go
\* of the lease or has not been heard for 45 seconds.
sfuAuthorization(s) ==
  /\ \/ lease[s] = "unheard"
     \/ lease[s] # "none" /\ socket[s] = "idle"
  /\ lease' = [lease EXCEPT ![s] = "none"]
  /\ UNCHANGED <<socket, told, route, inbound, mediaSession, answers, stalled>>

-----------------------------------------------------------------------------
SfuNext ==
  \/ Engine
  \/ \E s \in Socket :
       \/ acquire(s) \/ Register(s) \/ ClientSends(s) \/ Forward(s) \/ Written(s) \/ Stall(s)
       \/ SocketEnds(s) \/ AuthorizationEnds(s) \/ Unregister(s)
       \/ revokeSFU(s) \/ Lost(s) \/ hold(s) \/ sfuAuthorization(s)

(* Tasks run, closes and timeouts are noticed; no client reads or leaves.  *)
SfuFairness ==
  /\ WF_sfuVars(Engine)
  /\ \A s \in Socket :
       /\ WF_sfuVars(Register(s)) /\ WF_sfuVars(AuthorizationEnds(s)) /\ WF_sfuVars(Unregister(s))
       /\ WF_sfuVars(hold(s)) /\ WF_sfuVars(sfuAuthorization(s))

SfuSpec == SfuInit /\ [][SfuNext]_sfuVars
SfuFairSpec == SfuSpec /\ SfuFairness

-----------------------------------------------------------------------------
(* The engine has one session of the peer at a time, and ends the one that *)
(* leaves: a socket's Join finds its predecessor gone, and its Leave never *)
(* removes a successor ("Replacing its route would let its cleanup remove  *)
(* the new peer", engine.rs).                                              *)
OneMediaSession ==
  [][mediaSession' # mediaSession =>
       LET e == Head(inbound)
       IN IF e.kind = "Join" THEN mediaSession = NoSocket ELSE mediaSession = e.from]_mediaSession

(* Media ends with its lease, even when the client reads nothing and the   *)
(* API cannot say so ("A disconnected/stalled API never leaves media       *)
(* authorized indefinitely", authorization.rs).                            *)
UnauthorizedMediaEnds ==
  \A s \in Socket : lease[s] \in {"revoked", "unheard"} ~> mediaSession # s
=============================================================================
