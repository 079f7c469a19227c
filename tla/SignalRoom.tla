----------------------------- MODULE SignalRoom -----------------------------
(***************************************************************************)
(* One room's call as its participants learn of it: the registry of        *)
(* HubRegistry, the bounded queue of every signaling connection, the       *)
(* handler goroutine that drains it (func websocket, hub.go), and the      *)
(* browser at the other end (signaling.ts, useCallSession.ts), which       *)
(* reconnects a dropped socket under the same peer id.                     *)
(*                                                                         *)
(* A handler's queue and the network behind it are one FIFO.  Connections  *)
(* are numbered in the order they are opened, and each is used once; a tab *)
(* takes a new peer id for every call it joins.                            *)
(***************************************************************************)
EXTENDS HubRegistry, Sequences

CONSTANTS
  Call,         \* the room
  PeerSession,  \* the session of the tab behind a peer id
  SignalQueue,  \* signalQueue: messages that may wait for one connection
  MaxSignals,   \* bound on the signals participants send each other
  MaxRestarts   \* bound on API restarts

ASSUME SignalRoomAssumption ==
  /\ Conn \subseteq Nat
  /\ Call \in Room
  /\ PeerSession \in [Peer -> Session]
  /\ SignalQueue \in Nat \ {0}
  /\ MaxSignals \in Nat
  /\ MaxRestarts \in Nat

VARIABLES
  \* the server
  member,      \* accounts that may join the call (RoomForMember, requireVoice)
  stage,       \* a connection's handler: new, registered, serving, done
  queue,       \* client.send
  overflowed,  \* client.overflowed
  kicked,      \* targets disconnectRoomUser has revoked and not yet removed
  departing,   \* removed, the peer.left broadcast of remove still to come
  relaying,    \* a checked signal on its way to Hub.relay, and its target
  relayed,     \* how many signals have been sent
  closing,     \* Close calls that wait in a goroutine of their own
  restarts,
  \* the browsers
  phase,       \* a call session: new, live, down (reconnecting), ended
  sock,        \* the socket it holds open
  told,        \* peers that socket announced: its snapshot and the events since
  view,        \* the peers its media engine holds connections to
  \* history
  late,        \* <<p, q>>: p heard of q's departure after q had come back
  evicted      \* call sessions another device replaced while they were connected

serverVars == <<member, stage, queue, overflowed, kicked, departing, relaying, relayed,
                closing, restarts>>
browserVars == <<phase, sock, told, view>>
historyVars == <<late, evicted>>
vars == <<registryVars, serverVars, browserVars, historyVars>>

Message == [type : {"joined", "left", "signal", "error"}, from : Peer]
CloseCode == {"retry", "policy"}

Members == rooms[Call]
PeersIn(S) == {PeerOf(c) : c \in S}
Identity(p) == [room |-> Call, session |-> PeerSession[p], peer |-> p]

(* The browser at the other end still has this socket.                     *)
Attached(c) == client[c] # None /\ sock[PeerOf(c)] = c

(* The types of the state; no queue outgrows its channel (client.send).    *)
TypeOK ==
  /\ RegistryTypeOK
  /\ member \subseteq User
  /\ stage \in [Conn -> {"new", "registered", "serving", "done"}]
  /\ queue \in [Conn -> Seq(Message)]
  /\ \A c \in Conn : Len(queue[c]) <= SignalQueue
  /\ overflowed \in [Conn -> BOOLEAN]
  /\ kicked \subseteq Conn /\ departing \subseteq Conn
  /\ relaying \in [Conn -> Peer \cup {None}]
  /\ relayed \in 0 .. MaxSignals
  /\ closing \in [Conn -> SUBSET CloseCode]
  /\ restarts \in 0 .. MaxRestarts
  /\ phase \in [Peer -> {"new", "live", "down", "ended"}]
  /\ sock \in [Peer -> Conn \cup {None}]
  /\ told \in [Peer -> SUBSET Peer] /\ view \in [Peer -> SUBSET Peer]
  /\ late \subseteq Peer \X Peer
  /\ evicted \subseteq Peer

Init ==
  /\ RegistryInit
  /\ member = User
  /\ stage = [c \in Conn |-> "new"]
  /\ queue = [c \in Conn |-> <<>>]
  /\ overflowed = [c \in Conn |-> FALSE]
  /\ kicked = {} /\ departing = {}
  /\ relaying = [c \in Conn |-> None]
  /\ relayed = 0
  /\ closing = [c \in Conn |-> {}]
  /\ restarts = 0
  /\ phase = [p \in Peer |-> "new"]
  /\ sock = [p \in Peer |-> None]
  /\ told = [p \in Peer |-> {}] /\ view = [p \in Peer |-> {}]
  /\ late = {} /\ evicted = {}

-----------------------------------------------------------------------------
(* deliver, for every target at once: a revoked client gets nothing, a     *)
(* full queue keeps what fits and marks its connection to be closed.       *)
TakesServing(targets) ==                     \* mutant: forgets who is joining
  {t \in targets : ~revoked[t] /\ stage[t] = "serving"}

Takes(targets) == {t \in targets : ~revoked[t]}

Spare(q) == SignalQueue - Len(q)

QueuedAll(q, ms) == q \o ms                  \* mutant: without the bound

Queued(q, ms) == q \o SubSeq(ms, 1, IF Len(ms) <= Spare(q) THEN Len(ms) ELSE Spare(q))

NeverOverflowing(targets, ms) == {}          \* mutant: drops and goes on

Overflowing(targets, ms) ==
  {t \in Takes(targets) : Len(ms) > Spare(queue[t]) /\ ~overflowed[t]}

Deliver(targets, ms) ==
  /\ queue' = [t \in Conn |-> IF t \in Takes(targets) THEN Queued(queue[t], ms) ELSE queue[t]]
  /\ overflowed' = [t \in Conn |-> overflowed[t] \/ t \in Overflowing(targets, ms)]

(* The goroutines Deliver starts to close the connections it overflowed.   *)
MarkedOnly(targets, ms) == [t \in Conn |-> closing[t]]  \* mutant: never closes

AfterDelivery(targets, ms) ==
  [t \in Conn |-> closing[t] \cup IF t \in Overflowing(targets, ms) THEN {"retry"} ELSE {}]

(* What the browser's peer list becomes when it handles message m.         *)
Apply(m, peers, self) ==
  CASE m.type = "left" -> peers \ {m.from}
    [] m.type \in {"joined", "signal"} -> (peers \cup {m.from}) \ {self}
    [] OTHER -> peers

(* The browser of c loses its socket: with a policy violation the call is  *)
(* over, after anything in RECONNECTABLE_CLOSE_CODES it tries to resume.   *)
LoseSocket(c, code) ==
  LET p == PeerOf(c) IN
  IF Attached(c)
  THEN /\ phase' = [phase EXCEPT ![p] = IF code = "policy" THEN "ended" ELSE "down"]
       /\ sock' = [sock EXCEPT ![p] = None]
       /\ told' = [told EXCEPT ![p] = {}]
       /\ view' = IF code = "policy" THEN [view EXCEPT ![p] = {}] ELSE view
       /\ late' = late \ ({p} \X Peer)
  ELSE UNCHANGED <<browserVars, late>>

-----------------------------------------------------------------------------
(* A browser opens a socket and the handler runs up to addWithMode.  The   *)
(* rest of the room hears of the devices this one replaced and, unless it  *)
(* resumes its own peer id, of the arrival; the snapshot is what c is told *)
(* first.  The sockets it replaced are closed by goroutines.               *)
NoDepartures(gone, p) == <<>>                \* mutant: evicts in silence

Departures(gone, p) ==
  LET left == {PeerOf(e) : e \in gone} \ {p}
      order == CHOOSE s \in [1 .. Cardinality(left) -> left] :
                 \A i, j \in DOMAIN s : s[i] = s[j] => i = j
  IN [i \in 1 .. Cardinality(left) |-> [type |-> "left", from |-> order[i]]]

ResumedByClient(p, gone) == phase[p] = "down"  \* mutant: believes the client

Resumed(p, gone) == p \in PeersIn(gone)

Register(p, c, replace) ==
  LET gone == Replaced(Identity(p), replace)
      others == Members \ gone
      resumed == Resumed(p, gone)
      news == Departures(gone, p) \o
              IF resumed THEN <<>> ELSE <<[type |-> "joined", from |-> p]>>
  IN
  /\ kicked = {} /\ stage[c] = "new" /\ \A d \in Conn : stage[d] = "new" => c <= d
  /\ SessionUser[PeerSession[p]] \in member
  /\ AddWithMode(c, Identity(p), replace)
  /\ stage' = [stage EXCEPT ![c] = "registered"]
  /\ Deliver(others, news)
  /\ closing' = [e \in Conn |-> AfterDelivery(others, news)[e] \cup
                               IF e \in gone /\ Attached(e) THEN {"policy"} ELSE {}]
  /\ told' = [told EXCEPT ![p] = PeersIn(others)]
  /\ late' = IF resumed THEN late ELSE late \ (Peer \X {p})
  /\ evicted' = evicted \cup (PeersIn({e \in gone : Attached(e)}) \ {p})
  /\ phase' = [phase EXCEPT ![p] = "live"]
  /\ sock' = [sock EXCEPT ![p] = c]
  /\ UNCHANGED <<member, kicked, departing, relaying, relayed, restarts, view>>

(* Joining: the person chooses to replace other devices or to add this one.*)
Join(p, c, replace) == phase[p] = "new" /\ Register(p, c, replace)

(* Resuming: resumeUrl always asks for join_mode=additional.               *)
Resume(p, c) == phase[p] = "down" /\ Register(p, c, FALSE)

(* The handler writes the peers snapshot and enters its loops.             *)
SendSnapshot(c) ==
  /\ stage[c] = "registered" /\ Attached(c)
  /\ stage' = [stage EXCEPT ![c] = "serving"]
  /\ view' = [view EXCEPT ![PeerOf(c)] = @ \cup told[PeerOf(c)]]
  /\ UNCHANGED <<registryVars, member, queue, overflowed, kicked, departing, relaying,
                 relayed, closing, restarts, phase, sock, told, historyVars>>

(* The writer goroutine sends the head of the queue.                       *)
Drain(c) ==
  LET p == PeerOf(c)
      m == Head(queue[c])
  IN
  /\ stage[c] = "serving" /\ Attached(c) /\ queue[c] # <<>> /\ ~revoked[c]
  /\ queue' = [queue EXCEPT ![c] = Tail(@)]
  /\ told' = [told EXCEPT ![p] = IF m.type = "signal" THEN @ ELSE Apply(m, @, p)]
  /\ view' = [view EXCEPT ![p] = Apply(m, @, p)]
  /\ UNCHANGED <<registryVars, member, stage, overflowed, kicked, departing, relaying,
                 relayed, closing, restarts, phase, sock, historyVars>>

(* remove takes c out of the room under the lock; its broadcast comes      *)
(* after (departing), unless somebody else has removed c already.          *)
RemoveUnrevoked(c) ==                        \* mutant: takes revoked for gone
  /\ RemoveClient(c)
  /\ departing' = IF InCall(c) /\ ~revoked[c] THEN departing \cup {c} ELSE departing

Remove(c) ==
  /\ RemoveClient(c)
  /\ departing' = IF InCall(c) THEN departing \cup {c} ELSE departing

(* The handler ends: a read or a write fails, or finds c revoked.  The     *)
(* socket goes without a close frame (CloseNow), so that a browser that    *)
(* still had it will reconnect, and a Close that waits finds it closed.    *)
HandlerExit(c) ==
  /\ stage[c] \in {"registered", "serving"} /\ relaying[c] = None
  /\ ~Attached(c) \/ (revoked[c] /\ stage[c] = "serving")
  /\ stage' = [stage EXCEPT ![c] = "done"]
  /\ Remove(c)
  /\ queue' = [queue EXCEPT ![c] = <<>>]
  /\ closing' = [closing EXCEPT ![c] = {}]
  /\ LoseSocket(c, "retry")
  /\ UNCHANGED <<client, revoked, owner, member, overflowed, kicked, relaying, relayed,
                 restarts, evicted>>

(* The second half of remove: broadcast under a lock of its own.           *)
BroadcastLeft(c) ==
  LET p == PeerOf(c)
      targets == Members \ {c}
      left == <<[type |-> "left", from |-> p]>>
  IN
  /\ c \in departing
  /\ departing' = departing \ {c}
  /\ Deliver(targets, left)
  /\ closing' = AfterDelivery(targets, left)
  /\ late' = IF p \in PeersIn(Members)
             THEN late \cup ({q \in Peer : sock[q] \in Takes(targets)} \X {p}) ELSE late
  /\ UNCHANGED <<registryVars, member, stage, kicked, relaying, relayed, restarts,
                 browserVars, evicted>>

(* forwardSignal checks that the sender is not revoked, then Hub.relay     *)
(* queues the message for the target; other goroutines run in between.     *)
(* The message may have been under way since before the socket broke.      *)
CheckSender(c, to) ==
  /\ stage[c] = "serving" /\ ~revoked[c] /\ relaying[c] = None
  /\ to # PeerOf(c) /\ kicked = {} /\ relayed < MaxSignals
  /\ relayed' = relayed + 1
  /\ relaying' = [relaying EXCEPT ![c] = to]
  /\ UNCHANGED <<registryVars, member, stage, queue, overflowed, kicked, departing,
                 closing, restarts, browserVars, historyVars>>

Relay(c) ==
  LET targets == {d \in Members : PeerOf(d) = relaying[c]}
      full == {t \in Takes(targets) : Spare(queue[t]) = 0}
      ok == Takes(targets) \ full # {}
      to == IF ok THEN targets ELSE full \cup {c}
      ms == <<[type |-> IF ok THEN "signal" ELSE "error", from |-> PeerOf(c)]>>
  IN
  /\ relaying[c] # None
  /\ relaying' = [relaying EXCEPT ![c] = None]
  /\ Deliver(to, ms)
  /\ closing' = AfterDelivery(to, ms)
  /\ UNCHANGED <<registryVars, member, stage, kicked, departing, relayed, restarts,
                 browserVars, historyVars>>

-----------------------------------------------------------------------------
(* disconnectRoomUser, after the account lost its place in the room: mark  *)
(* and strip everything of u under Hub.mu, then remove and close each.     *)
(* API.accessMu is held for writing throughout (kicked # {}): handshakes   *)
(* and forwardSignal, which hold it for reading, wait or are waited for.   *)
Kick(u) ==
  /\ u \in member /\ kicked = {}
  /\ \A c \in Conn : stage[c] # "registered" /\ relaying[c] = None
  /\ member' = member \ {u}
  /\ RevokeRoomUser(Call, u)
  /\ kicked' = ClientsOf(Call, u)
  /\ UNCHANGED <<client, rooms, owner, stage, queue, overflowed, departing, relaying,
                 relayed, closing, restarts, browserVars, historyVars>>

KickRemove(c) ==
  /\ c \in kicked
  /\ kicked' = kicked \ {c}
  /\ Remove(c)
  /\ closing' = [closing EXCEPT ![c] = IF Attached(c) THEN @ \cup {"policy"} ELSE @]
  /\ UNCHANGED <<client, revoked, owner, member, stage, queue, overflowed, relaying,
                 relayed, restarts, browserVars, historyVars>>

(* A goroutine sends its close frame, and the browser sees it.             *)
CloseSocket(c, code) ==
  /\ code \in closing[c]
  /\ closing' = [closing EXCEPT ![c] = {}]
  /\ LoseSocket(c, code)
  /\ UNCHANGED <<registryVars, member, stage, queue, overflowed, kicked, departing,
                 relaying, relayed, restarts, evicted>>

(* The API process restarts with an empty registry.                        *)
Restart ==
  /\ restarts < MaxRestarts
  /\ restarts' = restarts + 1
  /\ rooms' = [r \in Room |-> {}]
  /\ voices' = [r \in Room |-> NoVoices]
  /\ stage' = [c \in Conn |-> IF stage[c] = "new" THEN "new" ELSE "done"]
  /\ queue' = [c \in Conn |-> <<>>]
  /\ relaying' = [c \in Conn |-> None]
  /\ closing' = [c \in Conn |-> {}]
  /\ kicked' = {} /\ departing' = {} /\ late' = {}
  /\ phase' = [p \in Peer |-> IF phase[p] = "live" THEN "down" ELSE phase[p]]
  /\ sock' = [p \in Peer |-> None]
  /\ told' = [p \in Peer |-> {}]
  /\ UNCHANGED <<client, revoked, owner, member, overflowed, relayed, view, evicted>>

(* The link breaks, whoever notices first: the browser, or the server when *)
(* a write fails or 45 seconds pass without a ping.  A person who leaves   *)
(* does the same and does not resume.                                      *)
Drop(p) ==
  /\ phase[p] = "live"
  /\ LoseSocket(sock[p], "retry")
  /\ closing' = [closing EXCEPT ![sock[p]] = {}]
  /\ evicted' = evicted \ {p}
  /\ UNCHANGED <<registryVars, member, stage, queue, overflowed, kicked, departing,
                 relaying, relayed, restarts>>

Next ==
  \/ \E p \in Peer, c \in Conn : \/ \E replace \in BOOLEAN : Join(p, c, replace)
                                 \/ Resume(p, c)
                                 \/ CheckSender(c, p)
  \/ \E c \in Conn : \/ SendSnapshot(c) \/ Drain(c) \/ HandlerExit(c)
                     \/ BroadcastLeft(c) \/ Relay(c) \/ KickRemove(c)
                     \/ \E code \in CloseCode : CloseSocket(c, code)
  \/ \E u \in User : Kick(u)
  \/ \E p \in Peer : Drop(p)
  \/ Restart

(* Goroutines run, and a handler whose socket is gone notices.             *)
Fairness ==
  \A c \in Conn : /\ WF_vars(SendSnapshot(c)) /\ WF_vars(Drain(c)) /\ WF_vars(Relay(c))
                  /\ WF_vars(HandlerExit(c)) /\ WF_vars(BroadcastLeft(c))
                  /\ WF_vars(KickRemove(c))
                  /\ \A code \in CloseCode : WF_vars(CloseSocket(c, code))

Spec == Init /\ [][Next]_vars
FairSpec == Spec /\ Fairness

-----------------------------------------------------------------------------
(* A connection that is still being served: it is in the room, attached,   *)
(* not revoked, and has not lost a message to a full queue.                *)
Listening(c) == c \in Members /\ Attached(c) /\ ~revoked[c] /\ ~overflowed[c]

(* Whether c holds p for present once everything queued for it is handled. *)
Knows(c, p) ==
  LET about == {i \in DOMAIN queue[c] : queue[c][i].from = p /\ queue[c][i].type \in {"joined", "left"}}
  IN IF about = {} THEN p \in told[PeerOf(c)]
     ELSE \E i \in about : queue[c][i].type = "joined" /\ \A j \in about : j <= i

(* What a listening connection was told about others never outlives them:  *)
(* a peer it holds for present is in the room, or its departure is on its  *)
(* way (addWithMode, remove, broadcast, deliver).                          *)
NoPhantoms ==
  \A c \in Conn, p \in Peer :
    Listening(c) /\ p # PeerOf(c) /\ Knows(c, p) => p \in PeersIn(Members \cup departing)

(* Nobody is missed: snapshot and membership are taken in one critical     *)
(* section, so a listening connection knows everybody in the room, except  *)
(* those whose previous connection's departure overtook their return.      *)
NobodyMissed ==
  \A c \in Conn, d \in Members :
    Listening(c) /\ c # d => Knows(c, PeerOf(d)) \/ <<PeerOf(c), PeerOf(d)>> \in late

(* The same without the exception: what the comment in addWithMode claims  *)
(* ("Otherwise ... only one learns the other exists").                     *)
EveryoneIsKnown ==
  \A c \in Conn, d \in Members : Listening(c) /\ c # d => Knows(c, PeerOf(d))

(* A browser that has handled its snapshot and all queued events holds     *)
(* media connections only to peers that are there (the comment of deliver: *)
(* a client that lost its place "receives a fresh snapshot of the room").  *)
ViewReconciled ==
  \A c \in Conn :
    Listening(c) /\ stage[c] = "serving" /\ queue[c] = <<>>
      => view[PeerOf(c)] \subseteq PeersIn(Members \cup departing)

(* A call another device replaced is over: its tab does not come back (the *)
(* comment of RECONNECTABLE_CLOSE_CODES, signaling.ts).                    *)
EvictedStayOut == evicted \cap PeersIn(Members) = {}

(* A connection that is good for nothing any more does not linger: neither *)
(* one whose socket broke, nor one that lost a message to a full queue,    *)
(* whose client comes back to a fresh snapshot (deliver).                  *)
BrokenConnectionsLeave ==
  \A c \in Conn : (c \in Members /\ (~Attached(c) \/ overflowed[c])) ~> (c \notin Members)

(* A departure reaches everyone who stays: a phantom does not last.        *)
DeparturesReachEveryone ==
  \A c \in Conn, p \in Peer :
    LET deceived == Listening(c) /\ p \in told[PeerOf(c)] /\ p \notin PeersIn(Members)
    IN deceived ~> ~deceived
=============================================================================
