--------------------------- MODULE ServerState_proofs ---------------------------
(***************************************************************************)
(* Theorems about two parts of the server.                                 *)
(*                                                                         *)
(* SfuEngine: types, and OneMediaSession, for any number of sockets of the *)
(* peer and any bound on what is on its way to the engine.                 *)
(*                                                                         *)
(* RealtimePresence: types, and PresenceSettles.  Along the way: the wish  *)
(* the hub keeps of the contact is the stored one whenever both sides are  *)
(* there, and the last thing every observer is told of the contact, queued *)
(* or shown already, is so or is still to be put right by somebody.        *)
(***************************************************************************)
EXTENDS MCServerState, AttachmentUpload_proofs, FiniteSetTheorems, SequenceTheorems, TLAPS

-----------------------------------------------------------------------------
(* Every variable of SfuEngine keeps its type in every step.               *)
THEOREM SfuTypeCorrect == SfuSpec => []SfuTypeOK
<1> USE DEF SfuTypeOK, Task, Lease
<1>1. SfuInit => SfuTypeOK
  BY DEF SfuInit
<1>2. SfuTypeOK /\ [SfuNext]_sfuVars => SfuTypeOK'
  <2> SUFFICES ASSUME SfuTypeOK, [SfuNext]_sfuVars PROVE SfuTypeOK'
    OBVIOUS
  <2>1. ASSUME NEW s \in Socket, NEW kind \in {"Join", "Leave", "Description"}, Sends(kind, s)
        PROVE  inbound' \in Seq(Event)
    <3>1. [kind |-> kind, from |-> s] \in Event
      BY DEF Event
    <3> QED BY <2>1, <3>1 DEF Sends
  <2>2. CASE Engine
    <3>1. Head(inbound) \in Event /\ inbound' \in Seq(Event)
      BY <2>2, HeadTailProperties DEF Engine
    <3>2. mediaSession' \in Socket \cup {NoSocket}
      BY <2>2, <3>1 DEF Engine, Event
    <3>3. answers' \in [Socket -> Nat]
      BY <2>2 DEF Engine
    <3> QED BY <2>2, <3>1, <3>2, <3>3 DEF Engine
  <2>3. ASSUME NEW s \in Socket, acquire(s) PROVE SfuTypeOK'
    BY <2>3 DEF acquire, Goes
  <2>4. ASSUME NEW s \in Socket, Register(s) PROVE SfuTypeOK'
    BY <2>1, <2>4 DEF Register, Goes
  <2>5. ASSUME NEW s \in Socket, ClientSends(s) PROVE SfuTypeOK'
    BY <2>1, <2>5 DEF ClientSends
  <2>6. ASSUME NEW s \in Socket, Forward(s) PROVE SfuTypeOK'
    BY <2>6 DEF Forward, Goes
  <2>7. ASSUME NEW s \in Socket, Written(s) \/ Stall(s) PROVE SfuTypeOK'
    BY <2>7 DEF Written, Stall, Goes
  <2>8. ASSUME NEW s \in Socket, SocketEnds(s) \/ AuthorizationEnds(s) PROVE SfuTypeOK'
    BY <2>1, <2>8 DEF SocketEnds, AuthorizationEnds, Leaves, Goes
  <2>9. ASSUME NEW s \in Socket, Unregister(s) PROVE SfuTypeOK'
    BY <2>9 DEF Unregister, Goes
  <2>10. ASSUME NEW s \in Socket, revokeSFU(s) \/ Lost(s) \/ hold(s) \/ sfuAuthorization(s)
         PROVE  SfuTypeOK'
    BY <2>10 DEF revokeSFU, Lost, hold, sfuAuthorization
  <2>11. CASE UNCHANGED sfuVars
    BY <2>11 DEF sfuVars
  <2> QED BY <2>2, <2>3, <2>4, <2>5, <2>6, <2>7, <2>8, <2>9, <2>10, <2>11 DEF SfuNext
<1> QED BY <1>1, <1>2, PTL DEF SfuSpec

-----------------------------------------------------------------------------
(* The route belongs to the one socket that has registered and has not     *)
(* unregistered.                                                           *)
Routed ==
  \A s \in Socket : route = s <=> socket[s] \in {"serving", "writing", "leaving"}

(* Who will have the media session once the engine has read all it was     *)
(* sent.                                                                   *)
Heir == {s \in Socket : socket[s] \in {"serving", "writing"}}

(* The sessions the engine goes through as it reads its queue: h[i] after  *)
(* i events.  Every Join finds no mediaSession and every Leave its own.    *)
Through(h) ==
  /\ h[0] = mediaSession
  /\ \A i \in 1..Len(inbound) :
       LET e == inbound[i] IN
       CASE e.kind = "Join" -> h[i - 1] = NoSocket /\ h[i] = e.from
         [] e.kind = "Leave" -> h[i - 1] = e.from /\ h[i] = NoSocket
         [] OTHER -> h[i] = h[i - 1]
  /\ IF Heir = {} THEN h[Len(inbound)] = NoSocket ELSE h[Len(inbound)] \in Heir

Orderly == \E h \in [0..Len(inbound) -> Socket \cup {NoSocket}] : Through(h)

(* No step breaks the order of the queue.                                  *)
LEMMA OrderlyStep ==
  ASSUME SfuAssumption, SfuTypeOK, Routed, Orderly, [SfuNext]_sfuVars
  PROVE  Routed' /\ Orderly'
<1> USE DEF SfuTypeOK, SfuAssumption
<1>h. PICK h \in [0..Len(inbound) -> Socket \cup {NoSocket}] : Through(h)
  BY DEF Orderly
<1> DEFINE n == Len(inbound)
<1>n. n \in Nat /\ inbound \in Seq(Event)
  OBVIOUS
\* What has to be shown of the sessions the engine will then go through.
<1>0. ASSUME NEW g, g \in [0..Len(inbound') -> Socket \cup {NoSocket}],
             g[0] = mediaSession',
             \A i \in 1..Len(inbound') :
               LET d == inbound'[i] IN
               CASE d.kind = "Join" -> g[i - 1] = NoSocket /\ g[i] = d.from
                 [] d.kind = "Leave" -> g[i - 1] = d.from /\ g[i] = NoSocket
                 [] OTHER -> g[i] = g[i - 1],
             IF Heir' = {} THEN g[Len(inbound')] = NoSocket ELSE g[Len(inbound')] \in Heir'
      PROVE  Orderly'
  BY <1>0 DEF Orderly, Through
\* Steps that send nothing and move no socket in or out of its place.
<1>1. ASSUME UNCHANGED <<inbound, mediaSession>>, Heir' = Heir PROVE Orderly'
  BY <1>1, <1>h DEF Orderly, Through
<1>2. ASSUME NEW s \in Socket, NEW kind \in {"Join", "Leave", "Description"},
             Sends(kind, s), mediaSession' = mediaSession,
             NEW after \in Socket \cup {NoSocket},
             CASE kind = "Join" -> h[n] = NoSocket /\ after = s
               [] kind = "Leave" -> h[n] = s /\ after = NoSocket
               [] OTHER -> after = h[n],
             IF Heir' = {} THEN after = NoSocket ELSE after \in Heir'
      PROVE  Orderly'
  <2> DEFINE e == [kind |-> kind, from |-> s]
             g == [i \in 0..(n + 1) |-> IF i = n + 1 THEN after ELSE h[i]]
  <2>1. e \in Event /\ e.kind = kind /\ e.from = s
    BY DEF Event
  <2>2. /\ Len(inbound') = n + 1
        /\ inbound'[n + 1] = e
        /\ \A i \in 1..n : inbound'[i] = inbound[i]
    BY <1>2, <2>1, <1>n, AppendProperties DEF Sends
  <2>3. g \in [0..Len(inbound') -> Socket \cup {NoSocket}]
    BY <2>2, <1>n
  <2>4. g[0] = mediaSession' /\ g[n + 1] = after /\ \A i \in 0..n : g[i] = h[i]
    BY <1>2, <1>h, <1>n DEF Through
  <2>5. ASSUME NEW i \in 1..Len(inbound')
        PROVE  LET d == inbound'[i] IN
               CASE d.kind = "Join" -> g[i - 1] = NoSocket /\ g[i] = d.from
                 [] d.kind = "Leave" -> g[i - 1] = d.from /\ g[i] = NoSocket
                 [] OTHER -> g[i] = g[i - 1]
    <3> HIDE DEF g, e
    <3>1. CASE i = n + 1
      <4>1. inbound'[i] = e /\ g[i] = after /\ g[i - 1] = h[n]
        BY <3>1, <2>2, <2>4, <1>n
      <4> QED BY <4>1, <2>1, <1>2
    <3>2. CASE i \in 1..n
      <4>1. inbound'[i] = inbound[i] /\ g[i] = h[i] /\ g[i - 1] = h[i - 1]
        BY <3>2, <2>2, <2>4, <1>n
      <4> QED BY <4>1, <3>2, <1>h DEF Through
    <3> QED BY <3>1, <3>2, <2>2, <1>n
  <2> HIDE DEF g
  <2>6. IF Heir' = {} THEN g[Len(inbound')] = NoSocket ELSE g[Len(inbound')] \in Heir'
    BY <1>2, <2>2, <2>4
  <2> QED BY <2>3, <2>4, <2>5, <2>6, <1>0
<1>3. \A s, d \in Heir : s = d /\ route = s
  BY DEF Routed, Heir
<1>4. CASE Engine
  <2> DEFINE e == Head(inbound)
             g == [i \in 0..(n - 1) |-> h[i + 1]]
  <2>1. /\ n > 0 /\ inbound' \in Seq(Event) /\ Len(inbound') = n - 1
        /\ inbound[1] = e /\ e \in Event
        /\ \A i \in 1..(n - 1) : inbound'[i] = inbound[i + 1]
    BY <1>4, <1>n, HeadTailProperties DEF Engine
  <2>2. g \in [0..Len(inbound') -> Socket \cup {NoSocket}]
    BY <2>1
  <2>3. mediaSession' = h[1]
    <3>1. 1 \in 1..n /\ 1 - 1 = 0
      BY <2>1
    <3>2. /\ e.kind = "Join" => h[1] = e.from
          /\ e.kind = "Leave" => h[1] = NoSocket
          /\ e.kind \notin {"Join", "Leave"} => h[1] = mediaSession
      BY <1>h, <2>1, <3>1 DEF Through
    <3> QED BY <1>4, <3>2 DEF Engine
  <2>4. \A i \in 0..(n - 1) : g[i] = h[i + 1]
    OBVIOUS
  <2> HIDE DEF g
  <2>5. g[0] = mediaSession'
    <3>1. 0 \in 0..(n - 1) /\ 0 + 1 = 1
      BY <2>1
    <3> QED BY <2>3, <2>4, <3>1
  <2>6. ASSUME NEW i \in 1..Len(inbound')
        PROVE  LET d == inbound'[i] IN
               CASE d.kind = "Join" -> g[i - 1] = NoSocket /\ g[i] = d.from
                 [] d.kind = "Leave" -> g[i - 1] = d.from /\ g[i] = NoSocket
                 [] OTHER -> g[i] = g[i - 1]
    <3>1. i + 1 \in 1..n /\ i \in 0..(n - 1) /\ i - 1 \in 0..(n - 1) /\ (i - 1) + 1 = i
      BY <2>1
    <3>2. inbound'[i] = inbound[i + 1] /\ g[i] = h[i + 1] /\ g[i - 1] = h[i]
      BY <2>1, <2>4, <3>1
    <3>3. (i + 1) - 1 = i
      BY <3>1
    <3> QED BY <3>1, <3>2, <3>3, <1>h DEF Through
  <2>7. Heir' = Heir /\ UNCHANGED <<socket, route>>
    BY <1>4 DEF Engine, Heir
  <2>8. g[Len(inbound')] = h[n]
    BY <2>1, <2>4
  <2>9. IF Heir' = {} THEN g[Len(inbound')] = NoSocket ELSE g[Len(inbound')] \in Heir'
    BY <2>7, <2>8, <1>h DEF Through
  <2>10. Orderly'
    BY <2>2, <2>5, <2>6, <2>9, <1>0
  <2> QED BY <2>7, <2>10 DEF Routed
<1>5. ASSUME NEW s \in Socket,
             acquire(s) \/ Forward(s) \/ Written(s) \/ Stall(s) \/ Unregister(s)
      PROVE  Routed' /\ Orderly'
  <2>1. Heir' = Heir /\ UNCHANGED <<inbound, mediaSession>>
    BY <1>5 DEF acquire, Forward, Written, Stall, Unregister, Goes, Heir
  <2>2. Routed'
    BY <1>5 DEF acquire, Forward, Written, Stall, Unregister, Goes, Routed
  <2> QED BY <2>1, <2>2, <1>1
<1>6. ASSUME NEW s \in Socket, Register(s) PROVE Routed' /\ Orderly'
  <2>1. CASE MayRegister(s)
    <3>1. Heir = {} /\ h[n] = NoSocket
      BY <2>1, <1>3, <1>h DEF MayRegister, Heir, Through
    <3>2. Sends("Join", s) /\ mediaSession' = mediaSession /\ s \in Heir'
      BY <1>6, <2>1 DEF Register, Goes, Heir
    <3>3. Orderly'
      BY <3>1, <3>2, <1>2
    <3>4. Routed'
      BY <1>6, <2>1 DEF Register, MayRegister, Goes, Routed
    <3> QED BY <3>3, <3>4
  <2>2. CASE ~MayRegister(s)
    <3>1. Heir' = Heir /\ UNCHANGED <<inbound, mediaSession>>
      BY <1>6, <2>2 DEF Register, Goes, Heir
    <3>2. Routed'
      BY <1>6, <2>2 DEF Register, Goes, Routed
    <3> QED BY <3>1, <3>2, <1>1
  <2> QED BY <2>1, <2>2
<1>7. ASSUME NEW s \in Socket, ClientSends(s) PROVE Routed' /\ Orderly'
  <2>1. Sends("Description", s) /\ UNCHANGED <<mediaSession, socket, route>> /\ Heir' = Heir
    BY <1>7 DEF ClientSends, Heir
  <2>2. h[n] \in Socket \cup {NoSocket}
    BY <1>n
  <2>3. IF Heir' = {} THEN h[n] = NoSocket ELSE h[n] \in Heir'
    BY <1>h, <2>1 DEF Through
  <2> QED BY <2>1, <2>2, <2>3, <1>2 DEF Routed
<1>8. ASSUME NEW s \in Socket, SocketEnds(s) \/ AuthorizationEnds(s) PROVE Routed' /\ Orderly'
  <2>1. /\ Sends("Leave", s) /\ UNCHANGED <<mediaSession, route>> /\ s \in Heir
        /\ socket' = [socket EXCEPT ![s] = "leaving"]
    BY <1>8 DEF SocketEnds, AuthorizationEnds, AuthorizationOver, Leaves, Goes, Heir
  <2>2. h[n] = s /\ Heir' = {}
    BY <2>1, <1>3, <1>h DEF Through, Heir
  <2>3. Routed'
    BY <2>1 DEF Routed, Heir
  <2> QED BY <2>1, <2>2, <2>3, <1>2
<1>9. ASSUME NEW s \in Socket, revokeSFU(s) \/ Lost(s) \/ hold(s) \/ sfuAuthorization(s)
      PROVE  Routed' /\ Orderly'
  <2>1. Heir' = Heir /\ UNCHANGED <<inbound, mediaSession, socket, route>>
    BY <1>9 DEF revokeSFU, Lost, hold, sfuAuthorization, Heir
  <2> QED BY <2>1, <1>1 DEF Routed
<1>10. CASE UNCHANGED sfuVars
  <2>1. Heir' = Heir /\ UNCHANGED <<inbound, mediaSession, socket, route>>
    BY <1>10 DEF sfuVars, Heir
  <2> QED BY <2>1, <1>1 DEF Routed
<1> QED BY <1>4, <1>5, <1>6, <1>7, <1>8, <1>9, <1>10 DEF SfuNext

(* The queue's order and the route's owner hold in every reachable state.  *)
LEMMA OrderlyHolds ==
  ASSUME SfuAssumption PROVE SfuSpec => [](Routed /\ Orderly)
<1>1. SfuInit => Routed /\ Orderly
  <2> SUFFICES ASSUME SfuInit PROVE Routed /\ Orderly
    OBVIOUS
  <2>1. Routed
    BY DEF SfuInit, Routed, SfuAssumption
  <2>2. Len(inbound) = 0 /\ Heir = {} /\ mediaSession = NoSocket
    BY DEF SfuInit, Heir
  <2> DEFINE h == [i \in 0..0 |-> NoSocket]
  <2>3. h \in [0..Len(inbound) -> Socket \cup {NoSocket}] /\ h[0] = NoSocket
    BY <2>2
  <2> HIDE DEF h
  <2>4. Through(h)
    BY <2>2, <2>3 DEF Through
  <2> QED BY <2>1, <2>3, <2>4 DEF Orderly
<1>2. SfuTypeOK /\ (Routed /\ Orderly) /\ [SfuNext]_sfuVars => (Routed /\ Orderly)'
  BY OrderlyStep
<1> QED BY <1>1, <1>2, SfuTypeCorrect, PTL DEF SfuSpec

(* A socket's Join finds the media session of its predecessor gone, and    *)
(* its Leave ends no other media session than its own, however many        *)
(* sockets of the peer come and go and however far behind the engine is.   *)
THEOREM OneSession ==
  ASSUME SfuAssumption PROVE SfuSpec => OneMediaSession
<1> DEFINE OwnEnd == LET e == Head(inbound)
                     IN IF e.kind = "Join" THEN mediaSession = NoSocket ELSE mediaSession = e.from
<1>1. SfuTypeOK /\ (Routed /\ Orderly) /\ [SfuNext]_sfuVars => [mediaSession' # mediaSession => OwnEnd]_mediaSession
  <2> SUFFICES ASSUME SfuTypeOK, Orderly, SfuNext, mediaSession' # mediaSession PROVE OwnEnd
    BY DEF sfuVars
  <2>1. Engine
    BY DEF SfuNext, acquire, Register, ClientSends, Forward, Written, Stall, SocketEnds,
       AuthorizationEnds, Unregister, revokeSFU, Lost, hold, sfuAuthorization
  <2>2. PICK h \in [0..Len(inbound) -> Socket \cup {NoSocket}] : Through(h)
    BY DEF Orderly
  <2>3. inbound \in Seq(Event) /\ inbound # <<>>
    BY <2>1 DEF SfuTypeOK, Engine
  <2>4. 1 \in 1..Len(inbound) /\ inbound[1] = Head(inbound) /\ 1 - 1 = 0
    BY <2>3
  <2>5. LET e == Head(inbound) IN
        CASE e.kind = "Join" -> mediaSession = NoSocket /\ h[1] = e.from
          [] e.kind = "Leave" -> mediaSession = e.from /\ h[1] = NoSocket
          [] OTHER -> h[1] = mediaSession
    BY <2>2, <2>4 DEF Through
  <2> QED BY <2>1, <2>3, <2>5 DEF Engine
<1> QED BY <1>1, SfuTypeCorrect, OrderlyHolds, PTL DEF SfuSpec, OneMediaSession

-----------------------------------------------------------------------------
(* The handler that holds presenceMu is the one that has loaded.           *)
Loading == \A c \in Observer \cup Window : stage[c] = "loaded" <=> presenceMu = c

(* With both sides there, or about to be, the wish is the stored one.      *)
Looking == Watchers # {} \/ presenceMu \in Observer
Looked == Users # {} \/ presenceMu \in Window
Wished == Looking /\ Looked => desired = stored

(* Nothing waits for an observer that has no connection.                   *)
Served == \A o \in Observer \ Watchers : queue[o] = <<>> /\ o \notin slow

Hub == Loading /\ Wished /\ Served

-----------------------------------------------------------------------------
(* Somebody is still to say that the contact came, or went.                *)
Online == Users # {} /\ stored # "invisible"
UpDue == \E w \in Window : stage[w] = "ready" \/ (stage[w] = "added" /\ first[w])
DownDue == \E w \in Window : stage[w] \in {"revoked", "offline"}

(* What may be the last thing an observer is told.                         *)
OnlineOK(v) ==
  /\ v => stored # "invisible"
  /\ Online /\ ~v => unannounced \/ UpDue
  /\ ~Online /\ v => unannounced \/ DownDue

RosterDue ==
  \E c \in Conn : call[c].stage \in {"entering", "leaving"} \/ (call[c].stage = "in" /\ c \notin present)
RosterOK(v) == v = published \/ v = callPresence \/ RosterDue

(* The last event of a kind in a queue; or what is shown, when it has none *)
(* and the snapshot is there.                                              *)
NoneOf(q, kind) == \A i \in DOMAIN q : q[i].kind # kind
LastOf(q, kind, i) == q[i].kind = kind /\ \A j \in DOMAIN q : j > i => q[j].kind # kind
Says(q, kind, v) == \E i \in DOMAIN q : LastOf(q, kind, i) /\ q[i].value = v

TellsOnline(o, v) ==
  \/ Says(queue[o], "online", v)
  \/ NoneOf(queue[o], "online") /\ stage[o] \in {"ready", "serving"} /\ view[o].online = v
TellsRoster(o, v) ==
  \/ Says(queue[o], "roster", v)
  \/ NoneOf(queue[o], "roster") /\ stage[o] \in {"listed", "ready", "serving"} /\ view[o].roster = v

ToldOnline == \A o \in Watchers \ slow : \A v \in BOOLEAN : TellsOnline(o, v) => OnlineOK(v)
ToldRoster == \A o \in Watchers \ slow : \A v \in Roster : TellsRoster(o, v) => RosterOK(v)

(* Who counts in the call is in it, or on the way in; a roster is read by  *)
(* who is on the way.                                                      *)
InCall == \A c \in present : call[c].stage \in {"entering", "in"}
Reading == \A c \in Conn : call[c].roster # Unset => call[c].stage \in {"entering", "leaving"}

-----------------------------------------------------------------------------
(* Types                                                                   *)

\* A roster counts devices of Conn.
LEMMA RosterType ==
  ASSUME PresenceAssumption, PresenceTypeOK
  PROVE  callPresence \in Roster
<1>1. IsFiniteSet(present) /\ Cardinality(present) <= Cardinality(Conn)
  BY FS_Subset, FS_CardinalityType DEF PresenceAssumption, PresenceTypeOK
<1>2. Cardinality(present) \in Nat /\ Cardinality(Conn) \in Nat
  BY <1>1, FS_CardinalityType DEF PresenceAssumption
<1> QED BY <1>1, <1>2 DEF callPresence, Roster

\* What is queued is queued for every watcher that keeps up, at the end.
LEMMA Enqueued ==
  ASSUME PresenceAssumption, PresenceTypeOK, NEW e \in StreamEvent, Enqueue(e)
  PROVE  /\ queue' \in [Observer -> Seq(StreamEvent)]
         /\ \A o \in Observer : Len(queue'[o]) <= EventQueue
         /\ slow' \subseteq Observer /\ slow \subseteq slow' /\ UNCHANGED view
         /\ \A o \in Watchers \ slow' : queue'[o] = Append(queue[o], e)
         /\ \A o \in Observer \ Watchers : queue'[o] = queue[o] /\ (o \in slow' <=> o \in slow)
<1>1. /\ queue' = [o \in Observer |->
                     IF o \in Watchers /\ ~(Len(queue[o]) = EventQueue) THEN Append(queue[o], e) ELSE queue[o]]
      /\ slow' = slow \cup {o \in Watchers : Len(queue[o]) = EventQueue}
      /\ UNCHANGED view
  BY DEF Enqueue
<1>2. Watchers \subseteq Observer /\ slow \subseteq Observer
  BY DEF Watchers, PresenceTypeOK
<1>3. ASSUME NEW o \in Observer
      PROVE  queue'[o] \in Seq(StreamEvent) /\ Len(queue'[o]) <= EventQueue
  <2>1. queue[o] \in Seq(StreamEvent) /\ Len(queue[o]) <= EventQueue /\ Len(queue[o]) \in Nat
    BY DEF PresenceTypeOK
  <2>2. Append(queue[o], e) \in Seq(StreamEvent) /\ Len(Append(queue[o], e)) = Len(queue[o]) + 1
    BY <2>1
  <2> QED BY <1>1, <2>1, <2>2 DEF PresenceAssumption
<1>4. queue' \in [Observer -> Seq(StreamEvent)]
  BY <1>1, <1>3
<1>5. \A o \in Watchers \ slow' : queue'[o] = Append(queue[o], e)
  BY <1>1, <1>2
<1> QED BY <1>1, <1>2, <1>3, <1>4, <1>5

LEMMA OnlineEvent == \A v \in BOOLEAN : [kind |-> "online", value |-> v] \in StreamEvent
BY DEF StreamEvent

LEMMA RosterEvent == \A v \in Roster : [kind |-> "roster", value |-> v] \in StreamEvent
BY DEF StreamEvent

\* What publishOnline changes.
LEMMA Published ==
  ASSUME PresenceAssumption, PresenceTypeOK, NEW b \in BOOLEAN, publishOnline(b)
  PROVE  /\ queue' \in [Observer -> Seq(StreamEvent)]
         /\ \A o \in Observer : Len(queue'[o]) <= EventQueue
         /\ slow' \subseteq Observer /\ view' = view /\ unannounced' \in BOOLEAN
<1>0. effectivePresence \in BOOLEAN
  BY DEF effectivePresence
<1>1. CASE (Users # {}) = b
  <2>1. Enqueue([kind |-> "online", value |-> effectivePresence]) /\ unannounced' = FALSE
    BY <1>1 DEF publishOnline, PublishPresence
  <2> QED BY <1>0, <2>1, OnlineEvent, Enqueued
<1>2. CASE ~((Users # {}) = b)
  BY <1>2 DEF publishOnline, readerVars, PresenceTypeOK
<1> QED BY <1>1, <1>2

LEMMA TypeInit ==
  ASSUME PresenceAssumption, PresenceInit
  PROVE  PresenceTypeOK
<1>1. 0 \in Roster
  BY FS_CardinalityType DEF Roster, PresenceAssumption
<1>2. Nobody \in [online : BOOLEAN, roster : Roster]
  BY <1>1 DEF Nobody
<1>3. [stage |-> "out", roster |-> Unset] \in Due
  BY DEF Due
<1>4. <<>> \in Seq(StreamEvent) /\ Len(<<>>) <= EventQueue
  BY DEF PresenceAssumption
<1> QED BY <1>1, <1>2, <1>3, <1>4 DEF PresenceInit, PresenceTypeOK, StreamStage, Status

LEMMA PresenceTypeStep ==
  ASSUME PresenceAssumption, PresenceTypeOK, [PresenceNext]_presenceVars
  PROVE  PresenceTypeOK'
<1> USE DEF PresenceTypeOK
<1>0. callPresence \in Roster
  BY RosterType
<1>1. ASSUME NEW c \in Observer \cup Window, Load(c)
      PROVE  PresenceTypeOK'
  BY <1>1 DEF Load, callVars, readerVars, StreamStage, Status
<1>2. ASSUME NEW c \in Observer \cup Window, Add(c)
      PROVE  PresenceTypeOK'
  <2>1. first' \in [Window -> BOOLEAN]
    BY <1>2 DEF Add
  <2> QED BY <1>2, <2>1 DEF Add, callVars, readerVars, StreamStage
<1>3. ASSUME NEW w \in Window, WindowReady(w)
      PROVE  PresenceTypeOK'
  BY <1>3 DEF WindowReady, callVars, readerVars, StreamStage
<1>4. ASSUME NEW w \in Window, Announce(w)
      PROVE  PresenceTypeOK'
  BY <1>4, Published DEF Announce, callVars, StreamStage
<1>5. ASSUME NEW w \in Window, NEW silent \in BOOLEAN, WindowLeaves(w, silent)
      PROVE  PresenceTypeOK'
  <2>1. desired' \in Status \cup {Unset}
    BY <1>5 DEF WindowLeaves, WishKept
  <2>2. stage' \in [Observer \cup Window -> StreamStage] /\ first' \in [Window -> BOOLEAN]
    BY <1>5 DEF WindowLeaves, StreamStage
  <2>3. unannounced' \in BOOLEAN
    BY <1>5 DEF WindowLeaves
  <2> QED BY <1>5, <2>1, <2>2, <2>3 DEF WindowLeaves, callVars, readerVars
<1>6. ASSUME NEW w \in Window, PublishOffline(w)
      PROVE  PresenceTypeOK'
  BY <1>6, Published DEF PublishOffline, callVars, StreamStage
<1>7. ASSUME NEW w \in Window, Revoke(w)
      PROVE  PresenceTypeOK'
  BY <1>7 DEF Revoke, WishKept, callVars, readerVars, StreamStage
<1>8. ASSUME NEW status \in Status, SetPresence(status)
      PROVE  PresenceTypeOK'
  <2>1. Enqueue([kind |-> "online", value |-> Users # {} /\ status # "invisible"])
    BY <1>8 DEF SetPresence
  <2>2. [kind |-> "online", value |-> Users # {} /\ status # "invisible"] \in StreamEvent
    BY OnlineEvent
  <2> HIDE DEF PresenceTypeOK
  <2>3. /\ queue' \in [Observer -> Seq(StreamEvent)]
        /\ \A o \in Observer : Len(queue'[o]) <= EventQueue
        /\ slow' \subseteq Observer /\ UNCHANGED view
    BY <2>1, <2>2, Enqueued
  <2> QED BY <1>8, <2>3 DEF SetPresence, callVars, PresenceTypeOK
<1>9. ASSUME NEW o \in Observer, ReadRosters(o)
      PROVE  PresenceTypeOK'
  <2>1. view' \in [Observer -> [online : BOOLEAN, roster : Roster]]
    BY <1>0, <1>9 DEF ReadRosters
  <2> QED BY <1>9, <2>1 DEF ReadRosters, callVars, StreamStage
<1>10. ASSUME NEW o \in Observer, contactSnapshot(o)
       PROVE  PresenceTypeOK'
  <2>1. effectivePresence \in BOOLEAN
    BY DEF effectivePresence
  <2>2. view' \in [Observer -> [online : BOOLEAN, roster : Roster]]
    BY <1>10, <2>1 DEF contactSnapshot
  <2> QED BY <1>10, <2>2 DEF contactSnapshot, callVars, StreamStage
<1>11. ASSUME NEW o \in Observer, SendReady(o)
       PROVE  PresenceTypeOK'
  BY <1>11 DEF SendReady, callVars, readerVars, StreamStage
<1>12. ASSUME NEW o \in Observer, Write(o)
       PROVE  PresenceTypeOK'
  <2>1. queue[o] \in Seq(StreamEvent) /\ queue[o] # <<>>
    BY <1>12 DEF Write
  <2>2. /\ Head(queue[o]) \in StreamEvent /\ Tail(queue[o]) \in Seq(StreamEvent)
        /\ Len(Tail(queue[o])) <= Len(queue[o])
    BY <2>1
  <2>3. queue' \in [Observer -> Seq(StreamEvent)] /\ \A u \in Observer : Len(queue'[u]) <= EventQueue
    BY <1>12, <2>2 DEF Write, PresenceAssumption
  <2>4. view' \in [Observer -> [online : BOOLEAN, roster : Roster]]
    <3>1. CASE Head(queue[o]).kind = "online"
      <4>1. Head(queue[o]).value \in BOOLEAN
        BY <2>2, <3>1 DEF StreamEvent
      <4> QED BY <1>12, <3>1, <4>1 DEF Write
    <3>2. CASE Head(queue[o]).kind # "online"
      <4>1. Head(queue[o]).value \in Roster
        BY <2>2, <3>2 DEF StreamEvent
      <4> QED BY <1>12, <3>2, <4>1 DEF Write
    <3> QED BY <3>1, <3>2
  <2> QED BY <1>12, <2>3, <2>4 DEF Write, streamVars, callVars
<1>13. ASSUME NEW o \in Observer, ObserverExit(o)
       PROVE  PresenceTypeOK'
  <2>1. queue' \in [Observer -> Seq(StreamEvent)] /\ \A u \in Observer : Len(queue'[u]) <= EventQueue
    BY <1>13 DEF ObserverExit, PresenceAssumption
  <2>2. view' \in [Observer -> [online : BOOLEAN, roster : Roster]]
    BY <1>13 DEF ObserverExit
  <2>3. desired' \in Status \cup {Unset} /\ stage' \in [Observer \cup Window -> StreamStage]
    BY <1>13 DEF ObserverExit, WishKept, StreamStage
  <2> QED BY <1>13, <2>1, <2>2, <2>3 DEF ObserverExit, callVars
<1>14. ASSUME NEW c \in Conn, NEW step \in Due, CallStep(c, step), present' \subseteq Conn,
              UNCHANGED <<readerVars, published>>
       PROVE  PresenceTypeOK'
  BY <1>14 DEF CallStep, streamVars, readerVars
<1>15. ASSUME NEW c \in Conn, LoseCall(c)
       PROVE  PresenceTypeOK'
  BY <1>15 DEF LoseCall, streamVars, readerVars
<1>16. ASSUME NEW c \in Conn, EnterCall(c) \/ LeaveCall(c)
       PROVE  PresenceTypeOK'
  <2>1. [stage |-> "entering", roster |-> Unset] \in Due /\ [stage |-> "leaving", roster |-> Unset] \in Due
    BY DEF Due
  <2> QED BY <1>14, <1>16, <2>1 DEF EnterCall, LeaveCall
<1>17. ASSUME NEW c \in Conn, ReadRoster(c)
       PROVE  PresenceTypeOK'
  <2>1. [call[c] EXCEPT !.roster = callPresence] \in Due
    BY <1>0 DEF Due
  <2> QED BY <1>14, <1>17, <2>1 DEF ReadRoster
<1>18. ASSUME NEW c \in Conn, PublishRoster(c)
       PROVE  PresenceTypeOK'
  <2>1. call[c].roster \in Roster
    BY <1>18 DEF PublishRoster, Due
  <2>2. Enqueue([kind |-> "roster", value |-> call[c].roster])
    BY <1>18 DEF PublishRoster
  <2>3. [stage |-> IF call[c].stage = "entering" THEN "in" ELSE "out", roster |-> Unset] \in Due
    BY DEF Due
  <2>4. call' \in [Conn -> Due] /\ UNCHANGED streamVars /\ present' = present /\ published' = call[c].roster
    BY <1>18, <2>3 DEF PublishRoster, CallStep
  <2> HIDE DEF PresenceTypeOK
  <2>5. /\ queue' \in [Observer -> Seq(StreamEvent)]
        /\ \A o \in Observer : Len(queue'[o]) <= EventQueue
        /\ slow' \subseteq Observer /\ UNCHANGED view
    BY <2>1, <2>2, RosterEvent, Enqueued
  <2> QED BY <2>1, <2>4, <2>5 DEF streamVars, PresenceTypeOK
<1>19. CASE UNCHANGED presenceVars
  BY <1>19 DEF presenceVars, streamVars, callVars, readerVars
<1> HIDE DEF PresenceTypeOK
<1>20. ASSUME Observe PROVE PresenceTypeOK'
  BY <1>20, <1>1, <1>2, <1>9, <1>10, <1>11, <1>12, <1>13 DEF Observe
<1>21. ASSUME ContactMoves PROVE PresenceTypeOK'
  <2>1. ASSUME NEW w \in Window, ReadyFails(w) PROVE PresenceTypeOK'
    <3>1. first[w] \in BOOLEAN
      BY DEF PresenceTypeOK
    <3> QED BY <2>1, <3>1, <1>5 DEF ReadyFails
  <2>2. ASSUME NEW w \in Window, Exit(w) PROVE PresenceTypeOK'
    BY <2>2, <1>5 DEF Exit
  <2> QED BY <1>21, <2>1, <2>2, <1>1, <1>2, <1>3, <1>4, <1>6, <1>7, <1>8 DEF ContactMoves
<1>22. ASSUME CallMoves PROVE PresenceTypeOK'
  BY <1>22, <1>15, <1>16, <1>17, <1>18 DEF CallMoves
<1> QED BY <1>19, <1>20, <1>21, <1>22 DEF PresenceNext

\* Every variable keeps its type, for any number of windows, devices and
\* observers and any length of their queues (RealtimeHub, Hub.callPresence).
THEOREM PresenceTypeCorrect ==
  ASSUME PresenceAssumption
  PROVE  PresenceSpec => []PresenceTypeOK
<1>1. PresenceInit => PresenceTypeOK
  BY TypeInit
<1>2. PresenceTypeOK /\ [PresenceNext]_presenceVars => PresenceTypeOK'
  BY PresenceTypeStep
<1> QED BY <1>1, <1>2, PTL DEF PresenceSpec

-----------------------------------------------------------------------------
(* The hub: presenceMu, the wish, the queues                               *)

\* The sets of watchers and of windows that count, in terms of the stages.
LEMMA HubInit ==
  ASSUME PresenceAssumption, PresenceInit
  PROVE  Hub
<1>1. Watchers = {} /\ Users = {}
  BY DEF PresenceInit, Watchers, Users, Registered
<1>2. \A c \in Observer \cup Window : stage[c] # "loaded" /\ presenceMu # c
  BY DEF PresenceInit, PresenceAssumption
<1>3. Served
  BY DEF PresenceInit, Served
<1>4. Wished
  BY <1>1, <1>2 DEF PresenceInit, Wished, Looking
<1> QED BY <1>2, <1>3, <1>4 DEF Hub, Loading

LEMMA LoadingStep ==
  ASSUME PresenceAssumption, PresenceTypeOK, Loading, [PresenceNext]_presenceVars
  PROVE  Loading'
<1> USE DEF PresenceTypeOK, Loading
<1>1. ASSUME NEW c \in Observer \cup Window, Load(c) PROVE Loading'
  BY <1>1 DEF Load, PresenceAssumption
<1>2. ASSUME NEW c \in Observer \cup Window, Add(c) PROVE Loading'
  BY <1>2 DEF Add, PresenceAssumption
<1>3. ASSUME NEW w \in Window, WindowReady(w) PROVE Loading'
  BY <1>3 DEF WindowReady
<1>4. ASSUME NEW w \in Window, Announce(w) PROVE Loading'
  BY <1>4 DEF Announce
<1>5. ASSUME NEW w \in Window, NEW silent, WindowLeaves(w, silent), stage[w] # "loaded" PROVE Loading'
  BY <1>5 DEF WindowLeaves
<1>6. ASSUME NEW w \in Window, PublishOffline(w) PROVE Loading'
  BY <1>6 DEF PublishOffline
<1>7. ASSUME NEW w \in Window, Revoke(w) PROVE Loading'
  BY <1>7 DEF Revoke
<1>8. ASSUME NEW status \in Status, SetPresence(status) PROVE Loading'
  BY <1>8 DEF SetPresence
<1>9. ASSUME NEW o \in Observer, ReadRosters(o) PROVE Loading'
  BY <1>9 DEF ReadRosters
<1>10. ASSUME NEW o \in Observer, contactSnapshot(o) PROVE Loading'
  BY <1>10 DEF contactSnapshot
<1>11. ASSUME NEW o \in Observer, SendReady(o) PROVE Loading'
  BY <1>11 DEF SendReady
<1>12. ASSUME NEW o \in Observer, Write(o) PROVE Loading'
  BY <1>12 DEF Write, streamVars
<1>13. ASSUME NEW o \in Observer, ObserverExit(o) PROVE Loading'
  BY <1>13 DEF ObserverExit
<1>14. ASSUME UNCHANGED <<stage, presenceMu>> PROVE Loading'
  BY <1>14
<1> HIDE DEF PresenceTypeOK, Loading
<1>15. ASSUME Observe PROVE Loading'
  BY <1>15, <1>1, <1>2, <1>9, <1>10, <1>11, <1>12, <1>13 DEF Observe
<1>16. ASSUME ContactMoves PROVE Loading'
  <2>1. ASSUME NEW w \in Window, ReadyFails(w) PROVE Loading'
    BY <2>1, <1>5 DEF ReadyFails
  <2>2. ASSUME NEW w \in Window, Exit(w) PROVE Loading'
    BY <2>2, <1>5 DEF Exit
  <2> QED BY <1>16, <2>1, <2>2, <1>1, <1>2, <1>3, <1>4, <1>6, <1>7, <1>8 DEF ContactMoves
<1>17. ASSUME CallMoves PROVE Loading'
  BY <1>17, <1>14
     DEF CallMoves, EnterCall, LoseCall, LeaveCall, ReadRoster, PublishRoster, CallStep, streamVars
<1>18. ASSUME UNCHANGED presenceVars PROVE Loading'
  BY <1>18, <1>14 DEF presenceVars, streamVars
<1> QED BY <1>15, <1>16, <1>17, <1>18 DEF PresenceNext

\* What a step of a stage does to the watchers and to the windows that count.
LEMMA HubMoved ==
  ASSUME PresenceAssumption, PresenceTypeOK, NEW c \in Observer \cup Window, NEW s,
         stage' = [stage EXCEPT ![c] = s]
  PROVE  /\ c \in Observer => /\ Users' = Users
                              /\ Watchers' = IF s \in Registered THEN Watchers \cup {c} ELSE Watchers \ {c}
         /\ c \in Window => /\ Watchers' = Watchers
                            /\ Users' = IF s \in Registered THEN Users \cup {c} ELSE Users \ {c}
<1>1. \A d \in Observer \cup Window : stage'[d] = IF d = c THEN s ELSE stage[d]
  BY DEF PresenceTypeOK
<1>2. ASSUME c \in Observer
      PROVE  /\ Users' = Users
             /\ Watchers' = IF s \in Registered THEN Watchers \cup {c} ELSE Watchers \ {c}
  <2>1. c \notin Window
    BY <1>2 DEF PresenceAssumption
  <2>2. Users' = Users
    BY <1>1, <2>1 DEF Users
  <2> QED BY <1>1, <1>2, <2>2 DEF Watchers
<1>3. ASSUME c \in Window
      PROVE  /\ Watchers' = Watchers
             /\ Users' = IF s \in Registered THEN Users \cup {c} ELSE Users \ {c}
  <2>1. c \notin Observer
    BY <1>3 DEF PresenceAssumption
  <2>2. Watchers' = Watchers
    BY <1>1, <2>1 DEF Watchers
  <2> QED BY <1>1, <1>3, <2>2 DEF Users
<1> QED BY <1>2, <1>3

LEMMA WishedStep ==
  ASSUME PresenceAssumption, PresenceTypeOK, Loading, Wished, [PresenceNext]_presenceVars
  PROVE  Wished'
<1> USE DEF Wished, Looking, Looked
<1>0. \A s \in {"closed", "revoked", "offline"} : s \notin Registered
  BY DEF Registered
<1>1. ASSUME NEW c \in Observer \cup Window, Load(c) PROVE Wished'
  BY <1>1 DEF Load
<1>2. ASSUME NEW c \in Observer \cup Window, Add(c) PROVE Wished'
  <2>1. /\ stage' = [stage EXCEPT ![c] = "added"] /\ stage[c] = "loaded"
        /\ presenceMu' = Unset /\ UNCHANGED <<stored, desired>>
    BY <1>2 DEF Add
  <2>2. presenceMu = c /\ Unset \notin Observer \cup Window
    BY <2>1 DEF Loading, PresenceAssumption
  <2>3. "added" \in Registered
    BY DEF Registered
  <2>4. CASE c \in Observer
    BY <2>1, <2>2, <2>3, <2>4, HubMoved
  <2>5. CASE c \in Window
    BY <2>1, <2>2, <2>3, <2>5, HubMoved
  <2> QED BY <2>4, <2>5
\* A step that lets nobody in keeps the wish, or forgets it for nobody.
<1>3. ASSUME Users' \subseteq Users, Watchers' \subseteq Watchers, UNCHANGED <<stored, presenceMu>>,
             desired' = desired \/ (Users' = {} /\ Watchers' = {})
      PROVE  Wished'
  BY <1>3 DEF PresenceAssumption
<1>4. ASSUME NEW w \in Window, WindowReady(w) \/ Announce(w) PROVE Wished'
  <2>1. stage[w] \in Registered /\ w \in Users
    BY <1>4 DEF WindowReady, Announce, Registered, Users
  <2>2. PICK s \in Registered : stage' = [stage EXCEPT ![w] = s]
    BY <1>4 DEF WindowReady, Announce, Registered
  <2>3. Users' = Users /\ Watchers' = Watchers
    BY <2>1, <2>2, HubMoved
  <2> QED BY <1>4, <2>3, <1>3 DEF WindowReady, Announce
<1>5. ASSUME NEW w \in Window, NEW silent, WindowLeaves(w, silent) PROVE Wished'
  <2>1. PICK s \in {"offline", "closed"} : stage' = [stage EXCEPT ![w] = s]
    BY <1>5 DEF WindowLeaves
  <2>2. Users' = Users \ {w} /\ Watchers' = Watchers
    BY <1>0, <2>1, HubMoved
  <2> QED BY <1>5, <2>2, <1>3 DEF WindowLeaves, WishKept
<1>6. ASSUME NEW w \in Window, PublishOffline(w) PROVE Wished'
  <2>1. stage' = [stage EXCEPT ![w] = "closed"]
    BY <1>6 DEF PublishOffline
  <2>2. Users' = Users \ {w} /\ Watchers' = Watchers
    BY <1>0, <2>1, HubMoved
  <2> QED BY <1>6, <2>2, <1>3 DEF PublishOffline
<1>7. ASSUME NEW w \in Window, Revoke(w) PROVE Wished'
  <2>1. stage' = [stage EXCEPT ![w] = "revoked"]
    BY <1>7 DEF Revoke
  <2>2. Users' = Users \ {w} /\ Watchers' = Watchers
    BY <1>0, <2>1, HubMoved
  <2> QED BY <1>7, <2>2, <1>3 DEF Revoke, WishKept
<1>8. ASSUME NEW status \in Status, SetPresence(status) PROVE Wished'
  BY <1>8 DEF SetPresence
<1>9. ASSUME NEW o \in Observer, ReadRosters(o) \/ contactSnapshot(o) \/ SendReady(o) PROVE Wished'
  <2>1. stage[o] \in Registered /\ o \in Watchers
    BY <1>9 DEF ReadRosters, contactSnapshot, SendReady, Registered, Watchers
  <2>2. PICK s \in Registered : stage' = [stage EXCEPT ![o] = s]
    BY <1>9 DEF ReadRosters, contactSnapshot, SendReady, Registered
  <2>3. Users' = Users /\ Watchers' = Watchers
    BY <2>1, <2>2, HubMoved
  <2> QED BY <1>9, <2>3, <1>3 DEF ReadRosters, contactSnapshot, SendReady
<1>10. ASSUME NEW o \in Observer, ObserverExit(o) PROVE Wished'
  <2>1. stage' = [stage EXCEPT ![o] = "closed"]
    BY <1>10 DEF ObserverExit
  <2>2. Users' = Users /\ Watchers' = Watchers \ {o}
    BY <1>0, <2>1, HubMoved
  <2> QED BY <1>10, <2>2, <1>3 DEF ObserverExit, WishKept
<1>11. ASSUME UNCHANGED streamVars PROVE Wished'
  BY <1>11 DEF streamVars, Users, Watchers
<1> HIDE DEF Wished
<1>12. ASSUME Observe PROVE Wished'
  BY <1>12, <1>1, <1>2, <1>9, <1>10, <1>11 DEF Observe, Write
<1>13. ASSUME ContactMoves PROVE Wished'
  BY <1>13, <1>1, <1>2, <1>4, <1>5, <1>6, <1>7, <1>8 DEF ContactMoves, ReadyFails, Exit
<1>14. ASSUME CallMoves PROVE Wished'
  BY <1>14, <1>11 DEF CallMoves, EnterCall, LoseCall, LeaveCall, ReadRoster, PublishRoster, CallStep
<1>15. ASSUME UNCHANGED presenceVars PROVE Wished'
  BY <1>15, <1>11 DEF presenceVars
<1> QED BY <1>12, <1>13, <1>14, <1>15 DEF PresenceNext

LEMMA ServedStep ==
  ASSUME PresenceAssumption, PresenceTypeOK, Served, [PresenceNext]_presenceVars
  PROVE  Served'
<1> USE DEF Served
\* Who is added, or stays, may be queued something; nobody else is.
<1>1. ASSUME \A o \in Observer \ Watchers' :
               o \in Watchers \/ (queue'[o] = queue[o] /\ (o \in slow' <=> o \in slow)),
             Watchers \subseteq Watchers'
      PROVE  Served'
  BY <1>1
<1>2. ASSUME NEW c \in Observer \cup Window, Load(c) PROVE Served'
  <2>1. stage' = [stage EXCEPT ![c] = "loaded"] /\ stage[c] = "closed" /\ UNCHANGED <<queue, slow>>
    BY <1>2 DEF Load, readerVars
  <2>2. "loaded" \notin Registered /\ "closed" \notin Registered
    BY DEF Registered
  <2>3. Watchers' = Watchers
    BY <2>1, <2>2, HubMoved DEF Watchers
  <2> QED BY <2>1, <2>3
<1>3. ASSUME NEW c \in Observer \cup Window, Add(c) PROVE Served'
  <2>1. stage' = [stage EXCEPT ![c] = "added"] /\ UNCHANGED <<queue, slow>>
    BY <1>3 DEF Add, readerVars
  <2>2. "added" \in Registered
    BY DEF Registered
  <2>3. Watchers \subseteq Watchers'
    BY <2>1, <2>2, HubMoved
  <2> QED BY <2>1, <2>3
<1>4. ASSUME NEW w \in Window, NEW s, stage' = [stage EXCEPT ![w] = s],
             UNCHANGED <<queue, slow>> \/ \E b \in BOOLEAN : publishOnline(b)
      PROVE  Served'
  <2>1. Watchers' = Watchers
    BY <1>4, HubMoved
  <2>2. CASE UNCHANGED <<queue, slow>>
    BY <2>1, <2>2
  <2>3. CASE \E b \in BOOLEAN : publishOnline(b)
    <3>1. CASE UNCHANGED readerVars
      BY <2>1, <3>1 DEF readerVars
    <3>2. CASE PublishPresence
      <4>1. Enqueue([kind |-> "online", value |-> effectivePresence]) /\ effectivePresence \in BOOLEAN
        BY <3>2 DEF PublishPresence, effectivePresence
      <4> QED BY <2>1, <4>1, OnlineEvent, Enqueued
    <3> QED BY <2>3, <3>1, <3>2 DEF publishOnline
  <2> QED BY <1>4, <2>2, <2>3
<1>5. ASSUME NEW status \in Status, SetPresence(status) PROVE Served'
  <2>1. /\ Enqueue([kind |-> "online", value |-> Users # {} /\ status # "invisible"])
        /\ UNCHANGED stage
    BY <1>5 DEF SetPresence
  <2>2. Watchers' = Watchers
    BY <2>1 DEF Watchers
  <2> QED BY <2>1, <2>2, OnlineEvent, Enqueued
<1>6. ASSUME NEW o \in Observer, ReadRosters(o) \/ contactSnapshot(o) \/ SendReady(o) PROVE Served'
  <2>1. PICK s \in Registered : stage' = [stage EXCEPT ![o] = s]
    BY <1>6 DEF ReadRosters, contactSnapshot, SendReady, Registered
  <2>2. Watchers \subseteq Watchers'
    BY <2>1, HubMoved
  <2> QED BY <1>6, <2>2 DEF ReadRosters, contactSnapshot, SendReady, readerVars
<1>7. ASSUME NEW o \in Observer, Write(o) PROVE Served'
  <2>1. /\ stage[o] = "serving" /\ UNCHANGED <<stage, slow>>
        /\ queue' = [queue EXCEPT ![o] = Tail(queue[o])]
    BY <1>7 DEF Write, streamVars
  <2>2. o \in Watchers /\ Watchers' = Watchers
    BY <2>1 DEF Watchers, Registered
  <2>3. \A u \in Observer \ Watchers : queue'[u] = queue[u]
    BY <2>1, <2>2 DEF PresenceTypeOK
  <2> QED BY <2>1, <2>2, <2>3
<1>8. ASSUME NEW o \in Observer, ObserverExit(o) PROVE Served'
  <2>1. /\ stage' = [stage EXCEPT ![o] = "closed"] /\ slow' = slow \ {o}
        /\ queue' = [queue EXCEPT ![o] = <<>>]
    BY <1>8 DEF ObserverExit
  <2>0. "closed" \notin Registered
    BY DEF Registered
  <2>2. Watchers' = Watchers \ {o}
    BY <2>0, <2>1, HubMoved
  <2>3. \A u \in Observer : queue'[u] = IF u = o THEN <<>> ELSE queue[u]
    BY <2>1 DEF PresenceTypeOK
  <2> QED BY <2>1, <2>2, <2>3
<1>9. ASSUME NEW c \in Conn, PublishRoster(c) PROVE Served'
  <2>1. /\ Enqueue([kind |-> "roster", value |-> call[c].roster]) /\ UNCHANGED stage
        /\ call[c].roster \in Roster
    BY <1>9 DEF PublishRoster, CallStep, streamVars, PresenceTypeOK, Due
  <2>2. Watchers' = Watchers
    BY <2>1 DEF Watchers
  <2> QED BY <2>1, <2>2, RosterEvent, Enqueued
<1>10. ASSUME UNCHANGED <<stage, queue, slow>> PROVE Served'
  BY <1>10 DEF Watchers
<1> HIDE DEF Served
<1>11. ASSUME Observe PROVE Served'
  BY <1>11, <1>2, <1>3, <1>6, <1>7, <1>8 DEF Observe
<1>12. ASSUME ContactMoves PROVE Served'
  <2>1. ASSUME NEW w \in Window,
               \/ WindowReady(w) \/ Announce(w) \/ ReadyFails(w) \/ Exit(w) \/ PublishOffline(w) \/ Revoke(w)
        PROVE  Served'
    <3>1. \E s : stage' = [stage EXCEPT ![w] = s]
      BY <2>1 DEF WindowReady, Announce, ReadyFails, Exit, WindowLeaves, PublishOffline, Revoke
    <3>2. UNCHANGED <<queue, slow>> \/ \E b \in BOOLEAN : publishOnline(b)
      BY <2>1
         DEF WindowReady, Announce, ReadyFails, Exit, WindowLeaves, PublishOffline, Revoke, readerVars
    <3> QED BY <3>1, <3>2, <1>4
  <2> QED BY <1>12, <2>1, <1>2, <1>3, <1>5 DEF ContactMoves
<1>13. ASSUME CallMoves PROVE Served'
  BY <1>13, <1>9, <1>10
     DEF CallMoves, EnterCall, LoseCall, LeaveCall, ReadRoster, CallStep, streamVars, readerVars
<1>14. ASSUME UNCHANGED presenceVars PROVE Served'
  BY <1>14, <1>10 DEF presenceVars, streamVars, readerVars
<1> QED BY <1>11, <1>12, <1>13, <1>14 DEF PresenceNext

-----------------------------------------------------------------------------
(* The call                                                                *)

LEMMA CallStepped ==
  ASSUME PresenceAssumption, PresenceTypeOK, InCall, Reading, [PresenceNext]_presenceVars
  PROVE  InCall' /\ Reading'
<1> USE DEF InCall, Reading, PresenceTypeOK
<1>1. ASSUME UNCHANGED <<present, call>> PROVE InCall' /\ Reading'
  BY <1>1
<1>2. ASSUME NEW c \in Conn, EnterCall(c) PROVE InCall' /\ Reading'
  BY <1>2 DEF EnterCall, CallStep
<1>3. ASSUME NEW c \in Conn, LoseCall(c) PROVE InCall' /\ Reading'
  BY <1>3 DEF LoseCall
<1>4. ASSUME NEW c \in Conn, LeaveCall(c) PROVE InCall' /\ Reading'
  BY <1>4 DEF LeaveCall, CallStep
<1>5. ASSUME NEW c \in Conn, ReadRoster(c) PROVE InCall' /\ Reading'
  <2>1. call'[c].stage = call[c].stage /\ \A d \in Conn \ {c} : call'[d] = call[d]
    BY <1>5 DEF ReadRoster, CallStep, Due
  <2>2. present' = present /\ call[c].stage \in {"entering", "leaving"}
    BY <1>5 DEF ReadRoster
  <2> QED BY <2>1, <2>2
<1>6. ASSUME NEW c \in Conn, PublishRoster(c) PROVE InCall' /\ Reading'
  <2>1. /\ call'[c].stage = IF call[c].stage = "entering" THEN "in" ELSE "out"
        /\ call'[c].roster = Unset /\ \A d \in Conn \ {c} : call'[d] = call[d]
    BY <1>6 DEF PublishRoster, CallStep
  <2>2. present' = present /\ call[c].stage \in {"entering", "leaving"}
    BY <1>6 DEF PublishRoster
  <2> QED BY <2>1, <2>2
<1> HIDE DEF InCall, Reading
<1>7. ASSUME Observe PROVE InCall' /\ Reading'
  BY <1>7, <1>1
     DEF Observe, Load, Add, ReadRosters, contactSnapshot, SendReady, Write, ObserverExit, callVars
<1>8. ASSUME ContactMoves PROVE InCall' /\ Reading'
  BY <1>8, <1>1
     DEF ContactMoves, Load, Add, WindowReady, Announce, ReadyFails, Exit, WindowLeaves,
         PublishOffline, Revoke, SetPresence, callVars
<1>9. ASSUME CallMoves PROVE InCall' /\ Reading'
  BY <1>9, <1>2, <1>3, <1>4, <1>5, <1>6 DEF CallMoves
<1>10. ASSUME UNCHANGED presenceVars PROVE InCall' /\ Reading'
  BY <1>10, <1>1 DEF presenceVars, callVars
<1> QED BY <1>7, <1>8, <1>9, <1>10 DEF PresenceNext

-----------------------------------------------------------------------------
(* The last event of a kind                                                *)

\* An event at the end is the last of its kind, and no other kind has another
\* last one for it.
LEMMA Appended ==
  ASSUME NEW q \in Seq(StreamEvent), NEW e \in StreamEvent, NEW kind, NEW v
  PROVE  /\ Says(Append(q, e), kind, v) => IF e.kind = kind THEN v = e.value ELSE Says(q, kind, v)
         /\ NoneOf(Append(q, e), kind) => e.kind # kind /\ NoneOf(q, kind)
<1> DEFINE n == Len(q)
           r == Append(q, e)
<1>1. /\ n \in Nat /\ DOMAIN q = 1 .. n /\ DOMAIN r = 1 .. (n + 1)
      /\ r[n + 1] = e /\ \A i \in 1 .. n : r[i] = q[i]
  OBVIOUS
<1> HIDE DEF n, r
<1>2. ASSUME Says(r, kind, v)
      PROVE  IF e.kind = kind THEN v = e.value ELSE Says(q, kind, v)
  <2>1. PICK i \in 1 .. (n + 1) :
          /\ r[i].kind = kind /\ r[i].value = v
          /\ \A j \in 1 .. (n + 1) : j > i => r[j].kind # kind
    BY <1>1, <1>2 DEF Says, LastOf
  <2>2. CASE i = n + 1
    BY <1>1, <2>1, <2>2
  <2>3. CASE i # n + 1
    <3>1. i \in 1 .. n /\ n + 1 \in 1 .. (n + 1) /\ n + 1 > i
      BY <1>1, <2>3
    <3>2. e.kind # kind
      BY <1>1, <2>1, <3>1
    <3>3. /\ q[i].kind = kind /\ q[i].value = v
          /\ \A j \in 1 .. n : j > i => q[j].kind # kind
      BY <1>1, <2>1, <3>1
    <3> QED BY <1>1, <3>1, <3>2, <3>3 DEF Says, LastOf
  <2> QED BY <2>2, <2>3
<1>3. ASSUME NoneOf(r, kind)
      PROVE  e.kind # kind /\ NoneOf(q, kind)
  <2>1. n + 1 \in 1 .. (n + 1) /\ \A i \in 1 .. n : i \in 1 .. (n + 1)
    BY <1>1
  <2> QED BY <1>1, <1>3, <2>1 DEF NoneOf
<1> QED BY <1>2, <1>3 DEF r

\* Taking the first event away leaves the last one of every kind that has two.
LEMMA Taken ==
  ASSUME NEW q \in Seq(StreamEvent), q # <<>>, NEW kind, NEW v
  PROVE  /\ Says(Tail(q), kind, v) => Says(q, kind, v)
         /\ NoneOf(Tail(q), kind) =>
              IF Head(q).kind = kind THEN Says(q, kind, Head(q).value) ELSE NoneOf(q, kind)
<1> DEFINE n == Len(q)
           r == Tail(q)
<1>1. /\ n \in Nat \ {0} /\ DOMAIN q = 1 .. n /\ DOMAIN r = 1 .. (n - 1)
      /\ Head(q) = q[1] /\ \A i \in 1 .. (n - 1) : r[i] = q[i + 1]
  OBVIOUS
<1> HIDE DEF n, r
<1>2. \A j \in 1 .. n : j # 1 => j - 1 \in 1 .. (n - 1) /\ q[j] = r[j - 1]
  BY <1>1
<1>3. ASSUME Says(r, kind, v)
      PROVE  Says(q, kind, v)
  <2>1. PICK i \in 1 .. (n - 1) :
          /\ r[i].kind = kind /\ r[i].value = v
          /\ \A j \in 1 .. (n - 1) : j > i => r[j].kind # kind
    BY <1>1, <1>3 DEF Says, LastOf
  <2>2. i + 1 \in 1 .. n /\ q[i + 1] = r[i]
    BY <1>1, <2>1
  <2>3. ASSUME NEW j \in 1 .. n, j > i + 1 PROVE q[j].kind # kind
    <3>1. j # 1 /\ j - 1 > i
      BY <1>1, <2>3
    <3> QED BY <1>2, <2>1, <3>1
  <2> QED BY <1>1, <2>1, <2>2, <2>3 DEF Says, LastOf
<1>4. ASSUME NoneOf(r, kind)
      PROVE  IF Head(q).kind = kind THEN Says(q, kind, Head(q).value) ELSE NoneOf(q, kind)
  <2>1. \A j \in 1 .. n : j # 1 => q[j].kind # kind
    BY <1>1, <1>2, <1>4 DEF NoneOf
  <2>2. CASE Head(q).kind = kind
    <3>1. 1 \in 1 .. n /\ \A j \in 1 .. n : j > 1 => j # 1
      BY <1>1
    <3> QED BY <1>1, <2>1, <2>2, <3>1 DEF Says, LastOf
  <2>3. CASE Head(q).kind # kind
    BY <1>1, <2>1, <2>3 DEF NoneOf
  <2> QED BY <2>2, <2>3
<1> QED BY <1>3, <1>4 DEF r

LEMMA EmptySays == \A kind, v : ~Says(<<>>, kind, v)
BY DEF Says

-----------------------------------------------------------------------------
(* Whether the contact is online                                           *)

LEMMA NextTellsOnline ==
  ASSUME NEW o, NEW v
  PROVE  TellsOnline(o, v)' <=>
           \/ Says(queue'[o], "online", v)
           \/ NoneOf(queue'[o], "online") /\ stage'[o] \in {"ready", "serving"} /\ view'[o].online = v
BY DEF TellsOnline, Says, NoneOf, LastOf

\* An observer that is told nothing new believes what it did.
LEMMA OnlineQuiet ==
  ASSUME ToldOnline, UNCHANGED readerVars, Watchers' \subseteq Watchers,
         \A o \in Observer : stage'[o] = stage[o],
         \A v \in BOOLEAN : OnlineOK(v) => OnlineOK(v)'
  PROVE  ToldOnline'
<1> SUFFICES ASSUME NEW o \in Watchers', o \notin slow', NEW v \in BOOLEAN, TellsOnline(o, v)'
             PROVE  OnlineOK(v)'
  BY DEF ToldOnline
<1>1. o \in Watchers /\ o \in Observer /\ o \notin slow
  BY DEF Watchers, readerVars
<1>2. TellsOnline(o, v)
  BY <1>1, NextTellsOnline DEF TellsOnline, readerVars
<1> QED BY <1>1, <1>2 DEF ToldOnline

\* What is published reaches every watcher that keeps up, after all it was told.
LEMMA OnlineNews ==
  ASSUME PresenceAssumption, PresenceTypeOK, NEW b \in BOOLEAN,
         Enqueue([kind |-> "online", value |-> b]), Watchers' = Watchers, OnlineOK(b)'
  PROVE  ToldOnline'
<1> SUFFICES ASSUME NEW o \in Watchers', o \notin slow', NEW v \in BOOLEAN, TellsOnline(o, v)'
             PROVE  OnlineOK(v)'
  BY DEF ToldOnline
<1> DEFINE e == [kind |-> "online", value |-> b]
<1>1. e \in StreamEvent /\ e.kind = "online" /\ e.value = b
  BY OnlineEvent
<1>2. queue'[o] = Append(queue[o], e) /\ queue[o] \in Seq(StreamEvent)
  BY <1>1, Enqueued DEF Watchers, PresenceTypeOK
<1> HIDE DEF e
<1>3. ~NoneOf(Append(queue[o], e), "online")
  BY <1>1, <1>2, Appended
<1>4. Says(Append(queue[o], e), "online", v)
  BY <1>2, <1>3, NextTellsOnline
<1>5. v = b
  BY <1>1, <1>2, <1>4, Appended
<1> QED BY <1>5

\* Events of another kind change nothing about it.
LEMMA OnlineOtherNews ==
  ASSUME PresenceAssumption, PresenceTypeOK, ToldOnline, NEW e \in StreamEvent, e.kind # "online",
         Enqueue(e), UNCHANGED stage, \A v \in BOOLEAN : OnlineOK(v) => OnlineOK(v)'
  PROVE  ToldOnline'
<1> SUFFICES ASSUME NEW o \in Watchers', o \notin slow', NEW v \in BOOLEAN, TellsOnline(o, v)'
             PROVE  OnlineOK(v)'
  BY DEF ToldOnline
<1>1. o \in Watchers /\ o \in Observer
  BY DEF Watchers
<1>2. queue'[o] = Append(queue[o], e) /\ queue[o] \in Seq(StreamEvent) /\ o \notin slow /\ view' = view
  BY <1>1, Enqueued DEF PresenceTypeOK
<1>3. TellsOnline(o, v)
  BY <1>2, NextTellsOnline, Appended DEF TellsOnline
<1> QED BY <1>1, <1>2, <1>3 DEF ToldOnline

LEMMA ToldOnlineStep ==
  ASSUME PresenceAssumption, PresenceTypeOK, Hub, ToldOnline, [PresenceNext]_presenceVars
  PROVE  ToldOnline'
<1>0. /\ \A s \in {"added", "listed", "ready", "serving"} : s \in Registered
      /\ \A s \in {"closed", "loaded", "revoked", "offline"} : s \notin Registered
  BY DEF Registered
<1>00. /\ stage \in [Observer \cup Window -> StreamStage] /\ first \in [Window -> BOOLEAN]
       /\ Observer \cap Window = {}
  BY DEF PresenceTypeOK, PresenceAssumption
<1>1. ASSUME NEW c \in Observer \cup Window, Load(c) PROVE ToldOnline'
  <2>1. /\ stage[c] = "closed" /\ stage' = [stage EXCEPT ![c] = "loaded"]
        /\ UNCHANGED <<stored, first, unannounced>> /\ UNCHANGED readerVars
    BY <1>1 DEF Load
  <2>2. Users' = Users /\ Watchers' = Watchers
    BY <1>0, <2>1, HubMoved DEF Users, Watchers
  <2>3. (UpDue => UpDue') /\ (DownDue => DownDue')
    BY <1>00, <2>1 DEF UpDue, DownDue
  <2>4. \A v \in BOOLEAN : OnlineOK(v) => OnlineOK(v)'
    BY <2>1, <2>2, <2>3 DEF OnlineOK, Online
  <2> SUFFICES ASSUME NEW o \in Watchers', o \notin slow', NEW v \in BOOLEAN, TellsOnline(o, v)'
               PROVE  OnlineOK(v)'
    BY DEF ToldOnline
  <2>5. o \in Watchers /\ stage[o] \in Registered /\ o # c /\ stage'[o] = stage[o] /\ o \notin slow
    BY <1>0, <1>00, <2>1, <2>2 DEF Watchers, readerVars
  <2>6. TellsOnline(o, v)
    BY <2>1, <2>5, NextTellsOnline DEF TellsOnline, readerVars
  <2> QED BY <2>4, <2>5, <2>6 DEF ToldOnline
<1>2. ASSUME NEW c \in Observer, Add(c) PROVE ToldOnline'
  <2>1. /\ stage[c] = "loaded" /\ stage' = [stage EXCEPT ![c] = "added"]
        /\ UNCHANGED <<stored, first, unannounced>> /\ UNCHANGED readerVars
    BY <1>2, <1>00 DEF Add
  <2>2. Users' = Users /\ Watchers' = Watchers \cup {c} /\ c \notin Watchers
    BY <1>0, <2>1, HubMoved DEF Watchers
  <2>3. (UpDue => UpDue') /\ (DownDue => DownDue')
    BY <1>00, <2>1 DEF UpDue, DownDue
  <2>4. \A v \in BOOLEAN : OnlineOK(v) => OnlineOK(v)'
    BY <2>1, <2>2, <2>3 DEF OnlineOK, Online
  <2> SUFFICES ASSUME NEW o \in Watchers', o \notin slow', NEW v \in BOOLEAN, TellsOnline(o, v)'
               PROVE  OnlineOK(v)'
    BY DEF ToldOnline
  <2>5. o # c
    <3>1. queue'[c] = <<>> /\ stage'[c] = "added"
      BY <1>00, <2>1, <2>2 DEF Hub, Served, readerVars
    <3> QED BY <3>1, NextTellsOnline, EmptySays
  <2>6. o \in Watchers /\ o \in Observer /\ stage'[o] = stage[o] /\ o \notin slow
    BY <1>00, <2>1, <2>2, <2>5 DEF Watchers, readerVars
  <2>7. TellsOnline(o, v)
    BY <2>1, <2>6, NextTellsOnline DEF TellsOnline, readerVars
  <2> QED BY <2>4, <2>6, <2>7 DEF ToldOnline
\* A window's step that publishes nothing.
<1>3. ASSUME NEW w \in Window, NEW s, stage' = [stage EXCEPT ![w] = s], UNCHANGED readerVars,
             \A v \in BOOLEAN : OnlineOK(v) => OnlineOK(v)'
      PROVE  ToldOnline'
  <2>1. Watchers' = Watchers
    BY <1>3, HubMoved
  <2>2. \A o \in Observer : stage'[o] = stage[o]
    BY <1>00, <1>3
  <2> QED BY <1>3, <2>1, <2>2, OnlineQuiet
<1>4. ASSUME NEW w \in Window, Add(w) PROVE ToldOnline'
  <2>1. /\ stage[w] = "loaded" /\ stage' = [stage EXCEPT ![w] = "added"]
        /\ UNCHANGED <<stored, unannounced>> /\ UNCHANGED readerVars
        /\ first' = [first EXCEPT ![w] = Users = {}]
    BY <1>4, <1>00 DEF Add
  <2>2. Users' = Users \cup {w}
    BY <1>0, <2>1, HubMoved
  <2>3. UpDue => UpDue'
    BY <1>00, <2>1 DEF UpDue
  <2>4. Users = {} => UpDue'
    BY <1>00, <2>1 DEF UpDue
  <2>5. \A v \in BOOLEAN : OnlineOK(v) => OnlineOK(v)'
    BY <2>1, <2>2, <2>3, <2>4 DEF OnlineOK, Online
  <2> QED BY <1>3, <2>1, <2>5
<1>5. ASSUME NEW w \in Window, WindowReady(w) PROVE ToldOnline'
  <2>1. /\ stage[w] = "added" /\ stage' = [stage EXCEPT ![w] = IF first[w] THEN "ready" ELSE "serving"]
        /\ UNCHANGED <<stored, first, unannounced>> /\ UNCHANGED readerVars
    BY <1>5 DEF WindowReady
  <2>2. w \in Users
    BY <1>0, <2>1 DEF Users
  <2>3. Users' = Users
    <3>1. (IF first[w] THEN "ready" ELSE "serving") \in Registered
      BY DEF Registered
    <3>2. Users' = Users \cup {w}
      BY <1>0, <2>1, <3>1, HubMoved
    <3> QED BY <2>2, <3>2
  <2>4. (UpDue => UpDue') /\ (DownDue => DownDue')
    BY <1>00, <2>1 DEF UpDue, DownDue
  <2>5. \A v \in BOOLEAN : OnlineOK(v) => OnlineOK(v)'
    BY <2>1, <2>3, <2>4 DEF OnlineOK, Online
  <2> QED BY <1>3, <2>1, <2>5
\* publishOnline finds the devices as they are: with the wish that is stored.
<1>6. ASSUME NEW o \in Watchers PROVE effectivePresence = Online
  BY <1>6 DEF effectivePresence, Online, Hub, Wished, Looking, Looked
<1>7. ASSUME PublishPresence, Watchers' = Watchers, Users' = Users, UNCHANGED stored
      PROVE  ToldOnline'
  <2>1. CASE Watchers = {}
    BY <1>7, <2>1 DEF ToldOnline
  <2>2. CASE Watchers # {}
    <3>1. PICK b \in BOOLEAN : b = Online
      BY DEF Online
    <3>2. Enqueue([kind |-> "online", value |-> b])
      BY <1>6, <1>7, <2>2, <3>1 DEF PublishPresence
    <3>3. OnlineOK(b)'
      BY <1>7, <3>1 DEF OnlineOK, Online
    <3> QED BY <1>7, <3>2, <3>3, OnlineNews
  <2> QED BY <2>1, <2>2
<1>8. ASSUME NEW w \in Window, Announce(w) PROVE ToldOnline'
  <2>1. /\ stage[w] = "ready" /\ stage' = [stage EXCEPT ![w] = "serving"]
        /\ publishOnline(TRUE) /\ UNCHANGED stored
    BY <1>8 DEF Announce
  <2>2. w \in Users
    BY <1>0, <2>1 DEF Users
  <2>3. Users' = Users /\ Watchers' = Watchers
    BY <1>0, <2>1, <2>2, HubMoved
  <2>4. PublishPresence
    BY <2>1, <2>2 DEF publishOnline
  <2> QED BY <1>7, <2>1, <2>3, <2>4
<1>9. ASSUME NEW w \in Window, NEW silent, WindowLeaves(w, silent),
             stage[w] \in {"added", "serving", "revoked"}, stage[w] = "added" => silent = first[w]
      PROVE  ToldOnline'
  <2>1. /\ stage' = [stage EXCEPT ![w] = IF BecameOffline(w) THEN "offline" ELSE "closed"]
        /\ unannounced' = (unannounced \/ silent) /\ UNCHANGED stored /\ UNCHANGED readerVars
        /\ first' = [first EXCEPT ![w] = FALSE]
    BY <1>9 DEF WindowLeaves
  <2>2. Users' = Users \ {w}
    BY <1>0, <2>1, HubMoved
  <2>3. UpDue => UpDue' \/ unannounced'
    <3> SUFFICES ASSUME UpDue PROVE UpDue' \/ unannounced'
      OBVIOUS
    <3>1. PICK x \in Window : stage[x] = "ready" \/ (stage[x] = "added" /\ first[x])
      BY DEF UpDue
    <3>2. CASE x = w
      BY <1>9, <2>1, <3>1, <3>2
    <3>3. CASE x # w
      BY <1>00, <2>1, <3>1, <3>3 DEF UpDue
    <3> QED BY <3>2, <3>3
  <2>4. Users' = {} => DownDue'
    BY <1>00, <2>1, <2>2 DEF DownDue, BecameOffline
  <2>5. \A v \in BOOLEAN : OnlineOK(v) => OnlineOK(v)'
    BY <2>1, <2>2, <2>3, <2>4 DEF OnlineOK, Online
  <2> QED BY <1>3, <2>1, <2>5
<1>10. ASSUME NEW w \in Window, PublishOffline(w) PROVE ToldOnline'
  <2>1. /\ stage[w] = "offline" /\ stage' = [stage EXCEPT ![w] = "closed"]
        /\ publishOnline(FALSE) /\ UNCHANGED <<stored, first>>
    BY <1>10 DEF PublishOffline
  <2>2. w \notin Users
    BY <1>0, <2>1 DEF Users
  <2>3. Users' = Users /\ Watchers' = Watchers
    BY <1>0, <2>1, <2>2, HubMoved
  <2>4. CASE Users = {}
    <3>1. PublishPresence
      BY <2>1, <2>4 DEF publishOnline
    <3> QED BY <1>7, <2>1, <2>3, <3>1
  <2>5. CASE Users # {}
    <3>1. UNCHANGED readerVars /\ UNCHANGED unannounced
      BY <2>1, <2>5 DEF publishOnline
    <3>2. UpDue => UpDue'
      BY <1>00, <2>1 DEF UpDue
    <3>3. \A v \in BOOLEAN : OnlineOK(v) => OnlineOK(v)'
      BY <2>1, <2>3, <2>5, <3>1, <3>2 DEF OnlineOK, Online
    <3> QED BY <1>3, <2>1, <3>1, <3>3
  <2> QED BY <2>4, <2>5
<1>11. ASSUME NEW w \in Window, Revoke(w) PROVE ToldOnline'
  <2>1. /\ stage[w] = "serving" /\ stage' = [stage EXCEPT ![w] = "revoked"]
        /\ UNCHANGED <<stored, first, unannounced>> /\ UNCHANGED readerVars
    BY <1>11 DEF Revoke
  <2>2. Users' = Users \ {w}
    BY <1>0, <2>1, HubMoved
  <2>3. UpDue => UpDue'
    BY <1>00, <2>1 DEF UpDue
  <2>4. DownDue'
    BY <1>00, <2>1 DEF DownDue
  <2>5. \A v \in BOOLEAN : OnlineOK(v) => OnlineOK(v)'
    BY <2>1, <2>2, <2>3, <2>4 DEF OnlineOK, Online
  <2> QED BY <1>3, <2>1, <2>5
<1>12. ASSUME NEW status \in Status, SetPresence(status) PROVE ToldOnline'
  <2>1. /\ Enqueue([kind |-> "online", value |-> Users # {} /\ status # "invisible"])
        /\ UNCHANGED stage /\ stored' = status
    BY <1>12 DEF SetPresence
  <2>2. Watchers' = Watchers /\ Users' = Users
    BY <2>1 DEF Watchers, Users
  <2>3. PICK b \in BOOLEAN : b = (Users # {} /\ status # "invisible")
    OBVIOUS
  <2>4. OnlineOK(b)'
    BY <2>1, <2>2, <2>3 DEF OnlineOK, Online
  <2> QED BY <2>1, <2>2, <2>3, <2>4, OnlineNews
\* An observer's own step leaves the devices and the other observers alone.
<1>13. ASSUME NEW o \in Observer, NEW s, stage' = [stage EXCEPT ![o] = s],
              s \in Registered => o \in Watchers, UNCHANGED <<stored, unannounced, first>>,
              \A u \in Observer \ {o} :
                queue'[u] = queue[u] /\ view'[u] = view[u] /\ (u \in slow' <=> u \in slow),
              s \in Registered =>
                /\ slow' = slow
                /\ \A v \in BOOLEAN : TellsOnline(o, v)' => TellsOnline(o, v) \/ OnlineOK(v)
       PROVE  ToldOnline'
  <2>1. /\ Users' = Users
        /\ Watchers' = IF s \in Registered THEN Watchers \cup {o} ELSE Watchers \ {o}
    BY <1>13, HubMoved
  <2>2. (UpDue => UpDue') /\ (DownDue => DownDue')
    BY <1>00, <1>13 DEF UpDue, DownDue
  <2>3. \A v \in BOOLEAN : OnlineOK(v) => OnlineOK(v)'
    BY <1>13, <2>1, <2>2 DEF OnlineOK, Online
  <2> SUFFICES ASSUME NEW u \in Watchers', u \notin slow', NEW v \in BOOLEAN, TellsOnline(u, v)'
               PROVE  OnlineOK(v)
    BY <2>3 DEF ToldOnline
  <2>4. u \in Watchers /\ u \in Observer
    BY <1>13, <2>1 DEF Watchers
  <2>5. CASE u = o
    BY <1>13, <2>1, <2>4, <2>5 DEF ToldOnline
  <2>6. CASE u # o
    <3>1. stage'[u] = stage[u] /\ u \notin slow
      BY <1>00, <1>13, <2>4, <2>6
    <3>2. TellsOnline(u, v)
      BY <1>13, <2>4, <2>6, <3>1, NextTellsOnline DEF TellsOnline
    <3> QED BY <2>4, <3>1, <3>2 DEF ToldOnline
  <2> QED BY <2>5, <2>6
<1>14. ASSUME NEW o \in Observer, ReadRosters(o) PROVE ToldOnline'
  <2>1. /\ stage[o] = "added" /\ stage' = [stage EXCEPT ![o] = "listed"]
        /\ UNCHANGED <<stored, unannounced, first>> /\ UNCHANGED <<queue, slow>>
        /\ \A u \in Observer \ {o} : view'[u] = view[u]
    BY <1>14 DEF ReadRosters, PresenceTypeOK
  <2>2. o \in Watchers /\ stage'[o] = "listed"
    BY <1>0, <1>00, <2>1 DEF Watchers
  <2>3. \A v \in BOOLEAN : TellsOnline(o, v)' => TellsOnline(o, v)
    BY <2>1, <2>2, NextTellsOnline DEF TellsOnline
  <2> QED BY <1>13, <2>1, <2>2, <2>3
<1>15. ASSUME NEW o \in Observer, contactSnapshot(o) PROVE ToldOnline'
  <2>1. /\ stage[o] = "listed" /\ stage' = [stage EXCEPT ![o] = "ready"]
        /\ UNCHANGED <<stored, unannounced, first>> /\ UNCHANGED <<queue, slow>>
        /\ view'[o].online = effectivePresence
        /\ \A u \in Observer \ {o} : view'[u] = view[u]
    BY <1>15 DEF contactSnapshot, PresenceTypeOK
  <2>2. o \in Watchers
    BY <1>0, <2>1 DEF Watchers
  <2>3. OnlineOK(effectivePresence)
    BY <1>6, <2>2 DEF OnlineOK, Online
  <2>4. \A v \in BOOLEAN : TellsOnline(o, v)' => TellsOnline(o, v) \/ OnlineOK(v)
    BY <2>1, <2>3, NextTellsOnline DEF TellsOnline
  <2> QED BY <1>13, <2>1, <2>2, <2>4
<1>16. ASSUME NEW o \in Observer, SendReady(o) PROVE ToldOnline'
  <2>1. /\ stage[o] = "ready" /\ stage' = [stage EXCEPT ![o] = "serving"]
        /\ UNCHANGED <<stored, unannounced, first>> /\ UNCHANGED <<queue, slow, view>>
    BY <1>16 DEF SendReady, readerVars
  <2>2. o \in Watchers
    BY <1>0, <2>1 DEF Watchers
  <2>3. \A v \in BOOLEAN : TellsOnline(o, v)' => TellsOnline(o, v)
    BY <2>1, NextTellsOnline DEF TellsOnline
  <2> QED BY <1>13, <2>1, <2>2, <2>3
<1>17. ASSUME NEW o \in Observer, Write(o) PROVE ToldOnline'
  <2> DEFINE e == Head(queue[o])
  <2>1. /\ stage[o] = "serving" /\ queue[o] # <<>> /\ queue[o] \in Seq(StreamEvent)
        /\ UNCHANGED <<stored, unannounced, first>> /\ UNCHANGED <<stage, slow>>
        /\ queue'[o] = Tail(queue[o]) /\ \A u \in Observer \ {o} : queue'[u] = queue[u]
    BY <1>17 DEF Write, streamVars, PresenceTypeOK
  <2>2. /\ view'[o].online = IF e.kind = "online" THEN e.value ELSE view[o].online
        /\ \A u \in Observer \ {o} : view'[u] = view[u]
    BY <1>17 DEF Write, PresenceTypeOK
  <2> HIDE DEF e
  <2>3. o \in Watchers /\ stage' = [stage EXCEPT ![o] = "serving"]
    BY <1>0, <1>00, <2>1 DEF Watchers
  <2>4. \A v \in BOOLEAN : TellsOnline(o, v)' => TellsOnline(o, v)
    <3> SUFFICES ASSUME NEW v \in BOOLEAN, TellsOnline(o, v)' PROVE TellsOnline(o, v)
      OBVIOUS
    <3>1. CASE Says(Tail(queue[o]), "online", v)
      BY <2>1, <3>1, Taken DEF TellsOnline
    <3>2. CASE NoneOf(Tail(queue[o]), "online") /\ view'[o].online = v
      <4>1. IF e.kind = "online" THEN Says(queue[o], "online", e.value) ELSE NoneOf(queue[o], "online")
        BY <2>1, <3>2, Taken DEF e
      <4> QED BY <2>1, <2>2, <3>2, <4>1 DEF TellsOnline
    <3> QED BY <2>1, <3>1, <3>2, NextTellsOnline
  <2> QED BY <1>13, <2>1, <2>2, <2>3, <2>4
<1>18. ASSUME NEW o \in Observer, ObserverExit(o) PROVE ToldOnline'
  <2>1. /\ stage' = [stage EXCEPT ![o] = "closed"]
        /\ UNCHANGED <<stored, unannounced, first>> /\ slow' = slow \ {o}
        /\ \A u \in Observer \ {o} : queue'[u] = queue[u] /\ view'[u] = view[u]
    BY <1>18 DEF ObserverExit, PresenceTypeOK
  <2> QED BY <1>0, <1>13, <2>1
<1>19. ASSUME UNCHANGED streamVars, UNCHANGED readerVars PROVE ToldOnline'
  <2>1. Users' = Users /\ Watchers' = Watchers /\ UNCHANGED stage
    BY <1>19 DEF streamVars, Users, Watchers
  <2>2. \A v \in BOOLEAN : OnlineOK(v) => OnlineOK(v)'
    BY <1>19, <2>1 DEF streamVars, OnlineOK, Online, UpDue, DownDue
  <2> QED BY <1>19, <2>1, <2>2, OnlineQuiet
<1>20. ASSUME NEW c \in Conn, PublishRoster(c) PROVE ToldOnline'
  <2> DEFINE e == [kind |-> "roster", value |-> call[c].roster]
  <2>1. Enqueue(e) /\ UNCHANGED streamVars /\ call[c].roster \in Roster
    BY <1>20 DEF PublishRoster, CallStep, PresenceTypeOK, Due
  <2>2. e \in StreamEvent /\ e.kind # "online"
    BY <2>1, RosterEvent
  <2> HIDE DEF e
  <2>3. Users' = Users /\ UNCHANGED stage
    BY <2>1 DEF streamVars, Users
  <2>4. \A v \in BOOLEAN : OnlineOK(v) => OnlineOK(v)'
    BY <2>1, <2>3 DEF streamVars, OnlineOK, Online, UpDue, DownDue
  <2> QED BY <2>1, <2>2, <2>3, <2>4, OnlineOtherNews
<1>21. ASSUME Observe PROVE ToldOnline'
  BY <1>21, <1>1, <1>2, <1>14, <1>15, <1>16, <1>17, <1>18 DEF Observe
<1>22. ASSUME ContactMoves PROVE ToldOnline'
  <2>1. ASSUME NEW w \in Window, ReadyFails(w) \/ Exit(w) PROVE ToldOnline'
    BY <2>1, <1>9 DEF ReadyFails, Exit
  <2> QED BY <1>22, <2>1, <1>1, <1>4, <1>5, <1>8, <1>10, <1>11, <1>12 DEF ContactMoves
<1>23. ASSUME CallMoves PROVE ToldOnline'
  BY <1>23, <1>19, <1>20 DEF CallMoves, EnterCall, LoseCall, LeaveCall, ReadRoster, CallStep
<1>24. ASSUME UNCHANGED presenceVars PROVE ToldOnline'
  BY <1>24, <1>19 DEF presenceVars
<1> QED BY <1>21, <1>22, <1>23, <1>24 DEF PresenceNext

-----------------------------------------------------------------------------
(* Who is in the call                                                      *)

LEMMA NextTellsRoster ==
  ASSUME NEW o, NEW v
  PROVE  TellsRoster(o, v)' <=>
           \/ Says(queue'[o], "roster", v)
           \/ /\ NoneOf(queue'[o], "roster") /\ stage'[o] \in {"listed", "ready", "serving"}
              /\ view'[o].roster = v
BY DEF TellsRoster, Says, NoneOf, LastOf

LEMMA RosterQuiet ==
  ASSUME ToldRoster, UNCHANGED readerVars, Watchers' \subseteq Watchers,
         \A o \in Observer : stage'[o] = stage[o],
         \A v \in Roster : RosterOK(v) => RosterOK(v)'
  PROVE  ToldRoster'
<1> SUFFICES ASSUME NEW o \in Watchers', o \notin slow', NEW v \in Roster, TellsRoster(o, v)'
             PROVE  RosterOK(v)'
  BY DEF ToldRoster, Roster
<1>1. o \in Watchers /\ o \in Observer /\ o \notin slow
  BY DEF Watchers, readerVars
<1>2. TellsRoster(o, v)
  BY <1>1, NextTellsRoster DEF TellsRoster, readerVars
<1> QED BY <1>1, <1>2 DEF ToldRoster

LEMMA RosterNews ==
  ASSUME PresenceAssumption, PresenceTypeOK, NEW n \in Roster,
         Enqueue([kind |-> "roster", value |-> n]), Watchers' = Watchers, RosterOK(n)'
  PROVE  ToldRoster'
<1> SUFFICES ASSUME NEW o \in Watchers', o \notin slow', NEW v \in Roster, TellsRoster(o, v)'
             PROVE  RosterOK(v)'
  BY DEF ToldRoster, Roster
<1> DEFINE e == [kind |-> "roster", value |-> n]
<1>1. e \in StreamEvent /\ e.kind = "roster" /\ e.value = n
  BY RosterEvent
<1>2. queue'[o] = Append(queue[o], e) /\ queue[o] \in Seq(StreamEvent)
  BY <1>1, Enqueued DEF Watchers, PresenceTypeOK
<1> HIDE DEF e
<1>3. ~NoneOf(Append(queue[o], e), "roster")
  BY <1>1, <1>2, Appended
<1>4. Says(Append(queue[o], e), "roster", v)
  BY <1>2, <1>3, NextTellsRoster
<1>5. v = n
  BY <1>1, <1>2, <1>4, Appended
<1> QED BY <1>5

LEMMA RosterOtherNews ==
  ASSUME PresenceAssumption, PresenceTypeOK, ToldRoster, NEW e \in StreamEvent, e.kind # "roster",
         Enqueue(e), Watchers' = Watchers, \A o \in Observer : stage'[o] = stage[o],
         \A v \in Roster : RosterOK(v) => RosterOK(v)'
  PROVE  ToldRoster'
<1> SUFFICES ASSUME NEW o \in Watchers', o \notin slow', NEW v \in Roster, TellsRoster(o, v)'
             PROVE  RosterOK(v)'
  BY DEF ToldRoster, Roster
<1>1. o \in Watchers /\ o \in Observer /\ stage'[o] = stage[o]
  BY DEF Watchers
<1>2. queue'[o] = Append(queue[o], e) /\ queue[o] \in Seq(StreamEvent) /\ o \notin slow /\ view' = view
  BY <1>1, Enqueued DEF PresenceTypeOK
<1>3. TellsRoster(o, v)
  BY <1>1, <1>2, NextTellsRoster, Appended DEF TellsRoster
<1> QED BY <1>1, <1>2, <1>3 DEF ToldRoster

LEMMA ToldRosterStep ==
  ASSUME PresenceAssumption, PresenceTypeOK, Served, InCall, Reading, ToldRoster,
         [PresenceNext]_presenceVars
  PROVE  ToldRoster'
<1>0. /\ \A s \in {"added", "listed", "ready", "serving"} : s \in Registered
      /\ \A s \in {"closed", "loaded", "revoked", "offline"} : s \notin Registered
  BY DEF Registered
<1>00. /\ stage \in [Observer \cup Window -> StreamStage] /\ Observer \cap Window = {}
  BY DEF PresenceTypeOK, PresenceAssumption
\* Whatever happens outside the call, a roster stays as good as it is.
<1>1. ASSUME UNCHANGED callVars PROVE \A v \in Roster : RosterOK(v) => RosterOK(v)'
  BY <1>1 DEF callVars, RosterOK, RosterDue, callPresence
<1>2. ASSUME NEW w \in Window, NEW s, stage' = [stage EXCEPT ![w] = s], UNCHANGED callVars,
             UNCHANGED readerVars \/ \E b \in BOOLEAN : publishOnline(b)
      PROVE  ToldRoster'
  <2>1. Watchers' = Watchers /\ \A o \in Observer : stage'[o] = stage[o]
    BY <1>00, <1>2, HubMoved
  <2>2. CASE UNCHANGED readerVars
    BY <1>1, <1>2, <2>1, <2>2, RosterQuiet
  <2>3. CASE PublishPresence
    <3> DEFINE e == [kind |-> "online", value |-> effectivePresence]
    <3>1. Enqueue(e) /\ e \in StreamEvent /\ e.kind # "roster"
      BY <2>3, OnlineEvent DEF PublishPresence, effectivePresence
    <3> HIDE DEF e
    <3>2. PICK d \in StreamEvent : d = e
      BY <3>1
    <3> QED BY <1>1, <1>2, <2>1, <3>1, <3>2, RosterOtherNews
  <2> QED BY <1>2, <2>2, <2>3 DEF publishOnline
<1>3. ASSUME NEW status \in Status, SetPresence(status) PROVE ToldRoster'
  <2>1. PICK b \in BOOLEAN : b = (Users # {} /\ status # "invisible")
    OBVIOUS
  <2>2. Enqueue([kind |-> "online", value |-> b]) /\ UNCHANGED stage /\ UNCHANGED callVars
    BY <1>3, <2>1 DEF SetPresence
  <2>3. PICK d \in StreamEvent : d = [kind |-> "online", value |-> b] /\ d.kind # "roster"
    BY OnlineEvent
  <2>4. Watchers' = Watchers
    BY <2>2 DEF Watchers
  <2> QED BY <1>1, <2>2, <2>3, <2>4, RosterOtherNews
\* An observer's own step.
<1>4. ASSUME NEW o \in Observer, NEW s, stage' = [stage EXCEPT ![o] = s],
             s \in Registered => o \in Watchers, UNCHANGED callVars,
             \A u \in Observer \ {o} :
               queue'[u] = queue[u] /\ view'[u] = view[u] /\ (u \in slow' <=> u \in slow),
             s \in Registered =>
               /\ slow' = slow
               /\ \A v \in Roster : TellsRoster(o, v)' => TellsRoster(o, v) \/ RosterOK(v)
      PROVE  ToldRoster'
  <2>1. Watchers' = IF s \in Registered THEN Watchers \cup {o} ELSE Watchers \ {o}
    BY <1>4, HubMoved
  <2> SUFFICES ASSUME NEW u \in Watchers', u \notin slow', NEW v \in Roster, TellsRoster(u, v)'
               PROVE  RosterOK(v)
    BY <1>1, <1>4 DEF ToldRoster, Roster
  <2>2. u \in Watchers /\ u \in Observer
    BY <1>4, <2>1 DEF Watchers
  <2>3. CASE u = o
    BY <1>4, <2>1, <2>2, <2>3 DEF ToldRoster
  <2>4. CASE u # o
    <3>1. stage'[u] = stage[u] /\ u \notin slow
      BY <1>00, <1>4, <2>2, <2>4
    <3>2. TellsRoster(u, v)
      BY <1>4, <2>2, <2>4, <3>1, NextTellsRoster DEF TellsRoster
    <3> QED BY <2>2, <3>1, <3>2 DEF ToldRoster
  <2> QED BY <2>3, <2>4
<1>5. ASSUME NEW o \in Observer, Load(o) PROVE ToldRoster'
  <2>1. /\ stage' = [stage EXCEPT ![o] = "loaded"] /\ UNCHANGED callVars /\ UNCHANGED <<queue, slow, view>>
    BY <1>5 DEF Load, readerVars
  <2> QED BY <1>0, <1>4, <2>1
<1>6. ASSUME NEW o \in Observer, Add(o) PROVE ToldRoster'
  <2>1. /\ stage[o] = "loaded" /\ stage' = [stage EXCEPT ![o] = "added"]
        /\ UNCHANGED callVars /\ UNCHANGED readerVars
    BY <1>6 DEF Add
  <2>2. Watchers' = Watchers \cup {o} /\ o \notin Watchers
    BY <1>0, <2>1, HubMoved DEF Watchers
  <2> SUFFICES ASSUME NEW u \in Watchers', u \notin slow', NEW v \in Roster, TellsRoster(u, v)'
               PROVE  RosterOK(v)
    BY <1>1, <2>1 DEF ToldRoster, Roster
  <2>3. u # o
    <3>1. queue'[o] = <<>> /\ stage'[o] = "added"
      BY <1>00, <2>1, <2>2 DEF Served, readerVars
    <3> QED BY <3>1, NextTellsRoster, EmptySays
  <2>4. u \in Watchers /\ u \in Observer /\ stage'[u] = stage[u] /\ u \notin slow
    BY <1>00, <2>1, <2>2, <2>3 DEF Watchers, readerVars
  <2>5. TellsRoster(u, v)
    BY <2>1, <2>4, NextTellsRoster DEF TellsRoster, readerVars
  <2> QED BY <2>4, <2>5 DEF ToldRoster
<1>7. ASSUME NEW o \in Observer, ReadRosters(o) PROVE ToldRoster'
  <2>1. /\ stage[o] = "added" /\ stage' = [stage EXCEPT ![o] = "listed"]
        /\ UNCHANGED callVars /\ UNCHANGED <<queue, slow>> /\ view'[o].roster = callPresence
        /\ \A u \in Observer \ {o} : view'[u] = view[u]
    BY <1>7 DEF ReadRosters, PresenceTypeOK
  <2>2. o \in Watchers
    BY <1>0, <2>1 DEF Watchers
  <2>3. \A v \in Roster : TellsRoster(o, v)' => TellsRoster(o, v) \/ RosterOK(v)
    BY <2>1, NextTellsRoster DEF TellsRoster, RosterOK
  <2> QED BY <1>4, <2>1, <2>2, <2>3
<1>8. ASSUME NEW o \in Observer, contactSnapshot(o) \/ SendReady(o) PROVE ToldRoster'
  <2>1. PICK s \in {"ready", "serving"} : stage' = [stage EXCEPT ![o] = s]
    BY <1>8 DEF contactSnapshot, SendReady
  <2>2. /\ stage[o] \in {"listed", "ready"}
        /\ UNCHANGED callVars /\ UNCHANGED <<queue, slow>> /\ view'[o].roster = view[o].roster
        /\ \A u \in Observer \ {o} : view'[u] = view[u]
    BY <1>8 DEF contactSnapshot, SendReady, readerVars, PresenceTypeOK
  <2>3. o \in Watchers
    BY <1>0, <2>2 DEF Watchers
  <2>4. \A v \in Roster : TellsRoster(o, v)' => TellsRoster(o, v)
    BY <2>2, NextTellsRoster DEF TellsRoster
  <2> QED BY <1>4, <2>1, <2>2, <2>3, <2>4
<1>9. ASSUME NEW o \in Observer, Write(o) PROVE ToldRoster'
  <2> DEFINE e == Head(queue[o])
  <2>1. /\ stage[o] = "serving" /\ queue[o] # <<>> /\ queue[o] \in Seq(StreamEvent)
        /\ UNCHANGED callVars /\ UNCHANGED <<stage, slow>>
        /\ queue'[o] = Tail(queue[o]) /\ \A u \in Observer \ {o} : queue'[u] = queue[u]
    BY <1>9 DEF Write, streamVars, PresenceTypeOK
  <2>2. /\ view'[o].roster = IF e.kind = "online" THEN view[o].roster ELSE e.value
        /\ \A u \in Observer \ {o} : view'[u] = view[u]
    BY <1>9 DEF Write, PresenceTypeOK
  <2>3. e.kind = "online" \/ e.kind = "roster"
    BY <2>1 DEF StreamEvent
  <2> HIDE DEF e
  <2>4. o \in Watchers /\ stage' = [stage EXCEPT ![o] = "serving"]
    BY <1>0, <1>00, <2>1 DEF Watchers
  <2>5. \A v \in Roster : TellsRoster(o, v)' => TellsRoster(o, v)
    <3> SUFFICES ASSUME NEW v \in Roster, TellsRoster(o, v)' PROVE TellsRoster(o, v)
      BY DEF Roster
    <3>1. CASE Says(Tail(queue[o]), "roster", v)
      BY <2>1, <3>1, Taken DEF TellsRoster
    <3>2. CASE NoneOf(Tail(queue[o]), "roster") /\ view'[o].roster = v
      <4>1. IF e.kind = "roster" THEN Says(queue[o], "roster", e.value) ELSE NoneOf(queue[o], "roster")
        BY <2>1, <3>2, Taken DEF e
      <4> QED BY <2>1, <2>2, <2>3, <3>2, <4>1 DEF TellsRoster
    <3> QED BY <2>1, <3>1, <3>2, NextTellsRoster
  <2> QED BY <1>4, <2>1, <2>2, <2>4, <2>5
<1>10. ASSUME NEW o \in Observer, ObserverExit(o) PROVE ToldRoster'
  <2>1. /\ stage' = [stage EXCEPT ![o] = "closed"] /\ UNCHANGED callVars /\ slow' = slow \ {o}
        /\ \A u \in Observer \ {o} : queue'[u] = queue[u] /\ view'[u] = view[u]
    BY <1>10 DEF ObserverExit, PresenceTypeOK
  <2> QED BY <1>0, <1>4, <2>1
\* Whoever is on the way in or out, or has lost its place, publishes what is so.
<1>11. ASSUME UNCHANGED streamVars, UNCHANGED readerVars, RosterDue' PROVE ToldRoster'
  BY <1>11, RosterQuiet DEF streamVars, Watchers, RosterOK
<1>12. ASSUME NEW c \in Conn, EnterCall(c) PROVE ToldRoster'
  <2>1. call'[c].stage = "entering" /\ UNCHANGED streamVars /\ UNCHANGED readerVars
    BY <1>12 DEF EnterCall, CallStep, PresenceTypeOK
  <2> QED BY <1>11, <2>1 DEF RosterDue
<1>13. ASSUME NEW c \in Conn, LoseCall(c) PROVE ToldRoster'
  <2>1. /\ call'[c].stage \in {"entering", "in"} /\ c \notin present'
        /\ UNCHANGED streamVars /\ UNCHANGED readerVars
    BY <1>13 DEF LoseCall, InCall
  <2> QED BY <1>11, <2>1 DEF RosterDue
<1>14. ASSUME NEW c \in Conn, LeaveCall(c) PROVE ToldRoster'
  <2>1. call'[c].stage = "leaving" /\ UNCHANGED streamVars /\ UNCHANGED readerVars
    BY <1>14 DEF LeaveCall, CallStep, PresenceTypeOK
  <2> QED BY <1>11, <2>1 DEF RosterDue
<1>15. ASSUME NEW c \in Conn, ReadRoster(c) PROVE ToldRoster'
  <2>1. /\ call'[c].stage \in {"entering", "leaving"}
        /\ UNCHANGED streamVars /\ UNCHANGED readerVars
    BY <1>15 DEF ReadRoster, CallStep, PresenceTypeOK, Due
  <2> QED BY <1>11, <2>1 DEF RosterDue
<1>16. ASSUME NEW c \in Conn, PublishRoster(c) PROVE ToldRoster'
  <2>1. PICK n \in Roster : n = call[c].roster
    BY <1>16 DEF PublishRoster, PresenceTypeOK, Due
  <2>2. Enqueue([kind |-> "roster", value |-> n]) /\ published' = n /\ UNCHANGED streamVars
    BY <1>16, <2>1 DEF PublishRoster, CallStep
  <2>3. Watchers' = Watchers /\ RosterOK(n)'
    BY <2>2 DEF streamVars, Watchers, RosterOK
  <2> QED BY <2>2, <2>3, RosterNews
<1>17. ASSUME Observe PROVE ToldRoster'
  BY <1>17, <1>5, <1>6, <1>7, <1>8, <1>9, <1>10 DEF Observe
<1>18. ASSUME ContactMoves PROVE ToldRoster'
  <2>1. ASSUME NEW w \in Window,
               \/ Load(w) \/ Add(w) \/ WindowReady(w) \/ Announce(w) \/ ReadyFails(w) \/ Exit(w)
               \/ PublishOffline(w) \/ Revoke(w)
        PROVE  ToldRoster'
    <3>1. \E s : stage' = [stage EXCEPT ![w] = s]
      BY <2>1
         DEF Load, Add, WindowReady, Announce, ReadyFails, Exit, WindowLeaves, PublishOffline, Revoke
    <3>2. UNCHANGED callVars /\ (UNCHANGED readerVars \/ \E b \in BOOLEAN : publishOnline(b))
      BY <2>1
         DEF Load, Add, WindowReady, Announce, ReadyFails, Exit, WindowLeaves, PublishOffline, Revoke
    <3> QED BY <3>1, <3>2, <1>2
  <2> QED BY <1>18, <2>1, <1>3 DEF ContactMoves
<1>19. ASSUME CallMoves PROVE ToldRoster'
  BY <1>19, <1>12, <1>13, <1>14, <1>15, <1>16 DEF CallMoves
<1>20. ASSUME UNCHANGED presenceVars PROVE ToldRoster'
  <2>1. Watchers' = Watchers /\ UNCHANGED stage /\ UNCHANGED callVars /\ UNCHANGED readerVars
    BY <1>20 DEF presenceVars, streamVars, Watchers
  <2> QED BY <1>1, <2>1, RosterQuiet
<1> QED BY <1>17, <1>18, <1>19, <1>20 DEF PresenceNext

-----------------------------------------------------------------------------
PresenceInv ==
  PresenceTypeOK /\ Hub /\ ToldOnline /\ InCall /\ Reading /\ ToldRoster

LEMMA SettledWhenQuiet ==
  ASSUME PresenceAssumption, PresenceInv
  PROVE  PresenceSettles
<1> SUFFICES ASSUME Settled, NEW o \in Observer \ slow, stage[o] = "serving", queue[o] = <<>>
             PROVE  /\ unannounced \/ (view[o].online <=> Users # {} /\ stored # "invisible")
                    /\ published # callPresence \/ view[o].roster = callPresence
  BY DEF PresenceSettles
<1>1. o \in Watchers \ slow
  BY DEF Watchers, Registered
<1>2. view[o].online \in BOOLEAN /\ view[o].roster \in Roster
  BY DEF PresenceInv, PresenceTypeOK
<1>3. NoneOf(queue[o], "online") /\ NoneOf(queue[o], "roster")
  BY DEF NoneOf
<1>4. TellsOnline(o, view[o].online) /\ TellsRoster(o, view[o].roster)
  BY <1>3 DEF TellsOnline, TellsRoster
<1>5. OnlineOK(view[o].online)
  BY <1>1, <1>2, <1>4 DEF PresenceInv, ToldOnline
<1>6. RosterOK(view[o].roster)
  BY <1>1, <1>2, <1>4 DEF PresenceInv, ToldRoster
<1>7. ~UpDue /\ ~DownDue /\ ~RosterDue
  BY DEF Settled, UpDue, DownDue, RosterDue
<1>8. unannounced \/ (view[o].online <=> Users # {} /\ stored # "invisible")
  BY <1>2, <1>5, <1>7 DEF OnlineOK, Online
<1>9. published # callPresence \/ view[o].roster = callPresence
  BY <1>6, <1>7 DEF RosterOK
<1> QED BY <1>8, <1>9

\* Once nothing is under way, a window shows of its contact what is so: whether
\* it is online, and how many of its devices are in the call; for any number of
\* windows, devices and observers and any length of the queues
\* (realtimeWebsocket, publishOnline, publishCallPresence).
THEOREM WhatIsShownSettles ==
  ASSUME PresenceAssumption
  PROVE  PresenceSpec => []PresenceSettles
<1>1. PresenceInit => PresenceInv
  <2> SUFFICES ASSUME PresenceInit PROVE PresenceInv
    OBVIOUS
  <2>1. Watchers = {} /\ present = {} /\ \A c \in Conn : call[c].roster = Unset
    BY DEF PresenceInit, Watchers, Registered
  <2>2. ToldOnline /\ ToldRoster
    BY <2>1 DEF ToldOnline, ToldRoster
  <2>3. InCall /\ Reading
    BY <2>1 DEF InCall, Reading
  <2> QED BY <2>2, <2>3, TypeInit, HubInit DEF PresenceInv
<1>2. PresenceInv /\ [PresenceNext]_presenceVars => PresenceInv'
  <2> SUFFICES ASSUME PresenceInv, [PresenceNext]_presenceVars PROVE PresenceInv'
    OBVIOUS
  <2>1. PresenceTypeOK /\ Loading /\ Wished /\ Served /\ Hub /\ ToldOnline /\ InCall /\ Reading /\ ToldRoster
    BY DEF PresenceInv, Hub
  <2>2. PresenceTypeOK'
    BY <2>1, PresenceTypeStep
  <2>3. Hub'
    <3>1. Loading'
      BY <2>1, LoadingStep
    <3>2. Wished'
      BY <2>1, WishedStep
    <3>3. Served'
      BY <2>1, ServedStep
    <3> QED BY <3>1, <3>2, <3>3 DEF Hub
  <2>4. ToldOnline'
    BY <2>1, ToldOnlineStep
  <2>5. InCall' /\ Reading'
    BY <2>1, CallStepped
  <2>6. ToldRoster'
    BY <2>1, ToldRosterStep
  <2> QED BY <2>2, <2>3, <2>4, <2>5, <2>6 DEF PresenceInv
<1>3. PresenceInv => PresenceSettles
  BY SettledWhenQuiet
<1> QED BY <1>1, <1>2, <1>3, PTL DEF PresenceSpec

-----------------------------------------------------------------------------
(* The parts of the server together: what moves one of them leaves the     *)
(* others alone, so that a behaviour of all is a behaviour of each, and    *)
(* what is proved of a component holds where TLC checks it.                *)
LEMMA ServerStateComposed == MCSpec => Spec /\ PresenceSpec /\ SfuSpec
<1>1. MCInit => Init /\ PresenceInit /\ SfuInit
  BY DEF MCInit
<1>2. [MCNext]_all => [Next]_vars /\ [PresenceNext]_presenceVars /\ [SfuNext]_sfuVars
  <2> SUFFICES ASSUME [MCNext]_all
               PROVE  [Next]_vars /\ [PresenceNext]_presenceVars /\ [SfuNext]_sfuVars
    OBVIOUS
  <2>1. CASE Uploads(Next /\ FirstFree)
    BY <2>1 DEF Uploads
  <2>2. CASE Streams(which, which \in {"contact", "call"} /\ Observe)
    BY <2>2 DEF Streams, PresenceNext
  <2>3. CASE Streams("contact", ContactMoves)
    BY <2>3 DEF Streams, PresenceNext
  <2>4. CASE Streams("call", CallMoves)
    BY <2>4 DEF Streams, PresenceNext
  <2>5. CASE Serves(SfuNext)
    BY <2>5 DEF Serves
  <2>6. CASE UNCHANGED all
    BY <2>6 DEF all
  <2> QED BY <2>1, <2>2, <2>3, <2>4, <2>5, <2>6 DEF MCNext
<1> QED BY <1>1, <1>2, PTL DEF MCSpec, Spec, PresenceSpec, SfuSpec

(* The upload, the event stream and the media sessions keep their types    *)
(* side by side (uploadChunk, RealtimeHub, hold).                          *)
THEOREM ServerTypesCorrect ==
  ASSUME PresenceAssumption PROVE MCSpec => []TypesOK
<1>1. MCInit => which \in Component
  BY DEF MCInit
<1>2. which \in Component /\ [MCNext]_all => (which \in Component)'
  BY DEF MCNext, Uploads, Streams, Serves, all
<1>3. MCSpec => [](which \in Component)
  BY <1>1, <1>2, PTL DEF MCSpec
<1> QED
  BY <1>3, ServerStateComposed, TypeCorrect, PresenceTypeCorrect, SfuTypeCorrect, PTL DEF TypesOK
=============================================================================
