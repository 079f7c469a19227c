-------------------------- MODULE SignalRoom_proofs --------------------------
(***************************************************************************)
(* Theorems about SignalRoom, for any number of accounts, tabs and         *)
(* connections, any length of the queues, and any number of signals and    *)
(* restarts.                                                               *)
(***************************************************************************)
EXTENDS SignalRoom, SequenceTheorems, FunctionTheorems, FiniteSetTheorems, TLAPS

-----------------------------------------------------------------------------
(* What a queue says about a peer                                          *)

About(q, p) == {i \in DOMAIN q : q[i].from = p /\ q[i].type \in {"joined", "left"}}

(* Whether the owner of queue q holds p for present in the end, when it    *)
(* does so before.                                                         *)
Known(q, before, p) ==
  IF About(q, p) = {} THEN before
  ELSE \E i \in About(q, p) : q[i].type = "joined" /\ \A j \in About(q, p) : j <= i

LEMMA KnowsIsKnown ==
  ASSUME NEW c, NEW p
  PROVE  Knows(c, p) <=> Known(queue[c], p \in told[PeerOf(c)], p)
BY DEF Knows, Known, About

(* A queue is handled from its head: what it says is what its second part  *)
(* makes of what its first part says.                                      *)
LEMMA KnownInTurn ==
  ASSUME NEW q \in Seq(Message), NEW ms \in Seq(Message), NEW before, NEW p
  PROVE  Known(q \o ms, before, p) <=> Known(ms, Known(q, before, p), p)
<1> DEFINE all == q \o ms
           n == Len(q)
<1>1. /\ n \in Nat /\ Len(ms) \in Nat
      /\ DOMAIN q = 1 .. n /\ DOMAIN ms = 1 .. Len(ms) /\ DOMAIN all = 1 .. (n + Len(ms))
      /\ \A i \in 1 .. n : all[i] = q[i]
      /\ \A i \in 1 .. Len(ms) : all[n + i] = ms[i]
  <2>1. \A i \in 1 .. (n + Len(ms)) : all[i] = IF i <= n THEN q[i] ELSE ms[i - n]
    BY ConcatProperties
  <2>2. n \in Nat /\ Len(ms) \in Nat /\ DOMAIN q = 1 .. n /\ DOMAIN ms = 1 .. Len(ms)
    BY LenProperties
  <2>3. all \in Seq(Message) /\ Len(all) = n + Len(ms)
    BY ConcatProperties
  <2>4. DOMAIN all = 1 .. (n + Len(ms))
    BY <2>3, LenProperties
  <2> HIDE DEF all, n
  <2>5. \A i \in 1 .. n : all[i] = q[i]
    BY <2>1, <2>2
  <2>6. ASSUME NEW i \in 1 .. Len(ms) PROVE all[n + i] = ms[i]
    <3>1. PICK k \in 1 .. (n + Len(ms)) : k = n + i /\ ~(k <= n) /\ k - n = i
      BY <2>2
    <3> QED BY <3>1, <2>1
  <2> QED BY <2>2, <2>4, <2>5, <2>6
<1> HIDE DEF all, n
<1>2. \A i \in 1 .. n : i \in About(all, p) <=> i \in About(q, p)
  BY <1>1 DEF About
<1>3. \A i \in 1 .. Len(ms) : n + i \in About(all, p) <=> i \in About(ms, p)
  BY <1>1 DEF About
<1>4. \A i \in About(all, p) : i \in 1 .. n \/ \E j \in 1 .. Len(ms) : i = n + j
  <2> SUFFICES ASSUME NEW i \in 1 .. (n + Len(ms)), i \notin 1 .. n
               PROVE  \E j \in 1 .. Len(ms) : i = n + j
    BY <1>1 DEF About
  <2>1. i - n \in 1 .. Len(ms) /\ i = n + (i - n)
    BY <1>1
  <2> QED BY <2>1
<1>5. About(q, p) \subseteq 1 .. n /\ About(ms, p) \subseteq 1 .. Len(ms)
  BY <1>1 DEF About
<1>6. CASE About(ms, p) = {}
  <2>1. About(all, p) = About(q, p)
    BY <1>2, <1>3, <1>4, <1>5, <1>6
  <2>2. \A i \in About(q, p) : all[i] = q[i]
    BY <1>1, <1>5
  <2> QED BY <2>1, <2>2, <1>6 DEF Known, all
<1>7. CASE About(ms, p) # {}
  <2>1. PICK k \in About(ms, p) : TRUE
    BY <1>7
  <2>2. n + k \in About(all, p) /\ k \in 1 .. Len(ms)
    BY <2>1, <1>3, <1>5
  <2>3. ASSUME NEW i \in About(all, p), all[i].type = "joined",
               \A j \in About(all, p) : j <= i
        PROVE  \E m \in About(ms, p) : ms[m].type = "joined" /\ \A j \in About(ms, p) : j <= m
    <3>1. i \notin 1 .. n
      BY <2>2, <2>3, <1>1
    <3>2. PICK m \in 1 .. Len(ms) : i = n + m
      BY <3>1, <1>4, <2>3
    <3>3. m \in About(ms, p) /\ ms[m].type = "joined"
      BY <3>2, <1>1, <1>3, <2>3
    <3>4. ASSUME NEW j \in About(ms, p) PROVE j <= m
      <4>1. j \in 1 .. Len(ms) /\ n + j \in About(all, p)
        BY <1>3, <1>5
      <4>2. n + j <= n + m
        BY <4>1, <2>3, <3>2
      <4> QED BY <4>1, <4>2, <1>1
    <3> QED BY <3>3, <3>4
  <2>4. ASSUME NEW m \in About(ms, p), ms[m].type = "joined", \A j \in About(ms, p) : j <= m
        PROVE  \E i \in About(all, p) : all[i].type = "joined" /\ \A j \in About(all, p) : j <= i
    <3>1. m \in 1 .. Len(ms) /\ n + m \in About(all, p) /\ all[n + m].type = "joined"
      BY <2>4, <1>1, <1>3, <1>5
    <3>2. ASSUME NEW j \in About(all, p) PROVE j <= n + m
      <4>1. CASE j \in 1 .. n
        BY <4>1, <3>1, <1>1
      <4>2. CASE \E a \in 1 .. Len(ms) : j = n + a
        <5>1. PICK a \in 1 .. Len(ms) : j = n + a
          BY <4>2
        <5>2. a <= m
          BY <5>1, <1>3, <2>4, <3>2
        <5> QED BY <5>1, <5>2, <3>1, <1>1
      <4> QED BY <4>1, <4>2, <1>4
    <3> QED BY <3>1, <3>2
  <2>5. About(all, p) # {}
    BY <2>2
  <2> QED BY <2>3, <2>4, <2>5, <1>7 DEF Known, all
<1> QED BY <1>6, <1>7

(* One message.                                                            *)
LEMMA KnownOne ==
  ASSUME NEW m \in Message, NEW before, NEW p
  PROVE  Known(<<m>>, before, p)
           <=> IF m.from = p /\ m.type \in {"joined", "left"} THEN m.type = "joined" ELSE before
<1>1. DOMAIN <<m>> = {1} /\ <<m>>[1] = m
  OBVIOUS
<1>2. About(<<m>>, p) = IF m.from = p /\ m.type \in {"joined", "left"} THEN {1} ELSE {}
  BY <1>1 DEF About
<1> QED BY <1>1, <1>2 DEF Known

-----------------------------------------------------------------------------
(* Departures names the peers that are gone, each of them once.            *)
LEMMA DeparturesProperties ==
  ASSUME NEW gone, NEW p, PeersIn(gone) \subseteq Peer, IsFiniteSet(PeersIn(gone)),
         NEW before, NEW q
  PROVE  /\ Departures(gone, p) \in Seq(Message)
         /\ Known(Departures(gone, p), before, q)
              <=> (before /\ q \notin PeersIn(gone) \ {p})
<1> DEFINE left == PeersIn(gone) \ {p}
           n == Cardinality(left)
           Listing(s) == \A i, j \in DOMAIN s : s[i] = s[j] => i = j
           order == CHOOSE s \in [1 .. n -> left] : Listing(s)
           news == [i \in 1 .. n |-> [type |-> "left", from |-> order[i]]]
<1>1. Departures(gone, p) = news
  BY DEF Departures, PeersIn
<1>2. IsFiniteSet(left) /\ n \in Nat /\ ExistsBijection(1 .. n, left)
  <2>1. IsFiniteSet(left)
    BY FS_Subset, left \in SUBSET PeersIn(gone)
  <2> HIDE DEF left
  <2> QED BY <2>1, FS_CardinalityType
<1> HIDE DEF left, n
<1>3. \E s \in [1 .. n -> left] : Listing(s)
  <2>1. PICK f : f \in Bijection(1 .. n, left)
    BY <1>2, Fun_ExistsBij
  <2>2. f \in [1 .. n -> left] /\ f \in Injection(1 .. n, left)
    BY <2>1, Fun_BijectionProperties
  <2>3. \A i, j \in 1 .. n : f[i] = f[j] => i = j
    BY <2>2, Fun_InjectionProperties
  <2>4. Listing(f)
    BY <2>2, <2>3
  <2> QED BY <2>2, <2>4
<1>4. order \in [1 .. n -> left] /\ Listing(order)
  <2> HIDE DEF Listing
  <2> QED BY <1>3
<1> HIDE DEF order
<1>5. \A t \in left : \E i \in 1 .. n : order[i] = t
  <2>1. order \in Injection(1 .. n, left)
    BY <1>4, Fun_IsInj
  <2>2. IsFiniteSet(1 .. n) /\ Cardinality(1 .. n) = n
    BY <1>2, FS_Interval
  <2>3. order \in Surjection(1 .. n, left)
    BY <2>1, <2>2, <1>2, FS_Injection DEF n
  <2> QED BY <2>3 DEF Surjection
<1>6. news \in Seq(Message) /\ DOMAIN news = 1 .. n
  <2>1. \A i \in 1 .. n : [type |-> "left", from |-> order[i]] \in Message
    BY <1>4 DEF left, Message
  <2> QED BY <2>1, <1>2, IsASeq
<1>7. \A i \in 1 .. n : news[i].type = "left" /\ news[i].from = order[i]
  OBVIOUS
<1> HIDE DEF news
<1>8. About(news, q) = {i \in 1 .. n : order[i] = q}
  BY <1>6, <1>7 DEF About
<1>9. About(news, q) = {} <=> q \notin left
  BY <1>8, <1>5, <1>4
<1>10. \A i \in About(news, q) : news[i].type # "joined"
  BY <1>8, <1>7
<1>11. Known(news, before, q) <=> (before /\ q \notin left)
  BY <1>9, <1>10 DEF Known
<1> QED BY <1>1, <1>6, <1>11 DEF left

(* What Deliver does to the queues: a target that takes the messages and   *)
(* does not overflow has them all, behind what it had.                     *)
LEMMA Delivered ==
  ASSUME TypeOK, NEW targets, NEW ms \in Seq(Message), Deliver(targets, ms)
  PROVE  /\ queue' \in [Conn -> Seq(Message)]
         /\ \A t \in Conn : Len(queue'[t]) <= SignalQueue
         /\ overflowed' \in [Conn -> BOOLEAN]
         /\ \A t \in Conn : overflowed[t] => overflowed'[t]
         /\ \A t \in Conn \ Takes(targets) : queue'[t] = queue[t]
         /\ \A t \in Conn \cap Takes(targets) : ~overflowed'[t] => queue'[t] = queue[t] \o ms
<1>1. /\ queue \in [Conn -> Seq(Message)] /\ overflowed \in [Conn -> BOOLEAN]
      /\ \A t \in Conn : Len(queue[t]) <= SignalQueue
  BY DEF TypeOK
<1>2. /\ queue' = [t \in Conn |-> IF t \in Takes(targets) THEN Queued(queue[t], ms) ELSE queue[t]]
      /\ overflowed' = [t \in Conn |-> overflowed[t] \/ t \in Overflowing(targets, ms)]
  BY DEF Deliver
<1>3. SignalQueue \in Nat
  BY SignalRoomAssumption
<1>4. ASSUME NEW t \in Conn
      PROVE  /\ Queued(queue[t], ms) \in Seq(Message)
             /\ Len(Queued(queue[t], ms)) <= SignalQueue
             /\ Len(ms) <= Spare(queue[t]) => Queued(queue[t], ms) = queue[t] \o ms
  <2> DEFINE q == queue[t]
             k == IF Len(ms) <= Spare(q) THEN Len(ms) ELSE Spare(q)
  <2>1. q \in Seq(Message) /\ Len(q) \in Nat /\ Len(ms) \in Nat /\ Len(q) <= SignalQueue
    BY <1>1, LenProperties
  <2>2. k \in Nat /\ k <= Len(ms) /\ k <= SignalQueue - Len(q)
    <3>1. PICK n \in Nat : n = Len(q)
      BY <2>1
    <3>2. PICK m \in Nat : m = Len(ms)
      BY <2>1
    <3>3. Spare(q) = SignalQueue - n /\ n <= SignalQueue
      BY <2>1, <3>1 DEF Spare
    <3>4. k = IF m <= SignalQueue - n THEN m ELSE SignalQueue - n
      BY <3>2, <3>3
    <3> HIDE DEF k
    <3>5. k \in Nat /\ k <= m /\ k <= SignalQueue - n
      BY <3>3, <3>4, <1>3
    <3> QED BY <3>1, <3>2, <3>5
  <2>3. Queued(q, ms) = q \o SubSeq(ms, 1, k)
    BY DEF Queued
  <2>4. Len(ms) <= Spare(q) => k = Len(ms)
    OBVIOUS
  <2> HIDE DEF k, q
  <2>5. SubSeq(ms, 1, k) \in Seq(Message) /\ Len(SubSeq(ms, 1, k)) = k
    <3>1. \A i \in 1 .. k : ms[i] \in Message
      BY <2>1, <2>2, ElementOfSeq
    <3> QED BY <3>1, <2>2, SubSeqProperties
  <2>6. q \o SubSeq(ms, 1, k) \in Seq(Message)
    BY <2>1, <2>5, ConcatProperties
  <2>7. Len(q \o SubSeq(ms, 1, k)) = Len(q) + k
    BY <2>1, <2>5, ConcatProperties
  <2>8. Len(q) + k <= SignalQueue
    BY <2>1, <2>2, <1>3
  <2>9. SubSeq(ms, 1, Len(ms)) = ms
    BY SubSeqFull
  <2>10. Len(ms) <= Spare(q) => Queued(q, ms) = q \o ms
    BY <2>3, <2>4, <2>9
  <2>11. Queued(q, ms) \in Seq(Message) /\ Len(Queued(q, ms)) <= SignalQueue
    BY <2>3, <2>6, <2>7, <2>8
  <2> QED BY <2>10, <2>11 DEF q
<1>5. queue' \in [Conn -> Seq(Message)]
  BY <1>1, <1>2, <1>4
<1>6. \A t \in Conn : Len(queue'[t]) <= SignalQueue
  BY <1>1, <1>2, <1>4
<1>7. \A t \in Conn \cap Takes(targets) : ~overflowed'[t] => queue'[t] = queue[t] \o ms
  <2> SUFFICES ASSUME NEW t \in Conn, t \in Takes(targets), ~overflowed'[t]
               PROVE  queue'[t] = queue[t] \o ms
    OBVIOUS
  <2>1. ~overflowed[t] /\ t \notin Overflowing(targets, ms)
    BY <1>2
  <2>2. ~(Len(ms) > Spare(queue[t]))
    BY <2>1 DEF Overflowing
  <2>3. Len(ms) \in Nat /\ Spare(queue[t]) \in Int
    BY <1>1, <1>3, LenProperties DEF Spare
  <2>4. Len(ms) <= Spare(queue[t])
    BY <2>2, <2>3
  <2> QED BY <2>4, <1>2, <1>4
<1>8. /\ overflowed' \in [Conn -> BOOLEAN]
      /\ \A t \in Conn : overflowed[t] => overflowed'[t]
      /\ \A t \in Conn \ Takes(targets) : queue'[t] = queue[t]
  BY <1>1, <1>2
<1> QED BY <1>5, <1>6, <1>7, <1>8

-----------------------------------------------------------------------------
(* Where connections are                                                   *)

(* Every connection that has registered belongs to this call, one peer id  *)
(* has one connection in it, and nothing waits for one that has not        *)
(* registered yet.                                                         *)
Placed ==
  /\ \A c \in Conn : stage[c] = "new" <=> client[c] = None
  /\ \A c \in Conn : stage[c] = "new" => queue[c] = <<>> /\ relaying[c] = None
  /\ \A c \in Conn : client[c] # None => RoomOf(c) = Call
  /\ \A c \in Members \cup departing \cup kicked : client[c] # None
  /\ IsFiniteSet(PeersIn(Members))
  /\ \A c, d \in Members : PeerOf(c) = PeerOf(d) => c = d

(* A client that has registered is one (TypeOK, Placed).                   *)
LEMMA PeerType ==
  ASSUME TypeOK, NEW c \in Conn, client[c] # None
  PROVE  PeerOf(c) \in Peer /\ client[c] \in Client
<1>1. client[c] \in Client
  BY DEF TypeOK, RegistryTypeOK
<1> QED BY <1>1 DEF Client, PeerOf

LEMMA SomePeers ==
  ASSUME TypeOK, Placed, NEW S \in SUBSET Members
  PROVE  /\ PeersIn(S) \subseteq Peer /\ PeersIn(S) \subseteq PeersIn(Members)
         /\ IsFiniteSet(PeersIn(S)) /\ S \subseteq Conn
<1>1. Members \subseteq Conn
  BY SignalRoomAssumption DEF TypeOK, RegistryTypeOK, Members
<1>2. \A c \in S : PeerOf(c) \in Peer
  BY <1>1, PeerType DEF Placed
<1>3. PeersIn(S) \subseteq Peer /\ PeersIn(S) \subseteq PeersIn(Members)
  BY <1>2 DEF PeersIn
<1>4. IsFiniteSet(PeersIn(S))
  BY <1>3, FS_Subset DEF Placed
<1> QED BY <1>1, <1>3, <1>4

(* The browser that loses its socket keeps the types.                      *)
LEMMA LosesSocket ==
  ASSUME TypeOK, NEW c, NEW code, LoseSocket(c, code)
  PROVE  /\ phase' \in [Peer -> {"new", "live", "down", "ended"}]
         /\ sock' \in [Peer -> Conn \cup {None}]
         /\ told' \in [Peer -> SUBSET Peer] /\ view' \in [Peer -> SUBSET Peer]
         /\ late' \subseteq Peer \X Peer
<1> USE DEF TypeOK
<1>1. CASE Attached(c)
  BY <1>1 DEF LoseSocket
<1>2. CASE ~Attached(c)
  BY <1>2 DEF LoseSocket, browserVars
<1> QED BY <1>1, <1>2

LEMMA VoicesType ==
  ASSUME TypeOK, NEW S, NEW u
  PROVE  /\ VoicesWithout(Call, S) \in [Peer -> Voice \cup {None}]
         /\ VoicesWithoutUser(Call, u) \in [Peer -> Voice \cup {None}]
BY SignalRoomAssumption DEF TypeOK, RegistryTypeOK, VoicesWithout, VoicesWithoutUser

(* Whoever is removed leaves the members for the departing.                *)
LEMMA Removed ==
  ASSUME TypeOK, Placed, NEW c \in Conn, client[c] # None, Remove(c)
  PROVE  /\ rooms' \in [Room -> SUBSET Conn]
         /\ voices' \in [Room -> [Peer -> Voice \cup {None}]]
         /\ Members' = Members \ {c}
         /\ departing' = departing \cup (Members \cap {c})
<1>1. RoomOf(c) = Call /\ Call \in Room
  BY SignalRoomAssumption DEF Placed
<1>2. /\ rooms \in [Room -> SUBSET Conn] /\ voices \in [Room -> [Peer -> Voice \cup {None}]]
      /\ VoicesWithout(Call, {c}) \in [Peer -> Voice \cup {None}]
      /\ NoVoices \in [Peer -> Voice \cup {None}]
  BY VoicesType DEF TypeOK, RegistryTypeOK, NoVoices
<1>3. InCall(c) <=> c \in rooms[Call]
  BY <1>1 DEF InCall
<1>4. CASE c \in rooms[Call]
  <2>1. /\ rooms' = [rooms EXCEPT ![Call] = @ \ {c}]
        /\ voices' = [voices EXCEPT ![Call] =
                        IF rooms[Call] = {c} THEN NoVoices ELSE VoicesWithout(Call, {c})]
        /\ departing' = departing \cup {c}
    BY <1>1, <1>3, <1>4 DEF Remove, RemoveClient
  <2> QED BY <2>1, <1>1, <1>2, <1>4 DEF Members
<1>5. CASE c \notin rooms[Call]
  <2>1. UNCHANGED <<rooms, voices, departing>>
    BY <1>1, <1>3, <1>5 DEF Remove, RemoveClient
  <2> QED BY <2>1, <1>2, <1>5 DEF Members
<1> QED BY <1>4, <1>5

(* A step that registers nobody keeps everybody in place.                  *)
LEMMA StaysPlaced ==
  ASSUME TypeOK, Placed, client' = client,
         \A c \in Conn : stage'[c] = "new" <=> stage[c] = "new",
         \A c \in Conn : stage[c] = "new" => queue'[c] = <<>> /\ relaying'[c] = None,
         Members' \subseteq Members,
         departing' \cup kicked' \subseteq Members \cup departing \cup kicked
  PROVE  Placed'
<1>1. /\ \A c : PeerOf(c)' = PeerOf(c)
      /\ \A c : RoomOf(c)' = RoomOf(c)
  BY DEF PeerOf, RoomOf
<1>2. IsFiniteSet(PeersIn(Members)')
  <2>1. PeersIn(Members)' \subseteq PeersIn(Members)
    BY <1>1 DEF PeersIn
  <2> QED BY <2>1, FS_Subset DEF Placed
<1>3. \A c \in Conn : client'[c] # None => RoomOf(c)' = Call
  BY <1>1 DEF Placed
<1>4. \A c \in (Members \cup departing \cup kicked)' : client'[c] # None
  BY DEF Placed
<1>5. \A c, d \in Members' : PeerOf(c)' = PeerOf(d)' => c = d
  BY <1>1 DEF Placed
<1>6. /\ \A c \in Conn : stage'[c] = "new" <=> client'[c] = None
      /\ \A c \in Conn : stage'[c] = "new" => queue'[c] = <<>> /\ relaying'[c] = None
  BY DEF Placed
<1> QED BY <1>2, <1>3, <1>4, <1>5, <1>6 DEF Placed

(* Messages for members do not reach who has not registered.               *)
LEMMA NothingForTheNew ==
  ASSUME TypeOK, Placed, NEW targets, NEW ms \in Seq(Message), Deliver(targets, ms),
         NEW c \in Conn, stage[c] = "new", \A t \in targets : t \in Conn => client[t] # None
  PROVE  queue'[c] = <<>>
<1>1. c \notin Takes(targets)
  BY DEF Placed, Takes
<1> QED BY <1>1, Delivered DEF Placed

LEMMA AfterDeliveryType ==
  ASSUME TypeOK, NEW targets, NEW ms
  PROVE  AfterDelivery(targets, ms) \in [Conn -> SUBSET CloseCode]
BY DEF TypeOK, AfterDelivery, CloseCode

(* A registration replaces the other devices it should, and nobody else in *)
(* the room has its peer id (addWithMode).                                 *)
LEMMA Registered ==
  ASSUME TypeOK, Placed, NEW p \in Peer, NEW c \in Conn, NEW replace \in BOOLEAN,
         stage[c] = "new", AddWithMode(c, Identity(p), replace)
  PROVE  LET gone == Replaced(Identity(p), replace) IN
         /\ gone \subseteq Members /\ c \notin Members \cup departing \cup kicked
         /\ client' = [client EXCEPT ![c] = Identity(p)] /\ Identity(p) \in Client
         /\ RegistryTypeOK'
         /\ Members' = (Members \ gone) \cup {c}
         /\ \A e \in Members \ gone : PeerOf(e) # p
         /\ revoked' = [e \in Conn |-> revoked[e] \/ e \in gone]
<1> DEFINE k == Identity(p)
           gone == Replaced(k, replace)
<1>1. k.room = Call /\ k.peer = p /\ k \in Client /\ Call \in Room
  BY SignalRoomAssumption DEF Identity, Client
<1>2. gone = {e \in Members : UserOf(e) = SessionUser[k.session] /\ (PeerOf(e) = p \/ replace)}
  BY <1>1 DEF Replaced, Members
<1>3. ~\E e \in Members : PeerOf(e) = p /\ UserOf(e) # SessionUser[k.session]
  BY <1>1 DEF AddWithMode, PeerTaken, Members
<1>4. /\ client' = [client EXCEPT ![c] = k]
      /\ rooms' = [rooms EXCEPT ![Call] = (@ \ gone) \cup {c}]
      /\ revoked' = [e \in Conn |-> revoked[e] \/ e \in gone]
      /\ voices' = [voices EXCEPT ![Call] = VoicesWithout(Call, gone)]
      /\ owner' = owner
  BY <1>1 DEF AddWithMode
<1>5. c \notin Members \cup departing \cup kicked
  BY DEF Placed
<1> HIDE DEF gone, k
<1>6. RegistryTypeOK'
  <2>1. /\ client \in [Conn -> Client \cup {None}] /\ rooms \in [Room -> SUBSET Conn]
        /\ revoked \in [Conn -> BOOLEAN] /\ owner \in [Voice -> Conn \cup {None}]
        /\ voices \in [Room -> [Peer -> Voice \cup {None}]]
    BY DEF TypeOK, RegistryTypeOK
  <2>2. VoicesWithout(Call, gone) \in [Peer -> Voice \cup {None}]
    BY VoicesType
  <2>3. voices' \in [Room -> [Peer -> Voice \cup {None}]]
    BY <2>1, <2>2, <1>4
  <2>4. client' \in [Conn -> Client \cup {None}]
    BY <2>1, <1>1, <1>4
  <2>5. rooms' \in [Room -> SUBSET Conn]
    BY <2>1, <1>4
  <2>6. revoked' \in [Conn -> BOOLEAN] /\ owner' \in [Voice -> Conn \cup {None}]
    BY <2>1, <1>4
  <2> QED BY <2>3, <2>4, <2>5, <2>6 DEF RegistryTypeOK
<1>7. Members' = (Members \ gone) \cup {c}
  BY <1>1, <1>4 DEF Members, TypeOK, RegistryTypeOK
<1>8. \A e \in Members \ gone : PeerOf(e) # p
  BY <1>2, <1>3
<1> QED BY <1>1, <1>2, <1>4, <1>5, <1>6, <1>7, <1>8 DEF gone, k

(* What a registration tells the others.                                   *)
LEMMA RegisterNews ==
  ASSUME TypeOK, Placed, NEW p \in Peer, NEW gone, gone \subseteq Members, NEW resumed
  PROVE  Departures(gone, p) \o (IF resumed THEN <<>> ELSE <<[type |-> "joined", from |-> p]>>)
           \in Seq(Message)
<1>1. Departures(gone, p) \in Seq(Message)
  BY SomePeers, DeparturesProperties
<1>2. <<>> \in Seq(Message)
  BY EmptySeq
<1>3. [type |-> "joined", from |-> p] \in Message
  BY DEF Message
<1>4. <<[type |-> "joined", from |-> p]>> \in Seq(Message)
  BY <1>3
<1> QED BY <1>1, <1>2, <1>4, ConcatProperties

LEMMA RegisterStep ==
  ASSUME TypeOK, Placed, NEW p \in Peer, NEW c \in Conn, NEW replace \in BOOLEAN,
         Register(p, c, replace)
  PROVE  TypeOK' /\ Placed'
<1> DEFINE gone == Replaced(Identity(p), replace)
           others == Members \ gone
           resumed == Resumed(p, gone)
           news == Departures(gone, p) \o
                   (IF resumed THEN <<>> ELSE <<[type |-> "joined", from |-> p]>>)
<1>1. /\ stage[c] = "new" /\ AddWithMode(c, Identity(p), replace)
      /\ stage' = [stage EXCEPT ![c] = "registered"]
      /\ Deliver(others, news)
      /\ closing' = [e \in Conn |-> AfterDelivery(others, news)[e] \cup
                                    IF e \in gone /\ Attached(e) THEN {"policy"} ELSE {}]
      /\ told' = [told EXCEPT ![p] = PeersIn(others)]
      /\ late' = IF resumed THEN late ELSE late \ (Peer \X {p})
      /\ evicted' = evicted \cup (PeersIn({e \in gone : Attached(e)}) \ {p})
      /\ phase' = [phase EXCEPT ![p] = "live"]
      /\ sock' = [sock EXCEPT ![p] = c]
      /\ UNCHANGED <<member, kicked, departing, relaying, relayed, restarts, view>>
  BY DEF Register
<1>2. /\ gone \subseteq Members /\ c \notin Members \cup departing \cup kicked
      /\ client' = [client EXCEPT ![c] = Identity(p)] /\ Identity(p) \in Client
      /\ RegistryTypeOK'
      /\ Members' = (Members \ gone) \cup {c}
      /\ \A e \in Members \ gone : PeerOf(e) # p
  BY <1>1, Registered
<1>3. news \in Seq(Message)
  BY <1>2, RegisterNews
<1> HIDE DEF gone, news, resumed
<1>4. /\ PeersIn(others) \subseteq Peer /\ PeersIn({e \in gone : Attached(e)}) \subseteq Peer
      /\ PeersIn(others) \subseteq PeersIn(Members)
  <2>1. others \in SUBSET Members /\ {e \in gone : Attached(e)} \in SUBSET Members
    BY <1>2
  <2> HIDE DEF others
  <2> QED BY <2>1, SomePeers
<1>5. /\ queue' \in [Conn -> Seq(Message)]
      /\ \A t \in Conn : Len(queue'[t]) <= SignalQueue
      /\ overflowed' \in [Conn -> BOOLEAN]
  BY <1>1, <1>3, Delivered
<1>6. AfterDelivery(others, news) \in [Conn -> SUBSET CloseCode]
  BY AfterDeliveryType
<1>7. TypeOK'
  <2>1. closing' \in [Conn -> SUBSET CloseCode]
    BY <1>1, <1>6 DEF CloseCode
  <2> QED BY <1>1, <1>2, <1>4, <1>5, <2>1 DEF TypeOK
<1>8. /\ Identity(p).peer = p /\ Identity(p).room = Call /\ Identity(p) # None
      /\ client'[c] = Identity(p) /\ \A e \in Conn \ {c} : client'[e] = client[e]
  BY <1>2, RegistryAssumption DEF Identity, TypeOK, RegistryTypeOK
<1>9. /\ PeerOf(c)' = p /\ RoomOf(c)' = Call
      /\ \A e \in Conn \ {c} : PeerOf(e)' = PeerOf(e) /\ RoomOf(e)' = RoomOf(e)
  BY <1>8 DEF PeerOf, RoomOf
<1>10. Members \subseteq Conn /\ departing \subseteq Conn /\ kicked \subseteq Conn
  BY SignalRoomAssumption DEF TypeOK, RegistryTypeOK, Members
<1>11. Placed'
  <2>1. \A e \in Conn : stage'[e] = "new" <=> client'[e] = None
    BY <1>1, <1>8 DEF TypeOK, Placed
  <2>2. \A e \in Conn : stage'[e] = "new" => queue'[e] = <<>> /\ relaying'[e] = None
    <3> SUFFICES ASSUME NEW e \in Conn, stage'[e] = "new"
                 PROVE  queue'[e] = <<>> /\ relaying'[e] = None
      OBVIOUS
    <3>1. stage[e] = "new"
      BY <1>1 DEF TypeOK
    <3>2. \A t \in others : t \in Conn => client[t] # None
      BY DEF Placed
    <3>3. queue'[e] = <<>>
      BY <3>1, <3>2, <1>1, <1>3, NothingForTheNew
    <3> QED BY <3>1, <3>3, <1>1 DEF Placed
  <2>3. \A e \in Conn : client'[e] # None => RoomOf(e)' = Call
    BY <1>8, <1>9 DEF Placed
  <2>4. \A e \in (Members \cup departing \cup kicked)' : client'[e] # None
    BY <1>1, <1>2, <1>8, <1>10 DEF Placed
  <2>5. IsFiniteSet(PeersIn(Members)')
    <3>1. PeersIn(Members)' \subseteq PeersIn(Members) \cup {p}
      BY <1>2, <1>9, <1>10 DEF PeersIn
    <3>2. IsFiniteSet(PeersIn(Members) \cup {p})
      BY FS_AddElement DEF Placed
    <3> QED BY <3>1, <3>2, FS_Subset
  <2>6. \A e, d \in Members' : PeerOf(e)' = PeerOf(d)' => e = d
    BY <1>2, <1>9, <1>10 DEF Placed
  <2> QED BY <2>1, <2>2, <2>3, <2>4, <2>5, <2>6 DEF Placed
<1> QED BY <1>7, <1>11

(* Every step keeps the types and the places.                              *)
LEMMA TypeStep ==
  ASSUME TypeOK, Placed, [Next]_vars
  PROVE  TypeOK' /\ Placed'
<1> USE DEF TypeOK, RegistryTypeOK
<1>0. /\ Members \subseteq Conn /\ departing \subseteq Conn /\ kicked \subseteq Conn
      /\ Call \in Room /\ None \notin Conn
  BY SignalRoomAssumption, RegistryAssumption DEF Members
<1>1. ASSUME NEW p \in Peer, NEW c \in Conn, NEW replace \in BOOLEAN, Join(p, c, replace)
      PROVE  TypeOK' /\ Placed'
  BY <1>1, RegisterStep DEF Join
<1>2. ASSUME NEW p \in Peer, NEW c \in Conn, Resume(p, c)
      PROVE  TypeOK' /\ Placed'
  BY <1>2, RegisterStep DEF Resume
<1>3. ASSUME NEW p \in Peer, NEW c \in Conn, CheckSender(c, p)
      PROVE  TypeOK' /\ Placed'
  <2>1. TypeOK'
    BY <1>3, SignalRoomAssumption DEF CheckSender, registryVars, browserVars, historyVars
  <2>2. Placed'
    BY <1>3, StaysPlaced DEF CheckSender, Members, Placed, registryVars
  <2> QED BY <2>1, <2>2
<1>4. ASSUME NEW c \in Conn, SendSnapshot(c)
      PROVE  TypeOK' /\ Placed'
  <2>1. TypeOK'
    BY <1>4 DEF SendSnapshot, registryVars, historyVars
  <2>2. Placed'
    BY <1>4, StaysPlaced DEF SendSnapshot, Members, Placed, registryVars
  <2> QED BY <2>1, <2>2
<1>5. ASSUME NEW c \in Conn, Drain(c)
      PROVE  TypeOK' /\ Placed'
  <2>1. /\ queue[c] \in Seq(Message) /\ queue[c] # <<>> /\ stage[c] # "new"
        /\ queue' = [queue EXCEPT ![c] = Tail(queue[c])]
    BY <1>5 DEF Drain
  <2>2. /\ Tail(queue[c]) \in Seq(Message) /\ Head(queue[c]) \in Message
        /\ Len(Tail(queue[c])) <= SignalQueue
    <3>1. /\ Tail(queue[c]) \in Seq(Message) /\ Head(queue[c]) \in Message
          /\ Len(Tail(queue[c])) = Len(queue[c]) - 1 /\ Len(queue[c]) \in Nat
      BY <2>1, HeadTailProperties, LenProperties
    <3> QED BY <3>1, SignalRoomAssumption
  <2>3. PeerOf(c) \in Peer
    BY <1>5, PeerType DEF Drain, Attached
  <2>4. /\ told' \in [Peer -> SUBSET Peer] /\ view' \in [Peer -> SUBSET Peer]
    <3>1. \A S \in SUBSET Peer : Apply(Head(queue[c]), S, PeerOf(c)) \in SUBSET Peer
      BY <2>2 DEF Apply, Message
    <3> QED BY <3>1, <2>3, <1>5 DEF Drain
  <2>5. TypeOK'
    <3>1. queue' \in [Conn -> Seq(Message)] /\ \A t \in Conn : Len(queue'[t]) <= SignalQueue
      BY <2>1, <2>2
    <3> QED BY <3>1, <2>4, <1>5 DEF Drain, registryVars, historyVars
  <2>6. Placed'
    BY <1>5, <2>1, StaysPlaced DEF Drain, Members, Placed, registryVars
  <2> QED BY <2>5, <2>6
<1>6. ASSUME NEW c \in Conn, HandlerExit(c)
      PROVE  TypeOK' /\ Placed'
  <2>1. /\ stage[c] # "new" /\ client[c] # None /\ Remove(c) /\ LoseSocket(c, "retry")
        /\ stage' = [stage EXCEPT ![c] = "done"] /\ queue' = [queue EXCEPT ![c] = <<>>]
        /\ closing' = [closing EXCEPT ![c] = {}]
        /\ UNCHANGED <<client, revoked, owner, member, overflowed, kicked, relaying, relayed,
                       restarts, evicted>>
    BY <1>6 DEF HandlerExit, Placed
  <2>2. /\ rooms' \in [Room -> SUBSET Conn] /\ voices' \in [Room -> [Peer -> Voice \cup {None}]]
        /\ Members' = Members \ {c} /\ departing' = departing \cup (Members \cap {c})
    BY <2>1, Removed
  <2>3. <<>> \in Seq(Message) /\ Len(<<>>) <= SignalQueue
    BY EmptySeq, SignalRoomAssumption
  <2>4. queue' \in [Conn -> Seq(Message)] /\ \A t \in Conn : Len(queue'[t]) <= SignalQueue
    BY <2>1, <2>3
  <2>5. /\ phase' \in [Peer -> {"new", "live", "down", "ended"}]
        /\ sock' \in [Peer -> Conn \cup {None}]
        /\ told' \in [Peer -> SUBSET Peer] /\ view' \in [Peer -> SUBSET Peer]
        /\ late' \subseteq Peer \X Peer
    BY <2>1, LosesSocket
  <2>6. TypeOK'
    BY <2>1, <2>2, <2>4, <2>5, <1>0
  <2>7. Placed'
    BY <2>1, <2>2, StaysPlaced DEF Placed
  <2> QED BY <2>6, <2>7
<1>7. ASSUME NEW c \in Conn, BroadcastLeft(c)
      PROVE  TypeOK' /\ Placed'
  <2> DEFINE targets == Members \ {c}
             left == <<[type |-> "left", from |-> PeerOf(c)]>>
  <2>1. /\ c \in departing /\ departing' = departing \ {c} /\ Deliver(targets, left)
        /\ closing' = AfterDelivery(targets, left)
        /\ UNCHANGED <<registryVars, member, stage, kicked, relaying, relayed, restarts,
                       browserVars, evicted>>
        /\ late' = IF PeerOf(c) \in PeersIn(Members)
                   THEN late \cup ({q \in Peer : sock[q] \in Takes(targets)} \X {PeerOf(c)})
                   ELSE late
    BY <1>7 DEF BroadcastLeft
  <2>2. PeerOf(c) \in Peer
    BY <2>1, PeerType DEF Placed
  <2>3. left \in Seq(Message)
    BY <2>2 DEF Message
  <2>4. closing' \in [Conn -> SUBSET CloseCode]
    BY <2>1, AfterDeliveryType
  <2>5. /\ queue' \in [Conn -> Seq(Message)]
        /\ \A t \in Conn : Len(queue'[t]) <= SignalQueue
        /\ overflowed' \in [Conn -> BOOLEAN]
    BY <2>1, <2>3, Delivered
  <2>6. \A t \in targets : client[t] # None
    BY DEF Placed
  <2>7. \A e \in Conn : stage[e] = "new" => queue'[e] = <<>>
    BY <2>1, <2>3, <2>6, NothingForTheNew
  <2> HIDE DEF targets, left
  <2>8. late' \subseteq Peer \X Peer
    BY <2>1, <2>2
  <2>9. TypeOK'
    BY <2>1, <2>4, <2>5, <2>8 DEF registryVars, browserVars
  <2>10. Placed'
    BY <2>1, <2>7, StaysPlaced DEF Members, Placed, registryVars
  <2> QED BY <2>9, <2>10
<1>8. ASSUME NEW c \in Conn, Relay(c)
      PROVE  TypeOK' /\ Placed'
  <2> DEFINE addressed == {d \in Members : PeerOf(d) = relaying[c]}
             full == {t \in Takes(addressed) : Spare(queue[t]) = 0}
             ok == Takes(addressed) \ full # {}
             to == IF ok THEN addressed ELSE full \cup {c}
             ms == <<[type |-> IF ok THEN "signal" ELSE "error", from |-> PeerOf(c)]>>
  <2>1. /\ relaying[c] # None /\ relaying' = [relaying EXCEPT ![c] = None]
        /\ Deliver(to, ms) /\ closing' = AfterDelivery(to, ms)
        /\ UNCHANGED <<registryVars, member, stage, kicked, departing, relayed, restarts,
                       browserVars, historyVars>>
    BY <1>8 DEF Relay
  <2>2. stage[c] # "new" /\ client[c] # None
    BY <2>1 DEF Placed
  <2>3. PeerOf(c) \in Peer
    BY <2>2, PeerType
  <2>4. ms \in Seq(Message)
    BY <2>3 DEF Message
  <2>5. closing' \in [Conn -> SUBSET CloseCode]
    BY <2>1, AfterDeliveryType
  <2>6. /\ queue' \in [Conn -> Seq(Message)]
        /\ \A t \in Conn : Len(queue'[t]) <= SignalQueue
        /\ overflowed' \in [Conn -> BOOLEAN]
    BY <2>1, <2>4, Delivered
  <2>7. \A t \in to : client[t] # None
    BY <2>2 DEF Placed, Takes
  <2> HIDE DEF to, ms
  <2>8. \A e \in Conn : stage[e] = "new" => queue'[e] = <<>>
    BY <2>1, <2>4, <2>7, NothingForTheNew
  <2>9. TypeOK'
    BY <2>1, <2>5, <2>6 DEF registryVars, browserVars, historyVars
  <2>10. Placed'
    BY <2>1, <2>2, <2>8, StaysPlaced DEF Members, Placed, registryVars
  <2> QED BY <2>9, <2>10
<1>9. ASSUME NEW c \in Conn, KickRemove(c)
      PROVE  TypeOK' /\ Placed'
  <2>1. /\ client[c] # None /\ Remove(c) /\ kicked' = kicked \ {c}
        /\ closing' = [closing EXCEPT ![c] = IF Attached(c) THEN @ \cup {"policy"} ELSE @]
        /\ UNCHANGED <<client, revoked, owner, member, stage, queue, overflowed, relaying,
                       relayed, restarts, browserVars, historyVars>>
    BY <1>9 DEF KickRemove, Placed
  <2>2. /\ rooms' \in [Room -> SUBSET Conn] /\ voices' \in [Room -> [Peer -> Voice \cup {None}]]
        /\ Members' = Members \ {c} /\ departing' = departing \cup (Members \cap {c})
    BY <2>1, Removed
  <2>3. closing' \in [Conn -> SUBSET CloseCode]
    BY <2>1 DEF CloseCode
  <2>4. TypeOK'
    BY <2>1, <2>2, <2>3, <1>0 DEF browserVars, historyVars
  <2>5. Placed'
    BY <2>1, <2>2, StaysPlaced DEF Placed
  <2> QED BY <2>4, <2>5
<1>10. ASSUME NEW c \in Conn, NEW code \in CloseCode, CloseSocket(c, code)
      PROVE  TypeOK' /\ Placed'
  <2>1. /\ closing' = [closing EXCEPT ![c] = {}] /\ LoseSocket(c, code)
        /\ UNCHANGED <<registryVars, member, stage, queue, overflowed, kicked, departing,
                       relaying, relayed, restarts, evicted>>
    BY <1>10 DEF CloseSocket
  <2>2. TypeOK'
    BY <2>1, LosesSocket DEF registryVars
  <2>3. Placed'
    BY <2>1, StaysPlaced DEF Members, Placed, registryVars
  <2> QED BY <2>2, <2>3
<1>11. ASSUME NEW u \in User, Kick(u)
      PROVE  TypeOK' /\ Placed'
  <2>1. /\ member' = member \ {u} /\ RevokeRoomUser(Call, u) /\ kicked' = ClientsOf(Call, u)
        /\ UNCHANGED <<client, rooms, owner, stage, queue, overflowed, departing, relaying,
                       relayed, closing, restarts, browserVars, historyVars>>
    BY <1>11 DEF Kick
  <2>2. ClientsOf(Call, u) \subseteq Members
    BY DEF ClientsOf, Members
  <2>3. voices' \in [Room -> [Peer -> Voice \cup {None}]] /\ revoked' \in [Conn -> BOOLEAN]
    BY <2>1, VoicesType DEF RevokeRoomUser
  <2>4. TypeOK'
    BY <2>1, <2>2, <2>3, <1>0 DEF browserVars, historyVars
  <2>5. Placed'
    BY <2>1, <2>2, StaysPlaced DEF Members, Placed
  <2> QED BY <2>4, <2>5
<1>12. ASSUME NEW p \in Peer, Drop(p)
      PROVE  TypeOK' /\ Placed'
  <2>1. /\ LoseSocket(sock[p], "retry") /\ closing' = [closing EXCEPT ![sock[p]] = {}]
        /\ evicted' = evicted \ {p}
        /\ UNCHANGED <<registryVars, member, stage, queue, overflowed, kicked, departing,
                       relaying, relayed, restarts>>
    BY <1>12 DEF Drop
  <2>2. TypeOK'
    BY <2>1, LosesSocket DEF registryVars
  <2>3. Placed'
    BY <2>1, StaysPlaced DEF Members, Placed, registryVars
  <2> QED BY <2>2, <2>3
<1>13. ASSUME Restart
      PROVE  TypeOK' /\ Placed'
  <2>1. Members' = {} /\ departing' = {} /\ kicked' = {} /\ client' = client
    BY <1>13, <1>0 DEF Restart, Members
  <2>2. <<>> \in Seq(Message) /\ Len(<<>>) <= SignalQueue
    BY EmptySeq, SignalRoomAssumption
  <2>3. queue' \in [Conn -> Seq(Message)] /\ \A t \in Conn : Len(queue'[t]) <= SignalQueue
    BY <1>13, <2>2 DEF Restart
  <2>4. RegistryTypeOK'
    BY <1>13 DEF Restart, NoVoices
  <2>5. restarts' \in 0 .. MaxRestarts
    BY <1>13, SignalRoomAssumption DEF Restart
  <2>6. /\ stage' \in [Conn -> {"new", "registered", "serving", "done"}]
        /\ phase' \in [Peer -> {"new", "live", "down", "ended"}]
        /\ sock' \in [Peer -> Conn \cup {None}] /\ told' \in [Peer -> SUBSET Peer]
    BY <1>13 DEF Restart
  <2>7. TypeOK'
    BY <1>13, <2>3, <2>4, <2>5, <2>6 DEF Restart
  <2>8. /\ \A c \in Conn : stage'[c] = "new" <=> stage[c] = "new"
        /\ \A c \in Conn : queue'[c] = <<>> /\ relaying'[c] = None
    BY <1>13 DEF Restart
  <2>9. Placed'
    BY <2>1, <2>8, StaysPlaced
  <2> QED BY <2>7, <2>9
<1>14. CASE UNCHANGED vars
  <2>1. TypeOK'
    BY <1>14 DEF vars, registryVars, serverVars, browserVars, historyVars
  <2>2. Placed'
    BY <1>14, StaysPlaced DEF vars, registryVars, serverVars, Members, Placed
  <2> QED BY <2>1, <2>2
<1> QED
  BY <1>1, <1>2, <1>3, <1>4, <1>5, <1>6, <1>7, <1>8, <1>9, <1>10, <1>11, <1>12, <1>13, <1>14
  DEF Next

(* In every reachable state of the room the types hold, and the places.    *)
LEMMA PlacesHold == Spec => [](TypeOK /\ Placed)
<1>1. Init => TypeOK /\ Placed
  <2> SUFFICES ASSUME Init PROVE TypeOK /\ Placed
    OBVIOUS
  <2>1. Members = {}
    BY SignalRoomAssumption DEF Init, RegistryInit, Members
  <2>2. <<>> \in Seq(Message) /\ Len(<<>>) <= SignalQueue
    BY EmptySeq, SignalRoomAssumption
  <2>3. TypeOK
    BY <2>2, SignalRoomAssumption DEF Init, RegistryInit, TypeOK, RegistryTypeOK, NoVoices
  <2>4. IsFiniteSet(PeersIn(Members))
    <3>1. PeersIn(Members) = {}
      BY <2>1 DEF PeersIn
    <3> QED BY <3>1, FS_EmptySet
  <2>5. Placed
    BY <2>1, <2>4 DEF Init, RegistryInit, Placed
  <2> QED BY <2>3, <2>5
<1>2. (TypeOK /\ Placed) /\ [Next]_vars => (TypeOK /\ Placed)'
  BY TypeStep
<1> QED BY <1>1, <1>2, PTL DEF Spec

(* Every variable of SignalRoom keeps its type, and no queue outgrows its  *)
(* channel.                                                                *)
THEOREM TypeCorrect == Spec => []TypeOK
BY PlacesHold, PTL

-----------------------------------------------------------------------------
(* Nobody is held for present in vain, and nobody is missed                *)

LEMMA KnowsIsKnownNext ==
  ASSUME NEW c, NEW p
  PROVE  Knows(c, p)' <=> Known(queue'[c], p \in told'[PeerOf(c)'], p)
BY DEF Knows, Known, About

(* A step that brings nobody new and leaves what the listening connections *)
(* know as it is.                                                          *)
LEMMA NothingNew ==
  ASSUME TypeOK, Placed, NoPhantoms, NobodyMissed, client' = client, Members' \subseteq Members,
         \A c \in Conn : Listening(c)' =>
           /\ Listening(c) /\ Members \cup departing \subseteq (Members \cup departing)'
           /\ \A p \in Peer : p # PeerOf(c) =>
                /\ Knows(c, p)' <=> Knows(c, p)
                /\ <<PeerOf(c), p>> \in late => <<PeerOf(c), p>> \in late'
  PROVE  NoPhantoms' /\ NobodyMissed'
<1>1. \A c : PeerOf(c)' = PeerOf(c)
  BY DEF PeerOf
<1>2. NoPhantoms'
  <2> SUFFICES ASSUME NEW c \in Conn, NEW p \in Peer,
                      Listening(c)', p # PeerOf(c), Knows(c, p)'
               PROVE  p \in PeersIn(Members \cup departing)'
    BY <1>1 DEF NoPhantoms
  <2>1. p \in PeersIn(Members \cup departing)
    BY DEF NoPhantoms
  <2> QED BY <2>1, <1>1 DEF PeersIn
<1>3. NobodyMissed'
  <2> SUFFICES ASSUME NEW c \in Conn, NEW d \in Members', Listening(c)', c # d
               PROVE  Knows(c, PeerOf(d))' \/ <<PeerOf(c), PeerOf(d)>> \in late'
    BY <1>1 DEF NobodyMissed
  <2>1. Listening(c) /\ c \in Members /\ d \in Members
    BY DEF Listening
  <2>2. PeerOf(d) \in Peer /\ PeerOf(d) # PeerOf(c)
    <3>1. d \in Conn /\ client[d] # None
      BY <2>1, SignalRoomAssumption DEF TypeOK, RegistryTypeOK, Members, Placed
    <3> QED BY <2>1, <3>1, PeerType DEF Placed
  <2>3. Knows(c, PeerOf(d)) \/ <<PeerOf(c), PeerOf(d)>> \in late
    BY <2>1 DEF NobodyMissed
  <2>4. Knows(c, PeerOf(d))' <=> (Knows(c, PeerOf(d)))'
    OBVIOUS
  <2>5. PICK p \in Peer : p = PeerOf(d)
    BY <2>2
  <2>6. Knows(c, p)' <=> Knows(c, PeerOf(d))'
    BY <2>5, <1>1 DEF Knows
  <2> QED BY <2>1, <2>2, <2>3, <2>5, <2>6
<1> QED BY <1>2, <1>3

(* Whoever still has a socket after another has lost one has not lost      *)
(* anything it was told.                                                   *)
LEMMA LosesItsOwn ==
  ASSUME TypeOK, NEW c, NEW code, LoseSocket(c, code), client' = client,
         NEW d \in Conn, Attached(d)'
  PROVE  /\ Attached(d) /\ told'[PeerOf(d)] = told[PeerOf(d)]
         /\ \A p \in Peer : <<PeerOf(d), p>> \in late => <<PeerOf(d), p>> \in late'
<1>1. client[d] # None /\ sock'[PeerOf(d)] = d /\ PeerOf(d)' = PeerOf(d)
  BY DEF Attached, PeerOf
<1>2. PeerOf(d) \in Peer /\ d # None
  BY <1>1, PeerType, RegistryAssumption
<1>3. CASE Attached(c)
  <2>1. /\ sock' = [sock EXCEPT ![PeerOf(c)] = None]
        /\ told' = [told EXCEPT ![PeerOf(c)] = {}]
        /\ late' = late \ ({PeerOf(c)} \X Peer)
    BY <1>3 DEF LoseSocket
  <2>2. PeerOf(d) # PeerOf(c)
    BY <2>1, <1>1, <1>2 DEF TypeOK
  <2> QED BY <2>1, <2>2, <1>1, <1>2 DEF Attached, TypeOK
<1>4. CASE ~Attached(c)
  BY <1>4, <1>1 DEF LoseSocket, browserVars, Attached
<1> QED BY <1>3, <1>4

(* A connection's queue and what its browser was told stay as they are.    *)
LEMMA KnowsAsBefore ==
  ASSUME client' = client, NEW c, queue'[c] = queue[c], told'[PeerOf(c)] = told[PeerOf(c)], NEW p
  PROVE  Knows(c, p)' <=> Knows(c, p)
<1>1. PeerOf(c)' = PeerOf(c)
  BY DEF PeerOf
<1> QED BY <1>1, KnowsIsKnown, KnowsIsKnownNext

(* Registering: the others hear of those it replaces and of its arrival,   *)
(* and it hears of the others (addWithMode).                               *)
LEMMA RegisterRoster ==
  ASSUME TypeOK, Placed, NoPhantoms, NobodyMissed,
         NEW p \in Peer, NEW c \in Conn, NEW replace \in BOOLEAN, Register(p, c, replace)
  PROVE  NoPhantoms' /\ NobodyMissed'
<1> DEFINE gone == Replaced(Identity(p), replace)
           others == Members \ gone
           resumed == Resumed(p, gone)
           joined == IF resumed THEN <<>> ELSE <<[type |-> "joined", from |-> p]>>
           news == Departures(gone, p) \o joined
<1>1. /\ stage[c] = "new" /\ AddWithMode(c, Identity(p), replace)
      /\ Deliver(others, news)
      /\ told' = [told EXCEPT ![p] = PeersIn(others)]
      /\ late' = IF resumed THEN late ELSE late \ (Peer \X {p})
      /\ sock' = [sock EXCEPT ![p] = c]
      /\ departing' = departing
  BY DEF Register
<1>2. /\ gone \subseteq Members /\ c \notin Members \cup departing \cup kicked
      /\ client' = [client EXCEPT ![c] = Identity(p)] /\ Identity(p) \in Client
      /\ Members' = (Members \ gone) \cup {c}
      /\ \A e \in Members \ gone : PeerOf(e) # p
      /\ revoked' = [e \in Conn |-> revoked[e] \/ e \in gone]
  BY <1>1, Registered
<1>3. news \in Seq(Message)
  BY <1>2, RegisterNews
<1>4. resumed <=> p \in PeersIn(gone)
  BY DEF Resumed
<1>5. ASSUME NEW before, NEW q
      PROVE  Known(news, before, q) <=>
               IF ~resumed /\ q = p THEN TRUE ELSE before /\ q \notin PeersIn(gone) \ {p}
  <2>1. PeersIn(gone) \subseteq Peer /\ IsFiniteSet(PeersIn(gone))
    BY <1>2, SomePeers
  <2>2. /\ Departures(gone, p) \in Seq(Message)
        /\ Known(Departures(gone, p), before, q) <=> (before /\ q \notin PeersIn(gone) \ {p})
    BY <2>1, DeparturesProperties
  <2> HIDE DEF gone, resumed
  <2>3. CASE resumed
    <3>1. news = Departures(gone, p)
      BY <2>2, <2>3, ConcatEmptySeq
    <3> HIDE DEF news
    <3> QED BY <2>2, <2>3, <3>1
  <2>4. CASE ~resumed
    <3> DEFINE m == [type |-> "joined", from |-> p]
    <3>1. m \in Message /\ m.from = p /\ m.type = "joined"
      BY DEF Message
    <3>2. <<m>> \in Seq(Message) /\ news = Departures(gone, p) \o <<m>>
      BY <3>1, <2>4
    <3> HIDE DEF m, news
    <3>3. Known(news, before, q) <=> Known(<<m>>, Known(Departures(gone, p), before, q), q)
      BY <2>2, <3>2, KnownInTurn
    <3>4. Known(<<m>>, Known(Departures(gone, p), before, q), q)
            <=> IF m.from = q /\ m.type \in {"joined", "left"} THEN m.type = "joined"
                ELSE Known(Departures(gone, p), before, q)
      BY <3>1, KnownOne
    <3> QED BY <2>2, <2>4, <3>1, <3>3, <3>4
  <2> QED BY <2>3, <2>4
<1>6. /\ Identity(p).peer = p /\ Identity(p) # None
      /\ client'[c] = Identity(p) /\ \A e \in Conn \ {c} : client'[e] = client[e]
  BY <1>2, RegistryAssumption DEF Identity, TypeOK, RegistryTypeOK
<1>7. PeerOf(c)' = p /\ \A e \in Conn \ {c} : PeerOf(e)' = PeerOf(e)
  BY <1>6 DEF PeerOf
<1>8. Members \subseteq Conn /\ departing \subseteq Conn
  BY SignalRoomAssumption DEF TypeOK, RegistryTypeOK, Members
<1>9. queue'[c] = <<>>
  <2>1. \A t \in others : t \in Conn => client[t] # None
    BY DEF Placed
  <2> HIDE DEF gone, news, others
  <2> QED BY <2>1, <1>1, <1>3, NothingForTheNew
<1> HIDE DEF gone, news, resumed
\* What the new connection knows.
<1>10. \A q : Knows(c, q)' <=> q \in PeersIn(others)
  <2> SUFFICES ASSUME NEW q PROVE Knows(c, q)' <=> q \in PeersIn(others)
    OBVIOUS
  <2>1. Knows(c, q)' <=> Known(<<>>, q \in told'[p], q)
    BY <1>7, <1>9, KnowsIsKnownNext
  <2>2. told'[p] = PeersIn(others)
    BY <1>1 DEF TypeOK
  <2>3. About(<<>>, q) = {}
    BY DEF About
  <2> QED BY <2>1, <2>2, <2>3 DEF Known
\* What the others know, those that are served before and after.
<1>11. ASSUME NEW d \in Conn, d # c, Listening(d)'
       PROVE  /\ d \in others /\ Listening(d) /\ PeerOf(d)' = PeerOf(d) /\ PeerOf(d) # p
              /\ \A q : Knows(d, q)' <=>
                   IF ~resumed /\ q = p THEN TRUE ELSE Knows(d, q) /\ q \notin PeersIn(gone) \ {p}
  <2>1. d \in others /\ PeerOf(d)' = PeerOf(d) /\ PeerOf(d) # p
    BY <1>2, <1>7, <1>11 DEF Listening
  <2>2. PeerOf(d) \in Peer /\ client[d] # None
    BY <2>1, PeerType DEF Placed
  <2>3. Attached(d)
    <3>1. sock'[PeerOf(d)] = sock[PeerOf(d)]
      BY <1>1, <2>1, <2>2 DEF TypeOK
    <3> QED BY <3>1, <2>1, <2>2, <1>11 DEF Listening, Attached
  <2>4. ~revoked[d] /\ ~overflowed'[d] /\ ~overflowed[d]
    <3>1. \A t \in Conn : overflowed[t] => overflowed'[t]
      BY <1>1, <1>3, Delivered
    <3> QED BY <3>1, <1>2, <1>11 DEF Listening
  <2>5. Listening(d)
    BY <2>1, <2>3, <2>4 DEF Listening
  <2>6. queue'[d] = queue[d] \o news
    <3>1. d \in Conn \cap Takes(others)
      BY <2>1, <2>4 DEF Takes
    <3> QED BY <3>1, <2>4, <1>1, <1>3, Delivered
  <2>7. told'[PeerOf(d)] = told[PeerOf(d)] /\ queue[d] \in Seq(Message)
    BY <1>1, <2>1, <2>2 DEF TypeOK
  <2>8. ASSUME NEW q
        PROVE  Knows(d, q)' <=> Known(news, Known(queue[d], q \in told[PeerOf(d)], q), q)
    <3>1. Knows(d, q)' <=> Known(queue'[d], q \in told'[PeerOf(d)'], q)
      BY KnowsIsKnownNext
    <3>2. Known(queue[d] \o news, q \in told[PeerOf(d)], q)
            <=> Known(news, Known(queue[d], q \in told[PeerOf(d)], q), q)
      BY <2>7, <1>3, KnownInTurn
    <3> QED BY <3>1, <3>2, <2>1, <2>6, <2>7
  <2>9. \A q : Knows(d, q) <=> Known(queue[d], q \in told[PeerOf(d)], q)
    BY KnowsIsKnown
  <2>10. ASSUME NEW q
         PROVE  Knows(d, q)' <=>
                  IF ~resumed /\ q = p THEN TRUE ELSE Knows(d, q) /\ q \notin PeersIn(gone) \ {p}
    <3>1. Known(news, Known(queue[d], q \in told[PeerOf(d)], q), q) <=>
            IF ~resumed /\ q = p THEN TRUE
            ELSE Known(queue[d], q \in told[PeerOf(d)], q) /\ q \notin PeersIn(gone) \ {p}
      BY <1>5
    <3> QED BY <3>1, <2>8, <2>9
  <2> QED BY <2>1, <2>5, <2>10
<1>12. NoPhantoms'
  <2> SUFFICES ASSUME NEW d \in Conn, NEW q \in Peer, Listening(d)', q # PeerOf(d)', Knows(d, q)'
               PROVE  q \in PeersIn(Members \cup departing)'
    BY DEF NoPhantoms
  <2>1. CASE d = c
    <3>1. PICK e \in others : PeerOf(e) = q
      BY <2>1, <1>10 DEF PeersIn
    <3>2. e \in Members' /\ PeerOf(e)' = q
      BY <3>1, <1>2, <1>7, <1>8
    <3> QED BY <3>2 DEF PeersIn
  <2>2. CASE d # c /\ q = p
    <3>1. c \in Members' /\ PeerOf(c)' = q
      BY <1>2, <1>7, <2>2
    <3> QED BY <3>1 DEF PeersIn
  <2>3. CASE d # c /\ q # p
    <3>1. Listening(d) /\ Knows(d, q) /\ q \notin PeersIn(gone) /\ q # PeerOf(d)
      BY <2>3, <1>11
    <3>2. PICK e \in Members \cup departing : PeerOf(e) = q
      BY <3>1 DEF NoPhantoms, PeersIn
    <3>3. e \notin gone
      BY <3>1, <3>2 DEF PeersIn
    <3>4. e \in (Members \cup departing)' /\ PeerOf(e)' = q
      BY <3>2, <3>3, <1>1, <1>2, <1>7, <1>8
    <3> QED BY <3>4 DEF PeersIn
  <2> QED BY <2>1, <2>2, <2>3
<1>13. NobodyMissed'
  <2> SUFFICES ASSUME NEW d \in Conn, NEW e \in Members', Listening(d)', d # e,
                      NEW q, q = PeerOf(e)'
               PROVE  Knows(d, q)' \/ <<PeerOf(d)', q>> \in late'
    BY DEF NobodyMissed, Knows
  <2>1. CASE d = c
    <3>1. e \in others /\ PeerOf(e) = q
      BY <2>1, <1>2, <1>7, <1>8
    <3> QED BY <3>1, <2>1, <1>10 DEF PeersIn
  <2>2. CASE d # c /\ e = c
    <3>1. Listening(d) /\ PeerOf(d)' = PeerOf(d) /\ q = p /\ d \in others
      BY <2>2, <1>7, <1>11
    <3>2. CASE ~resumed
      BY <3>1, <3>2, <2>2, <1>11
    <3>3. CASE resumed
      <4>1. PICK g \in gone : PeerOf(g) = p
        BY <3>3, <1>4 DEF PeersIn
      <4>2. g \in Members /\ g # d
        BY <4>1, <1>2, <3>1
      <4>3. Knows(d, p) \/ <<PeerOf(d), p>> \in late
        BY <4>1, <4>2, <3>1 DEF NobodyMissed
      <4> QED BY <4>3, <3>1, <3>3, <1>1, <1>11, <2>2
    <3> QED BY <3>2, <3>3
  <2>3. CASE d # c /\ e # c
    <3>1. /\ Listening(d) /\ PeerOf(d)' = PeerOf(d) /\ d \in others
          /\ e \in others /\ PeerOf(e) = q /\ q # p
      BY <2>3, <1>2, <1>7, <1>8, <1>11
    <3>2. q \notin PeersIn(gone)
      BY <3>1, <1>2 DEF PeersIn, Placed
    <3>3. Knows(d, q) \/ <<PeerOf(d), q>> \in late
      BY <3>1, <2>3 DEF NobodyMissed
    <3>4. CASE Knows(d, q)
      BY <3>4, <3>2, <2>3, <1>11
    <3>5. CASE <<PeerOf(d), q>> \in late
      BY <3>5, <3>1, <1>1
    <3> QED BY <3>3, <3>4, <3>5
  <2> QED BY <2>1, <2>2, <2>3
<1> QED BY <1>12, <1>13

(* Removing: whoever stays hears of it, and one who has come back already  *)
(* is noted as missed by those who hear of it (remove).                    *)
LEMMA BroadcastRoster ==
  ASSUME TypeOK, Placed, NoPhantoms, NobodyMissed, NEW c \in Conn, BroadcastLeft(c)
  PROVE  NoPhantoms' /\ NobodyMissed'
<1> DEFINE p == PeerOf(c)
           targets == Members \ {c}
           m == [type |-> "left", from |-> p]
<1>1. /\ c \in departing /\ departing' = departing \ {c} /\ Deliver(targets, <<m>>)
      /\ client' = client /\ rooms' = rooms /\ revoked' = revoked /\ sock' = sock /\ told' = told
      /\ late' = IF p \in PeersIn(Members)
                 THEN late \cup ({q \in Peer : sock[q] \in Takes(targets)} \X {p}) ELSE late
  BY DEF BroadcastLeft, registryVars, browserVars
<1>2. p \in Peer
  BY <1>1, PeerType DEF Placed
<1>3. m \in Message /\ m.from = p /\ m.type = "left"
  BY <1>2 DEF Message
<1>4. <<m>> \in Seq(Message)
  BY <1>3
<1>5. Members' = Members /\ \A d : PeerOf(d)' = PeerOf(d)
  BY <1>1 DEF Members, PeerOf
<1> HIDE DEF m, p, targets
<1>6. ASSUME NEW d \in Conn, Listening(d)'
      PROVE  /\ Listening(d) /\ PeerOf(d) \in Peer /\ sock[PeerOf(d)] = d
             /\ d # c => d \in Takes(targets)
             /\ \A q : Knows(d, q)' <=> IF d # c /\ q = p THEN FALSE ELSE Knows(d, q)
  <2>1. /\ d \in Members /\ Attached(d) /\ ~revoked[d] /\ ~overflowed'[d]
    BY <1>1, <1>5, <1>6 DEF Listening, Attached
  <2>2. ~overflowed[d]
    BY <2>1, <1>1, <1>4, Delivered
  <2>3. d # c => d \in Takes(targets)
    BY <2>1 DEF Takes, targets
  <2>4. PeerOf(d) \in Peer /\ sock[PeerOf(d)] = d
    BY <2>1, PeerType DEF Attached
  <2>5. ASSUME d = c PROVE \A q : Knows(d, q)' <=> Knows(d, q)
    <3>1. d \notin Takes(targets)
      BY <2>5 DEF Takes, targets
    <3>2. queue'[d] = queue[d]
      BY <3>1, <1>1, <1>4, Delivered
    <3> QED BY <3>2, <1>1, KnowsAsBefore
  <2>6. ASSUME d # c, NEW q PROVE Knows(d, q)' <=> IF q = p THEN FALSE ELSE Knows(d, q)
    <3>1. queue'[d] = queue[d] \o <<m>> /\ queue[d] \in Seq(Message)
      BY <2>1, <2>3, <2>6, <1>1, <1>4, Delivered DEF TypeOK
    <3>2. Knows(d, q)' <=> Known(queue[d] \o <<m>>, q \in told[PeerOf(d)], q)
      BY <3>1, <1>1, <1>5, KnowsIsKnownNext
    <3>3. Known(queue[d] \o <<m>>, q \in told[PeerOf(d)], q)
            <=> Known(<<m>>, Known(queue[d], q \in told[PeerOf(d)], q), q)
      BY <3>1, <1>4, KnownInTurn
    <3>4. Known(<<m>>, Known(queue[d], q \in told[PeerOf(d)], q), q)
            <=> IF m.from = q /\ m.type \in {"joined", "left"} THEN m.type = "joined"
                ELSE Known(queue[d], q \in told[PeerOf(d)], q)
      BY <1>3, KnownOne
    <3>5. Knows(d, q) <=> Known(queue[d], q \in told[PeerOf(d)], q)
      BY KnowsIsKnown
    <3> QED BY <3>2, <3>3, <3>4, <3>5, <1>3
  <2> QED BY <2>1, <2>2, <2>3, <2>4, <2>5, <2>6 DEF Listening
<1>7. NoPhantoms'
  <2> SUFFICES ASSUME NEW d \in Conn, NEW q \in Peer, Listening(d)', q # PeerOf(d), Knows(d, q)'
               PROVE  q \in PeersIn(Members \cup departing)'
    BY <1>5 DEF NoPhantoms
  <2>1. Listening(d) /\ Knows(d, q) /\ q # p
    BY <1>6 DEF p
  <2>2. PICK e \in Members \cup departing : PeerOf(e) = q
    BY <2>1 DEF NoPhantoms, PeersIn
  <2>3. e \in (Members \cup departing)' /\ PeerOf(e)' = q
    BY <2>1, <2>2, <1>1, <1>5 DEF p
  <2> QED BY <2>3 DEF PeersIn
<1>8. NobodyMissed'
  <2> SUFFICES ASSUME NEW d \in Conn, NEW e \in Members, Listening(d)', d # e,
                      NEW q, q = PeerOf(e)
               PROVE  Knows(d, q)' \/ <<PeerOf(d), q>> \in late'
    BY <1>5 DEF NobodyMissed, Knows
  <2>1. /\ Listening(d) /\ d \in Members /\ PeerOf(d) # q
        /\ Knows(d, q) \/ <<PeerOf(d), q>> \in late
    BY <1>6 DEF NobodyMissed, Listening, Placed
  <2>2. CASE d # c /\ q = p
    <3>1. p \in PeersIn(Members)
      BY <2>2 DEF PeersIn
    <3> QED BY <3>1, <2>2, <1>1, <1>6
  <2>3. CASE d # c /\ q # p
    BY <2>1, <2>3, <1>1, <1>6
  <2>4. CASE d = c
    BY <2>1, <2>4, <1>1, <1>6
  <2> QED BY <2>2, <2>3, <2>4
<1> QED BY <1>7, <1>8

(* The browser makes of the head of its queue what the queue says.         *)
LEMMA DrainKnows ==
  ASSUME TypeOK, Placed, NEW c \in Conn, Drain(c), NEW d \in Conn, Attached(d),
         NEW q \in Peer, q # PeerOf(d)
  PROVE  Knows(d, q)' <=> Knows(d, q)
<1> DEFINE p == PeerOf(c)
           m == Head(queue[c])
           rest == Tail(queue[c])
<1>1. /\ Attached(c) /\ queue[c] # <<>> /\ queue' = [queue EXCEPT ![c] = rest]
      /\ told' = [told EXCEPT ![p] = IF m.type = "signal" THEN @ ELSE Apply(m, @, p)]
      /\ client' = client
  BY DEF Drain, registryVars
<1>2. p \in Peer /\ PeerOf(d) \in Peer /\ sock[p] = c /\ sock[PeerOf(d)] = d
  BY <1>1, PeerType DEF Attached
<1>3. CASE d # c
  <2>1. queue'[d] = queue[d] /\ told'[PeerOf(d)] = told[PeerOf(d)]
    BY <1>1, <1>2, <1>3 DEF TypeOK
  <2> QED BY <2>1, <1>1, KnowsAsBefore
<1>4. CASE d = c
  <2>1. queue[c] \in Seq(Message)
    BY DEF TypeOK
  <2>2. m \in Message /\ rest \in Seq(Message) /\ <<m>> \in Seq(Message)
    BY <2>1, <1>1, HeadTailProperties
  <2>3. queue[c] = <<m>> \o rest
    BY <2>1, <1>1
  <2>4. queue'[c] = rest /\ told'[p] = IF m.type = "signal" THEN told[p] ELSE Apply(m, told[p], p)
    BY <1>1, <1>2 DEF TypeOK
  <2> HIDE DEF m, rest
  <2>5. q \in told'[p] <=> Known(<<m>>, q \in told[p], q)
    <3>1. Known(<<m>>, q \in told[p], q)
            <=> IF m.from = q /\ m.type \in {"joined", "left"} THEN m.type = "joined"
                ELSE q \in told[p]
      <4>1. PICK b \in BOOLEAN : b <=> q \in told[p]
        OBVIOUS
      <4>2. Known(<<m>>, b, q)
              <=> IF m.from = q /\ m.type \in {"joined", "left"} THEN m.type = "joined" ELSE b
        BY <2>2, KnownOne
      <4>3. Known(<<m>>, b, q) <=> Known(<<m>>, q \in told[p], q)
        BY <4>1 DEF Known
      <4> QED BY <4>1, <4>2, <4>3
    <3>2. q # p /\ m.type \in {"joined", "left", "signal", "error"}
      BY <2>2, <1>4 DEF Message
    <3>3. CASE m.type = "joined"
      BY <3>1, <3>2, <3>3, <2>4 DEF Apply
    <3>4. CASE m.type = "left"
      BY <3>1, <3>2, <3>4, <2>4 DEF Apply
    <3>5. CASE m.type = "signal"
      BY <3>1, <3>5, <2>4
    <3>6. CASE m.type = "error"
      BY <3>1, <3>6, <2>4 DEF Apply
    <3> QED BY <3>2, <3>3, <3>4, <3>5, <3>6
  <2>6. Known(queue[c], q \in told[p], q) <=> Known(rest, Known(<<m>>, q \in told[p], q), q)
    BY <2>2, <2>3, KnownInTurn
  <2>7. PeerOf(c)' = p
    BY <1>1 DEF PeerOf
  <2>8. Knows(c, q)' <=> Known(rest, q \in told'[p], q)
    BY <2>4, <2>7, KnowsIsKnownNext
  <2>9. Knows(c, q) <=> Known(queue[c], q \in told[p], q)
    BY KnowsIsKnown
  <2>10. Known(rest, q \in told'[p], q) <=> Known(rest, Known(<<m>>, q \in told[p], q), q)
    BY <2>5 DEF Known
  <2> QED BY <2>6, <2>8, <2>9, <2>10, <1>4
<1> QED BY <1>3, <1>4

(* A signal, or the error that answers one, is no news of who is there.    *)
LEMMA RelayRoster ==
  ASSUME TypeOK, Placed, NoPhantoms, NobodyMissed, NEW c \in Conn, Relay(c)
  PROVE  NoPhantoms' /\ NobodyMissed'
<1> DEFINE addressed == {d \in Members : PeerOf(d) = relaying[c]}
           full == {t \in Takes(addressed) : Spare(queue[t]) = 0}
           ok == Takes(addressed) \ full # {}
           to == IF ok THEN addressed ELSE full \cup {c}
           m == [type |-> IF ok THEN "signal" ELSE "error", from |-> PeerOf(c)]
<1>1. /\ relaying[c] # None /\ Deliver(to, <<m>>)
      /\ client' = client /\ rooms' = rooms /\ revoked' = revoked /\ sock' = sock /\ told' = told
      /\ departing' = departing /\ late' = late
  BY DEF Relay, registryVars, browserVars, historyVars
<1>2. PeerOf(c) \in Peer
  BY <1>1, PeerType DEF Placed
<1>3. m \in Message /\ m.type \notin {"joined", "left"}
  BY <1>2 DEF Message
<1>4. <<m>> \in Seq(Message)
  BY <1>3
<1> HIDE DEF m, to
<1>5. ASSUME NEW d \in Conn, Listening(d)', NEW q
      PROVE  Listening(d) /\ (Knows(d, q)' <=> Knows(d, q))
  <2>1. Listening(d) /\ ~overflowed'[d]
    BY <1>1, <1>4, <1>5, Delivered DEF Listening, Attached, Members, PeerOf
  <2>2. CASE d \notin Takes(to)
    <3>1. queue'[d] = queue[d]
      BY <2>2, <1>1, <1>4, Delivered
    <3> QED BY <3>1, <2>1, <1>1, KnowsAsBefore
  <2>3. CASE d \in Takes(to)
    <3>1. queue'[d] = queue[d] \o <<m>> /\ queue[d] \in Seq(Message)
      BY <2>1, <2>3, <1>1, <1>4, Delivered DEF TypeOK
    <3>2. Known(queue[d] \o <<m>>, q \in told[PeerOf(d)], q)
            <=> Known(<<m>>, Known(queue[d], q \in told[PeerOf(d)], q), q)
      BY <3>1, <1>4, KnownInTurn
    <3>3. Known(<<m>>, Known(queue[d], q \in told[PeerOf(d)], q), q)
            <=> Known(queue[d], q \in told[PeerOf(d)], q)
      BY <1>3, KnownOne
    <3>4. PeerOf(d)' = PeerOf(d)
      BY <1>1 DEF PeerOf
    <3>5. Knows(d, q)' <=> Known(queue[d] \o <<m>>, q \in told[PeerOf(d)], q)
      BY <3>1, <3>4, <1>1, KnowsIsKnownNext
    <3> QED BY <3>2, <3>3, <3>5, <2>1, KnowsIsKnown
  <2> QED BY <2>2, <2>3
<1>6. Members' = Members
  BY <1>1 DEF Members
<1> QED BY <1>1, <1>5, <1>6, NothingNew

(* Every step keeps what the listening connections know right.             *)
LEMMA RosterStep ==
  ASSUME TypeOK, Placed, NoPhantoms, NobodyMissed, [Next]_vars
  PROVE  NoPhantoms' /\ NobodyMissed'
<1>1. ASSUME NEW p \in Peer, NEW c \in Conn, NEW replace \in BOOLEAN, Join(p, c, replace)
      PROVE  NoPhantoms' /\ NobodyMissed'
  BY <1>1, RegisterRoster DEF Join
<1>2. ASSUME NEW p \in Peer, NEW c \in Conn, Resume(p, c)
      PROVE  NoPhantoms' /\ NobodyMissed'
  BY <1>2, RegisterRoster DEF Resume
<1>3. ASSUME NEW c \in Conn, BroadcastLeft(c)
      PROVE  NoPhantoms' /\ NobodyMissed'
  BY <1>3, BroadcastRoster
<1>4. ASSUME NEW c \in Conn, Relay(c)
      PROVE  NoPhantoms' /\ NobodyMissed'
  BY <1>4, RelayRoster
<1>5. ASSUME NEW c \in Conn, Drain(c)
      PROVE  NoPhantoms' /\ NobodyMissed'
  <2>1. /\ client' = client /\ rooms' = rooms /\ revoked' = revoked /\ sock' = sock
        /\ departing' = departing /\ late' = late /\ overflowed' = overflowed
    BY <1>5 DEF Drain, registryVars, historyVars
  <2>2. \A d \in Conn : Listening(d)' => Listening(d)
    BY <2>1 DEF Listening, Attached, Members, PeerOf
  <2>3. \A d \in Conn : Listening(d) => \A q \in Peer : q # PeerOf(d) => (Knows(d, q)' <=> Knows(d, q))
    BY <1>5, DrainKnows DEF Listening
  <2>4. Members' = Members
    BY <2>1 DEF Members
  <2> QED BY <2>1, <2>2, <2>3, <2>4, NothingNew
<1>6. ASSUME client' = client, overflowed' = overflowed,
             Members' \subseteq Members,
             \A d \in Conn : Listening(d)' =>
               /\ ~revoked[d] /\ Attached(d) /\ queue'[d] = queue[d]
               /\ told'[PeerOf(d)] = told[PeerOf(d)]
               /\ Members \cup departing \subseteq (Members \cup departing)'
               /\ \A p \in Peer : <<PeerOf(d), p>> \in late => <<PeerOf(d), p>> \in late'
      PROVE  NoPhantoms' /\ NobodyMissed'
  <2>1. \A d \in Conn : Listening(d)' => Listening(d)
    BY <1>6 DEF Listening
  <2>2. \A d \in Conn : Listening(d)' => \A q : Knows(d, q)' <=> Knows(d, q)
    BY <1>6, KnowsAsBefore
  <2> QED BY <1>6, <2>1, <2>2, NothingNew
<1>7. ASSUME UNCHANGED <<client, overflowed, rooms, queue, departing>>,
             \A d \in Conn : revoked[d] => revoked'[d],
             sock' = sock /\ told' = told /\ late' = late
      PROVE  NoPhantoms' /\ NobodyMissed'
  <2>1. Members' = Members
    BY <1>7 DEF Members
  <2>2. \A d \in Conn : Listening(d)' => ~revoked[d] /\ Attached(d)
    BY <1>7 DEF Listening, Attached, PeerOf
  <2> QED BY <1>6, <1>7, <2>1, <2>2
<1>8. ASSUME NEW p \in Peer, NEW c \in Conn, CheckSender(c, p)
      PROVE  NoPhantoms' /\ NobodyMissed'
  BY <1>7, <1>8 DEF CheckSender, registryVars, browserVars, historyVars
<1>9. ASSUME NEW c \in Conn, SendSnapshot(c)
      PROVE  NoPhantoms' /\ NobodyMissed'
  BY <1>7, <1>9 DEF SendSnapshot, registryVars, historyVars
<1>10. ASSUME NEW u \in User, Kick(u)
       PROVE  NoPhantoms' /\ NobodyMissed'
  <2>1. \A d \in Conn : revoked[d] => revoked'[d]
    BY <1>10 DEF Kick, RevokeRoomUser
  <2> QED BY <1>7, <1>10, <2>1 DEF Kick, browserVars, historyVars
<1>11. ASSUME NEW c \in Conn, KickRemove(c)
       PROVE  NoPhantoms' /\ NobodyMissed'
  <2>1. /\ client[c] # None /\ Remove(c)
        /\ UNCHANGED <<client, revoked, queue, overflowed, sock, told, late>>
    BY <1>11 DEF KickRemove, Placed, browserVars, historyVars
  <2>2. Members' = Members \ {c} /\ departing' = departing \cup (Members \cap {c})
    BY <2>1, Removed
  <2>3. \A d \in Conn : Listening(d)' => ~revoked[d] /\ Attached(d)
    BY <2>1 DEF Listening, Attached, PeerOf
  <2> QED BY <1>6, <2>1, <2>2, <2>3
<1>12. ASSUME NEW c \in Conn, HandlerExit(c)
       PROVE  NoPhantoms' /\ NobodyMissed'
  <2>1. /\ client[c] # None /\ Remove(c) /\ LoseSocket(c, "retry")
        /\ queue' = [queue EXCEPT ![c] = <<>>]
        /\ UNCHANGED <<client, revoked, overflowed>>
    BY <1>12 DEF HandlerExit, Placed
  <2>2. Members' = Members \ {c} /\ departing' = departing \cup (Members \cap {c})
    BY <2>1, Removed
  <2>3. \A d \in Conn : Listening(d)' =>
          /\ ~revoked[d] /\ Attached(d) /\ queue'[d] = queue[d]
          /\ told'[PeerOf(d)] = told[PeerOf(d)]
          /\ \A p \in Peer : <<PeerOf(d), p>> \in late => <<PeerOf(d), p>> \in late'
    <3> SUFFICES ASSUME NEW d \in Conn, d # c, Attached(d)', ~revoked'[d]
                 PROVE  /\ ~revoked[d] /\ Attached(d) /\ queue'[d] = queue[d]
                        /\ told'[PeerOf(d)] = told[PeerOf(d)]
                        /\ \A p \in Peer : <<PeerOf(d), p>> \in late => <<PeerOf(d), p>> \in late'
      BY <2>2 DEF Listening
    <3> QED BY <2>1, LosesItsOwn DEF TypeOK
  <2> QED BY <1>6, <2>1, <2>2, <2>3
<1>13. ASSUME NEW c, NEW code, LoseSocket(c, code),
              UNCHANGED <<client, overflowed, rooms, queue, departing, revoked>>
       PROVE  NoPhantoms' /\ NobodyMissed'
  <2>1. Members' = Members
    BY <1>13 DEF Members
  <2>2. \A d \in Conn : Listening(d)' =>
          /\ ~revoked[d] /\ Attached(d) /\ queue'[d] = queue[d]
          /\ told'[PeerOf(d)] = told[PeerOf(d)]
          /\ \A p \in Peer : <<PeerOf(d), p>> \in late => <<PeerOf(d), p>> \in late'
    BY <1>13, LosesItsOwn DEF Listening
  <2> QED BY <1>6, <1>13, <2>1, <2>2
<1>14. ASSUME NEW c \in Conn, NEW code \in CloseCode, CloseSocket(c, code)
       PROVE  NoPhantoms' /\ NobodyMissed'
  BY <1>13, <1>14 DEF CloseSocket, registryVars
<1>15. ASSUME NEW p \in Peer, Drop(p)
       PROVE  NoPhantoms' /\ NobodyMissed'
  BY <1>13, <1>15 DEF Drop, registryVars
<1>16. ASSUME Restart
       PROVE  NoPhantoms' /\ NobodyMissed'
  <2>1. Members' = {}
    BY <1>16, SignalRoomAssumption DEF Restart, Members
  <2>2. client' = client /\ overflowed' = overflowed /\ ~\E d \in Conn : Listening(d)'
    BY <1>16, <2>1 DEF Restart, Listening
  <2> QED BY <1>6, <2>1, <2>2
<1>17. CASE UNCHANGED vars
  BY <1>7, <1>17 DEF vars, registryVars, serverVars, browserVars, historyVars
<1> QED
  BY <1>1, <1>2, <1>3, <1>4, <1>5, <1>8, <1>9, <1>10, <1>11, <1>12, <1>14, <1>15, <1>16, <1>17
  DEF Next

LEMMA RosterHolds == Spec => [](NoPhantoms /\ NobodyMissed)
<1>1. Init => NoPhantoms /\ NobodyMissed
  BY SignalRoomAssumption DEF Init, RegistryInit, NoPhantoms, NobodyMissed, Listening, Members
<1>2. /\ TypeOK /\ Placed /\ (NoPhantoms /\ NobodyMissed) /\ [Next]_vars
      => (NoPhantoms /\ NobodyMissed)'
  BY RosterStep
<1> QED BY <1>1, <1>2, PlacesHold, PTL DEF Spec

(* What a listening connection was told about others never outlives them:  *)
(* a peer it holds for present is in the room, or its departure is on its  *)
(* way, however registrations, removals, losses and restarts interleave    *)
(* (addWithMode, remove, broadcast, deliver).                              *)
THEOREM PhantomsLeave == Spec => []NoPhantoms
BY RosterHolds, PTL

(* A listening connection knows everybody in the room, except those whose  *)
(* previous connection's departure it heard of after their return          *)
(* (addWithMode, remove).                                                  *)
THEOREM EveryoneMet == Spec => []NobodyMissed
BY RosterHolds, PTL
=============================================================================
