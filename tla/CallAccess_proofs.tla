-------------------------- MODULE CallAccess_proofs --------------------------
(***************************************************************************)
(* Theorems about CallAccess, for any number of rooms, accounts, sessions, *)
(* peer ids, connections, relays and leases.                               *)
(***************************************************************************)
EXTENDS CallAccess, FiniteSetTheorems, TLAPS

-----------------------------------------------------------------------------
(* The registry's critical sections keep it well typed.                    *)
LEMMA VoicesWithoutType ==
  ASSUME RegistryTypeOK, NEW r \in Room, NEW gone
  PROVE  VoicesWithout(r, gone) \in [Peer -> Voice \cup {None}]
BY DEF RegistryTypeOK, VoicesWithout

(* A registration (addWithMode) keeps the registry well typed.             *)
LEMMA AddWithModeType ==
  ASSUME RegistryTypeOK, NEW c \in Conn, NEW k \in Client \cup {None},
         NEW replace \in BOOLEAN, AddWithMode(c, k, replace)
  PROVE  RegistryTypeOK'
<1>1. CASE k.room \in Room
  BY <1>1, VoicesWithoutType DEF RegistryTypeOK, AddWithMode, Replaced
<1>2. CASE k.room \notin Room
  BY <1>2 DEF RegistryTypeOK, AddWithMode
<1> QED BY <1>1, <1>2

(* So does a refused one, whatever part of its evictions it got to.        *)
LEMMA AddRefusedType ==
  ASSUME RegistryTypeOK, NEW k, NEW replace \in BOOLEAN, NEW gone, AddRefused(k, replace, gone)
  PROVE  RegistryTypeOK'
<1>1. CASE k.room \in Room
  BY <1>1, VoicesWithoutType DEF RegistryTypeOK, AddRefused
<1>2. CASE k.room \notin Room
  BY <1>2 DEF RegistryTypeOK, AddRefused
<1> QED BY <1>1, <1>2

(* So does the locked part of remove.                                      *)
LEMMA RemoveClientType ==
  ASSUME RegistryTypeOK, NEW c \in Conn, RemoveClient(c)
  PROVE  /\ rooms' \in [Room -> SUBSET Conn]
         /\ voices' \in [Room -> [Peer -> Voice \cup {None}]]
<1>1. CASE RoomOf(c) \in Room
  BY <1>1, VoicesWithoutType DEF RegistryTypeOK, RemoveClient, NoVoices
<1>2. CASE RoomOf(c) \notin Room
  BY <1>2 DEF RegistryTypeOK, RemoveClient
<1> QED BY <1>1, <1>2

(* An entry of the voice table is a relay or None, and what addVoice and   *)
(* removeVoice make of the table is one again.                             *)
LEMMA VoiceEntryType ==
  ASSUME RegistryTypeOK, NEW v \in Voice \cup {None}, NEW r, NEW p
  PROVE  [voices EXCEPT ![r][p] = v] \in [Room -> [Peer -> Voice \cup {None}]]
<1>1. CASE r \in Room
  <2>1. voices[r] \in [Peer -> Voice \cup {None}]
    BY <1>1 DEF RegistryTypeOK
  <2>2. [voices[r] EXCEPT ![p] = v] \in [Peer -> Voice \cup {None}]
    BY <2>1
  <2> QED BY <1>1, <2>2 DEF RegistryTypeOK
<1>2. CASE r \notin Room
  BY <1>2 DEF RegistryTypeOK
<1> QED BY <1>1, <1>2

(* What a request revokes is a set of scopes, each of one of four forms.   *)
LEMMA ScopesWellFormed ==
  ASSUME NEW scopes \in Revocations, NEW x \in scopes
  PROVE  /\ x \in Scope
         /\ x.session # None => x.room = None /\ x.user = None
<1> USE DEF Nobody, Scope
<1>1. CASE \E S \in SUBSET Session : scopes = Devices(S)
  BY <1>1 DEF Devices
<1>2. CASE \E u \in User : scopes = Account(u)
  BY <1>2 DEF Account
<1>3. CASE \E r \in Room : scopes = WholeRoom(r)
  BY <1>3 DEF WholeRoom
<1>4. CASE \E RU \in SUBSET (Room \X User) : scopes = Places(RU)
  <2>0. PICK RU \in SUBSET (Room \X User) : scopes = Places(RU)
    BY <1>4
  <2>1. PICK ru \in Room \X User : x = [Nobody EXCEPT !.room = ru[1], !.user = ru[2]]
    BY <2>0 DEF Places
  <2>2. ru[1] \in Room /\ ru[2] \in User
    OBVIOUS
  <2> QED BY <2>1, <2>2
<1> QED BY <1>1, <1>2, <1>3, <1>4 DEF Revocations

(* Every variable of CallAccess keeps its type in every step: TypeOK holds *)
(* in all reachable states.                                                *)
THEOREM TypeCorrect == Spec => []TypeOK
<1>1. Init => TypeOK
  BY DEF Init, TypeOK, RegistryInit, RegistryTypeOK, NoVoices
<1>2. TypeOK /\ [Next]_vars => TypeOK'
  <2> SUFFICES ASSUME TypeOK, [Next]_vars PROVE TypeOK'
    OBVIOUS
  <2> USE DEF TypeOK, leaseVars, lockVars
  <2>1. ASSUME NEW c \in Conn, NEW k \in Client, Admit(c, k) PROVE TypeOK'
    BY <2>1 DEF Admit, RegistryTypeOK
  <2>2. ASSUME NEW c \in Conn, NEW replace \in BOOLEAN, Register(c, replace) PROVE TypeOK'
    <3>1. RegistryTypeOK'
      BY <2>2, AddWithModeType DEF Register, RegistryTypeOK
    <3> QED BY <2>2, <3>1 DEF Register
  <2>3. ASSUME NEW c \in Conn, NEW replace \in BOOLEAN, Refuse(c, replace) PROVE TypeOK'
    <3>1. RegistryTypeOK'
      BY <2>3, AddRefusedType DEF Refuse
    <3> QED BY <2>3, <3>1 DEF Refuse
  <2>4. ASSUME NEW c \in Conn, Serve(c) PROVE TypeOK'
    BY <2>4 DEF Serve, registryVars, RegistryTypeOK
  <2>5. ASSUME NEW c \in Conn, Exit(c) PROVE TypeOK'
    <3>1. RegistryTypeOK'
      BY <2>5, RemoveClientType DEF Exit, RegistryTypeOK
    <3> QED BY <2>5, <3>1 DEF Exit
  <2>6. ASSUME NEW c \in Conn, ExpireClient(c) PROVE TypeOK'
    BY <2>6 DEF ExpireClient, RegistryTypeOK
  <2>7. ASSUME NEW v \in Voice, NEW c \in Conn, CheckVoice(v, c) PROVE TypeOK'
    BY <2>7 DEF CheckVoice, RegistryTypeOK
  <2>8. ASSUME NEW v \in Voice, RegisterVoice(v) PROVE TypeOK'
    <3> DEFINE k == client[owner[v]]
    <3>0. [voices EXCEPT ![k.room][k.peer] = v] \in [Room -> [Peer -> Voice \cup {None}]]
      BY VoiceEntryType
    <3>1. voices' \in [Room -> [Peer -> Voice \cup {None}]]
      BY <2>8, <3>0 DEF RegisterVoice, AddVoice, RegistryTypeOK
    <3>2. RegistryTypeOK'
      BY <2>8, <3>1 DEF RegisterVoice, RegistryTypeOK
    <3> QED BY <2>8, <3>2 DEF RegisterVoice
  <2>9. ASSUME NEW v \in Voice, ExitVoice(v) PROVE TypeOK'
    <3>1. RegistryTypeOK'
      BY <2>9, VoiceEntryType DEF ExitVoice, RemoveVoice, RegistryTypeOK
    <3> QED BY <2>9, <3>1 DEF ExitVoice
  <2>10. ASSUME NEW l \in Lease, NEW c \in Conn, CheckLease(l, c) PROVE TypeOK'
    BY <2>10 DEF CheckLease, registryVars, RegistryTypeOK
  <2>11. ASSUME NEW l \in Lease, RegisterLease(l) PROVE TypeOK'
    BY <2>11 DEF RegisterLease, registryVars, RegistryTypeOK
  <2>12. ASSUME NEW l \in Lease, ServeLease(l) PROVE TypeOK'
    BY <2>12 DEF ServeLease, registryVars, RegistryTypeOK
  <2>13. ASSUME NEW l \in Lease, ExitLease(l) PROVE TypeOK'
    BY <2>13 DEF ExitLease, registryVars, RegistryTypeOK
  <2>14. ASSUME Request \/ Decline \/ Release PROVE TypeOK'
    BY <2>14 DEF Request, Decline, Release, registryVars, RegistryTypeOK
  <2>15. ASSUME NEW scopes \in Revocations, Revoke(scopes) PROVE TypeOK'
    <3>1. work' \subseteq Scope
      BY <2>15, ScopesWellFormed DEF Revoke
    <3>2. session' \in [Session -> {"absent", "live", "expired", "revoked"}]
      BY <2>15 DEF Revoke
    <3> QED BY <2>15, <3>1, <3>2 DEF Revoke, registryVars, RegistryTypeOK
  <2>16. ASSUME NEW r \in Room, NEW u \in User, Grant(r, u) PROVE TypeOK'
    BY <2>16 DEF Grant, registryVars, RegistryTypeOK
  <2>17. ASSUME NEW x \in Scope, Collect(x) PROVE TypeOK'
    <3>1. ASSUME EmptyRoom(x.room), UNCHANGED <<client, owner>> PROVE RegistryTypeOK'
      BY <3>1 DEF EmptyRoom, RegistryTypeOK, NoVoices
    <3>2. ASSUME RevokeUser(x.user), UNCHANGED <<client, owner, rooms>> PROVE RegistryTypeOK'
      BY <3>2 DEF RevokeUser, RegistryTypeOK, VoicesWithoutUser
    <3>3. ASSUME RevokeRoomUser(x.room, x.user), UNCHANGED <<client, owner, rooms>>
          PROVE  RegistryTypeOK'
      BY <3>3 DEF RevokeRoomUser, RegistryTypeOK, VoicesWithoutUser
    <3>4. RegistryTypeOK'
      BY <2>17, <3>1, <3>2, <3>3 DEF Collect, RegistryTypeOK
    <3>5. targets' \subseteq Conn
      BY <2>17 DEF Collect, ClientsOf, RegistryTypeOK, Scope
    <3> QED BY <2>17, <3>4, <3>5 DEF Collect
  <2>18. ASSUME NEW c \in Conn, RemoveTarget(c) PROVE TypeOK'
    <3>1. RegistryTypeOK'
      BY <2>18, RemoveClientType DEF RemoveTarget, RegistryTypeOK
    <3> QED BY <2>18, <3>1 DEF RemoveTarget
  <2>19. CASE RevokeSFU
    BY <2>19 DEF RevokeSFU, registryVars, RegistryTypeOK
  <2>20. ASSUME NEW s \in Session, SignIn(s) \/ Expire(s) PROVE TypeOK'
    BY <2>20 DEF SignIn, Expire, registryVars, RegistryTypeOK
  <2>21. CASE UNCHANGED vars
    BY <2>21 DEF vars, registryVars, RegistryTypeOK
  <2> QED
    BY <2>1, <2>2, <2>3, <2>4, <2>5, <2>6, <2>7, <2>8, <2>9, <2>10, <2>11, <2>12, <2>13,
       <2>14, <2>15, <2>16, <2>17, <2>18, <2>19, <2>20, <2>21
       DEF Next, Connections, Mutations
<1> QED BY <1>1, <1>2, PTL DEF Spec
-----------------------------------------------------------------------------
(* What the handlers' stages say about the tables: who is in a room has a  *)
(* handshake behind it and is filed under its own room, relays have an     *)
(* owner, granted leases a claim; and the lock's phases.                   *)
Handlers ==
  /\ \A c \in Conn : stage[c] # "idle" => client[c] # None
  /\ \A r \in Room : \A c \in rooms[r] :
       stage[c] \in {"registered", "serving"} /\ RoomOf(c) = r
  /\ \A v \in Voice : vstage[v] # "idle" => owner[v] # None
  /\ \A l \in Lease : lstage[l] # "idle" => lease[l] # None
  /\ \A l \in leases : lstage[l] \in {"registered", "serving"}

(* Readers and the writer exclude each other; a writer outside has nothing *)
(* in hand.                                                                *)
Locking ==
  /\ lock = "held" => NoReaders
  /\ lock # "held" => work = {} /\ current = None
  /\ current = None => targets = {}
  /\ \A x \in work : x.session # None => x.room = None /\ x.user = None

(* How the registry's critical sections change the rooms.                  *)
LEMMA AddWithModeRooms ==
  ASSUME RegistryTypeOK, NEW c \in Conn, NEW k \in Client,
         NEW replace \in BOOLEAN, AddWithMode(c, k, replace)
  PROVE  /\ \A r \in Room : r # k.room => rooms'[r] = rooms[r]
         /\ rooms'[k.room] = (rooms[k.room] \ Replaced(k, replace)) \cup {c}
BY DEF AddWithMode, RegistryTypeOK, Client

(* Removing a client leaves every other client where it was.               *)
LEMMA RemoveClientRooms ==
  ASSUME RegistryTypeOK, NEW c \in Conn, RemoveClient(c)
  PROVE  \A r \in Room : rooms'[r] = IF r = RoomOf(c) THEN rooms[r] \ {c} ELSE rooms[r]
BY DEF RemoveClient, RegistryTypeOK

(* At the start no handler runs and nobody holds the lock.                 *)
LEMMA HandlersInit == Init => Handlers /\ Locking
BY DEF Init, RegistryInit, Handlers, Locking, NoReaders, Readers

(* No step separates the tables from the handlers' stages.                 *)
LEMMA HandlersStep == TypeOK /\ Handlers /\ [Next]_vars => Handlers'
<1> SUFFICES ASSUME TypeOK, Handlers, [Next]_vars PROVE Handlers'
  OBVIOUS
<1> USE DEF TypeOK, RegistryTypeOK, leaseVars, lockVars, registryVars, RoomOf
<1>1. ASSUME NEW c \in Conn, NEW k \in Client, Admit(c, k) PROVE Handlers'
  <2>1. k # None
    BY RegistryAssumption
  <2> QED BY <1>1, <2>1 DEF Admit, Unused, Handlers
<1>2. ASSUME NEW c \in Conn, NEW replace \in BOOLEAN, Register(c, replace) PROVE Handlers'
  <2>1. client[c] \in Client /\ client' = client
    BY <1>2 DEF Register, Handlers, AddWithMode
  <2>2. \A r \in Room : \A d \in rooms'[r] : d \in rooms[r] \/ (d = c /\ r = client[c].room)
    BY <1>2, <2>1, AddWithModeRooms DEF Register
  <2> QED BY <1>2, <2>1, <2>2 DEF Register, Handlers, AddWithMode
<1>3. ASSUME NEW c \in Conn, NEW replace \in BOOLEAN, Refuse(c, replace) PROVE Handlers'
  <2>1. client' = client /\ owner' = owner /\ \A r \in Room : rooms'[r] \subseteq rooms[r]
    BY <1>3 DEF Refuse, AddRefused
  <2>2. \A r \in Room : c \notin rooms[r]
    BY <1>3 DEF Refuse, Handlers
  <2> QED BY <1>3, <2>1, <2>2 DEF Refuse, Handlers
<1>4. ASSUME NEW c \in Conn, Serve(c) PROVE Handlers'
  BY <1>4 DEF Serve, Handlers
<1>5. ASSUME NEW c \in Conn, Exit(c) PROVE Handlers'
  <2>1. \A r \in Room : rooms'[r] = IF r = RoomOf(c) THEN rooms[r] \ {c} ELSE rooms[r]
    BY <1>5, RemoveClientRooms DEF Exit
  <2>2. \A r \in Room : rooms'[r] \subseteq rooms[r]
    BY <2>1
  <2>3. \A r \in Room : c \in rooms[r] => r = RoomOf(c)
    BY DEF Handlers
  <2>4. \A r \in Room : c \notin rooms'[r]
    BY <2>1, <2>3
  <2> QED BY <1>5, <2>2, <2>4 DEF Exit, Handlers
<1>6. ASSUME NEW c \in Conn, ExpireClient(c) PROVE Handlers'
  BY <1>6 DEF ExpireClient, Handlers
<1>7. ASSUME NEW v \in Voice, NEW c \in Conn, CheckVoice(v, c) PROVE Handlers'
  <2>1. c # None
    BY RegistryAssumption
  <2> QED BY <1>7, <2>1 DEF CheckVoice, Handlers
<1>8. ASSUME NEW v \in Voice, RegisterVoice(v) PROVE Handlers'
  BY <1>8 DEF RegisterVoice, Handlers
<1>9. ASSUME NEW v \in Voice, ExitVoice(v) PROVE Handlers'
  BY <1>9 DEF ExitVoice, Handlers
<1>10. ASSUME NEW l \in Lease, NEW c \in Conn, CheckLease(l, c) PROVE Handlers'
  <2>1. client[c] # None
    BY <1>10 DEF CheckLease, Current, InCall
  <2> QED BY <1>10, <2>1 DEF CheckLease, Handlers
<1>11. ASSUME NEW l \in Lease, RegisterLease(l) PROVE Handlers'
  BY <1>11 DEF RegisterLease, Handlers
<1>12. ASSUME NEW l \in Lease, ServeLease(l) PROVE Handlers'
  BY <1>12 DEF ServeLease, Handlers
<1>13. ASSUME NEW l \in Lease, ExitLease(l) PROVE Handlers'
  BY <1>13 DEF ExitLease, Handlers
<1>14. ASSUME Request \/ Decline \/ Release PROVE Handlers'
  BY <1>14 DEF Request, Decline, Release, Handlers
<1>15. ASSUME NEW scopes \in Revocations, Revoke(scopes) PROVE Handlers'
  BY <1>15 DEF Revoke, Handlers
<1>16. ASSUME NEW r \in Room, NEW u \in User, Grant(r, u) PROVE Handlers'
  BY <1>16 DEF Grant, Handlers
<1>17. ASSUME NEW x \in Scope, Collect(x) PROVE Handlers'
  <2>1. \A r \in Room : rooms'[r] \subseteq rooms[r]
    BY <1>17 DEF Collect, EmptyRoom
  <2> QED BY <1>17, <2>1 DEF Collect, Handlers
<1>18. ASSUME NEW c \in Conn, RemoveTarget(c) PROVE Handlers'
  <2>1. \A r \in Room : rooms'[r] \subseteq rooms[r]
    BY <1>18, RemoveClientRooms DEF RemoveTarget
  <2> QED BY <1>18, <2>1 DEF RemoveTarget, Handlers
<1>19. CASE RevokeSFU
  BY <1>19 DEF RevokeSFU, Handlers
<1>20. ASSUME NEW s \in Session, SignIn(s) \/ Expire(s) PROVE Handlers'
  BY <1>20 DEF SignIn, Expire, Handlers
<1>21. CASE UNCHANGED vars
  BY <1>21 DEF vars, Handlers
<1> QED
  BY <1>1, <1>2, <1>3, <1>4, <1>5, <1>6, <1>7, <1>8, <1>9, <1>10, <1>11, <1>12, <1>13,
     <1>14, <1>15, <1>16, <1>17, <1>18, <1>19, <1>20, <1>21
     DEF Next, Connections, Mutations

(* No step lets a reader and the writer hold the lock together.            *)
LEMMA LockingStep == TypeOK /\ Locking /\ [Next]_vars => Locking'
<1> SUFFICES ASSUME TypeOK, Locking, [Next]_vars PROVE Locking'
  OBVIOUS
<1> USE DEF TypeOK, leaseVars, lockVars, Locking, NoReaders, Readers
<1>1. ASSUME NEW c \in Conn, NEW k \in Client, Admit(c, k) PROVE Locking'
  BY <1>1 DEF Admit
<1>2. ASSUME NEW c \in Conn, NEW replace \in BOOLEAN,
             Register(c, replace) \/ Refuse(c, replace) \/ Serve(c) \/ Exit(c)
      PROVE  Locking'
  BY <1>2 DEF Register, Refuse, Serve, Exit
<1>3. ASSUME NEW c \in Conn, ExpireClient(c) PROVE Locking'
  BY <1>3 DEF ExpireClient
<1>4. ASSUME NEW v \in Voice, NEW c \in Conn, CheckVoice(v, c) PROVE Locking'
  BY <1>4 DEF CheckVoice
<1>5. ASSUME NEW v \in Voice, RegisterVoice(v) \/ ExitVoice(v) PROVE Locking'
  BY <1>5 DEF RegisterVoice, ExitVoice
<1>6. ASSUME NEW l \in Lease, NEW c \in Conn, CheckLease(l, c) PROVE Locking'
  BY <1>6 DEF CheckLease
<1>7. ASSUME NEW l \in Lease, RegisterLease(l) \/ ServeLease(l) \/ ExitLease(l) PROVE Locking'
  BY <1>7 DEF RegisterLease, ServeLease, ExitLease
<1>8. ASSUME Request \/ Decline \/ Release PROVE Locking'
  BY <1>8 DEF Request, Decline, Release
<1>9. ASSUME NEW scopes \in Revocations, Revoke(scopes) PROVE Locking'
  <2>1. \A x \in scopes : x.session # None => x.room = None /\ x.user = None
    BY ScopesWellFormed
  <2> QED BY <1>9, <2>1 DEF Revoke
<1>10. ASSUME NEW r \in Room, NEW u \in User, Grant(r, u) PROVE Locking'
  BY <1>10 DEF Grant
<1>11. ASSUME NEW x \in Scope, Collect(x) PROVE Locking'
  <2>1. x # None
    BY CallAccessAssumption
  <2> QED BY <1>11, <2>1 DEF Collect
<1>12. ASSUME NEW c \in Conn, RemoveTarget(c) PROVE Locking'
  BY <1>12 DEF RemoveTarget
<1>13. CASE RevokeSFU
  BY <1>13 DEF RevokeSFU
<1>14. ASSUME NEW s \in Session, SignIn(s) \/ Expire(s) PROVE Locking'
  BY <1>14 DEF SignIn, Expire
<1>15. CASE UNCHANGED vars
  BY <1>15 DEF vars
<1> QED
  BY <1>1, <1>2, <1>3, <1>4, <1>5, <1>6, <1>7, <1>8, <1>9, <1>10, <1>11, <1>12, <1>13,
     <1>14, <1>15
     DEF Next, Connections, Mutations

Structure == TypeOK /\ Handlers /\ Locking

(* These facts hold in every reachable state.                              *)
LEMMA StructureHolds == Spec => []Structure
<1>1. Init => Handlers /\ Locking
  BY HandlersInit
<1>2. TypeOK /\ TypeOK' /\ (Handlers /\ Locking) /\ [Next]_vars => (Handlers /\ Locking)'
  BY HandlersStep, LockingStep
<1> QED BY <1>1, <1>2, TypeCorrect, PTL DEF Spec, Structure

-----------------------------------------------------------------------------
(* A room never holds two connections under one peer id.                   *)
THEOREM UniqueConnections == Spec => []OneConnectionPerPeer
<1>1. Init => OneConnectionPerPeer
  BY DEF Init, RegistryInit, OneConnectionPerPeer
<1>2. Structure /\ OneConnectionPerPeer /\ [Next]_vars => OneConnectionPerPeer'
  <2> SUFFICES ASSUME Structure, OneConnectionPerPeer, [Next]_vars PROVE OneConnectionPerPeer'
    OBVIOUS
  <2> USE DEF Structure, TypeOK, RegistryTypeOK, registryVars
  <2>1. ASSUME UNCHANGED client, \A r \in Room : rooms'[r] \subseteq rooms[r]
        PROVE  OneConnectionPerPeer'
    BY <2>1 DEF OneConnectionPerPeer, PeerOf
  <2>2. ASSUME NEW c \in Conn, NEW k \in Client, Admit(c, k) PROVE OneConnectionPerPeer'
    <3>1. \A r \in Room : c \notin rooms[r]
      BY <2>2 DEF Admit, Unused, Handlers
    <3> QED BY <2>2, <3>1 DEF Admit, OneConnectionPerPeer, PeerOf
  <2>3. ASSUME NEW c \in Conn, NEW replace \in BOOLEAN, Register(c, replace)
        PROVE  OneConnectionPerPeer'
    <3> DEFINE k == client[c]
    <3>1. k \in Client /\ UNCHANGED client
      BY <2>3 DEF Register, Handlers, AddWithMode
    <3>2. AddWithMode(c, k, replace)
      BY <2>3 DEF Register
    <3>3. \A r \in Room : r # k.room => rooms'[r] = rooms[r]
      BY <3>1, <3>2, AddWithModeRooms
    <3>4. rooms'[k.room] = (rooms[k.room] \ Replaced(k, replace)) \cup {c}
      BY <3>1, <3>2, AddWithModeRooms
    <3>5. \A e \in rooms[k.room] \ Replaced(k, replace) : PeerOf(e) # PeerOf(c)
      BY <3>2 DEF AddWithMode, PeerTaken, Replaced, PeerOf
    <3>6. PeerOf(c)' = PeerOf(c) /\ \A e \in Conn : PeerOf(e)' = PeerOf(e)
      BY <3>1 DEF PeerOf
    <3>7. \A d, e \in rooms'[k.room] : PeerOf(d) = PeerOf(e) => d = e
      BY <3>1, <3>4, <3>5 DEF OneConnectionPerPeer, Client
    <3>8. ASSUME NEW r \in Room, NEW d \in rooms'[r], NEW e \in rooms'[r],
                 PeerOf(d)' = PeerOf(e)'
          PROVE  d = e
      <4>1. PeerOf(d) = PeerOf(e)
        BY <3>1, <3>8 DEF PeerOf
      <4> QED BY <3>3, <3>7, <3>8, <4>1 DEF OneConnectionPerPeer
    <3> QED BY <3>8 DEF OneConnectionPerPeer
  <2>4. ASSUME NEW c \in Conn, NEW replace \in BOOLEAN, Refuse(c, replace)
        PROVE  OneConnectionPerPeer'
    BY <2>1, <2>4 DEF Refuse, AddRefused
  <2>5. ASSUME NEW c \in Conn, Exit(c) \/ RemoveTarget(c) PROVE OneConnectionPerPeer'
    BY <2>1, <2>5, RemoveClientRooms DEF Exit, RemoveTarget
  <2>6. ASSUME NEW x \in Scope, Collect(x) PROVE OneConnectionPerPeer'
    BY <2>1, <2>6 DEF Collect, EmptyRoom
  <2>7. ASSUME NEW c \in Conn, Serve(c) \/ ExpireClient(c) PROVE OneConnectionPerPeer'
    BY <2>1, <2>7 DEF Serve, ExpireClient
  <2>8. ASSUME NEW v \in Voice,
               RegisterVoice(v) \/ ExitVoice(v) \/ \E c \in Conn : CheckVoice(v, c)
        PROVE  OneConnectionPerPeer'
    BY <2>1, <2>8 DEF CheckVoice, RegisterVoice, ExitVoice
  <2>9. ASSUME NEW l \in Lease,
               RegisterLease(l) \/ ServeLease(l) \/ ExitLease(l) \/ \E c \in Conn : CheckLease(l, c)
        PROVE  OneConnectionPerPeer'
    BY <2>1, <2>9 DEF CheckLease, RegisterLease, ServeLease, ExitLease
  <2>10. ASSUME Request \/ Decline \/ Release \/ RevokeSFU PROVE OneConnectionPerPeer'
    BY <2>1, <2>10 DEF Request, Decline, Release, RevokeSFU
  <2>11. ASSUME \/ \E scopes \in Revocations : Revoke(scopes)
                \/ \E r \in Room, u \in User : Grant(r, u)
                \/ \E s \in Session : SignIn(s) \/ Expire(s)
         PROVE  OneConnectionPerPeer'
    BY <2>1, <2>11 DEF Revoke, Grant, SignIn, Expire
  <2>12. CASE UNCHANGED vars
    BY <2>1, <2>12 DEF vars
  <2> QED
    BY <2>2, <2>3, <2>4, <2>5, <2>6, <2>7, <2>8, <2>9, <2>10, <2>11, <2>12
       DEF Next, Connections, Mutations
<1> QED BY <1>1, <1>2, StructureHolds, PTL DEF Spec
-----------------------------------------------------------------------------
(* Steps that only take entries out of the voice table, and keep in their  *)
(* rooms the owners of those that stay.                                    *)
LEMMA VoicesKept ==
  ASSUME Structure, VoiceOwnerInCall, UNCHANGED <<client, owner, vstage>>,
         \A r \in Room, p \in Peer : voices'[r][p] # None =>
           voices'[r][p] = voices[r][p] /\ owner[voices[r][p]] \in rooms'[r]
  PROVE  VoiceOwnerInCall'
BY DEF VoiceOwnerInCall, PeerOf

(* Evicting connections takes out the relays they own.                     *)
LEMMA VoicesWithoutKept ==
  ASSUME Structure, VoiceOwnerInCall, NEW r \in Room, NEW gone, NEW p \in Peer,
         VoicesWithout(r, gone)[p] # None
  PROVE  /\ VoicesWithout(r, gone)[p] = voices[r][p]
         /\ owner[voices[r][p]] \in rooms[r] \ gone
BY DEF VoicesWithout, VoiceOwnerInCall, PeerOf

(* Removing a client takes out the relay it owns, or all of them with the  *)
(* last client of the room.                                                *)
LEMMA RemoveClientVoices ==
  ASSUME Structure, VoiceOwnerInCall, NEW c \in Conn, RemoveClient(c),
         UNCHANGED <<client, owner, vstage>>
  PROVE  VoiceOwnerInCall'
<1> USE DEF Structure, TypeOK, RegistryTypeOK
<1>1. CASE \A r \in Room : ~(r = RoomOf(c) /\ c \in rooms[r])
  <2>1. rooms' = rooms /\ voices' = voices
    BY <1>1 DEF RemoveClient
  <2> QED BY <2>1 DEF VoiceOwnerInCall, PeerOf
<1>2. ASSUME NEW r \in Room, r = RoomOf(c), c \in rooms[r] PROVE VoiceOwnerInCall'
  <2>1. rooms' = [rooms EXCEPT ![r] = @ \ {c}]
    BY <1>2 DEF RemoveClient
  <2>2. CASE rooms[r] = {c}
    <3>1. voices' = [voices EXCEPT ![r] = NoVoices]
      BY <1>2, <2>2 DEF RemoveClient
    <3> QED BY <2>1, <3>1, VoicesKept DEF VoiceOwnerInCall, NoVoices
  <2>3. CASE rooms[r] # {c}
    <3>1. voices' = [voices EXCEPT ![r] = VoicesWithout(r, {c})]
      BY <1>2, <2>3 DEF RemoveClient
    <3>2. ASSUME NEW q \in Room, NEW p \in Peer, voices'[q][p] # None
          PROVE  voices'[q][p] = voices[q][p] /\ owner[voices[q][p]] \in rooms'[q]
      <4>1. CASE q = r
        BY <2>1, <3>1, <3>2, <4>1, VoicesWithoutKept
      <4>2. CASE q # r
        BY <2>1, <3>1, <3>2, <4>2 DEF VoiceOwnerInCall
      <4> QED BY <4>1, <4>2
    <3> QED BY <3>2, VoicesKept
  <2> QED BY <2>2, <2>3
<1> QED BY <1>1, <1>2

(* Everything in the voice table leans on a signaling connection that is   *)
(* in the same room under the same peer id.                                *)
THEOREM VoicesHaveOwners == Spec => []VoiceOwnerInCall
<1>1. Init => VoiceOwnerInCall
  BY DEF Init, RegistryInit, VoiceOwnerInCall, NoVoices
<1>2. Structure /\ VoiceOwnerInCall /\ [Next]_vars => VoiceOwnerInCall'
  <2> SUFFICES ASSUME Structure, VoiceOwnerInCall, [Next]_vars PROVE VoiceOwnerInCall'
    OBVIOUS
  <2> USE DEF Structure, TypeOK, RegistryTypeOK, registryVars
  <2>1. ASSUME UNCHANGED <<client, rooms, voices, owner, vstage>> PROVE VoiceOwnerInCall'
    BY <2>1 DEF VoiceOwnerInCall, PeerOf
  <2>2. ASSUME NEW c \in Conn, NEW k \in Client, Admit(c, k) PROVE VoiceOwnerInCall'
    <3>1. \A r \in Room : c \notin rooms[r]
      BY <2>2 DEF Admit, Unused, Handlers
    <3> QED BY <2>2, <3>1 DEF Admit, VoiceOwnerInCall, PeerOf
  <2>3. ASSUME NEW c \in Conn, NEW replace \in BOOLEAN, Register(c, replace)
        PROVE  VoiceOwnerInCall'
    <3> DEFINE k == client[c]
               gone == Replaced(k, replace)
    <3>1. k \in Client /\ k.room \in Room /\ UNCHANGED <<client, owner, vstage>>
      BY <2>3 DEF Register, Handlers, AddWithMode, Client
    <3>2. /\ rooms' = [rooms EXCEPT ![k.room] = (@ \ gone) \cup {c}]
          /\ voices' = [voices EXCEPT ![k.room] = VoicesWithout(k.room, gone)]
      BY <2>3 DEF Register, AddWithMode
    <3> HIDE DEF k, gone
    <3>3. ASSUME NEW r \in Room, NEW p \in Peer, voices'[r][p] # None
          PROVE  voices'[r][p] = voices[r][p] /\ owner[voices[r][p]] \in rooms'[r]
      <4>1. CASE r = k.room
        BY <3>1, <3>2, <3>3, <4>1, VoicesWithoutKept
      <4>2. CASE r # k.room
        BY <3>1, <3>2, <3>3, <4>2 DEF VoiceOwnerInCall
      <4> QED BY <4>1, <4>2
    <3> QED BY <3>1, <3>3, VoicesKept
  <2>4. ASSUME NEW c \in Conn, NEW replace \in BOOLEAN, Refuse(c, replace)
        PROVE  VoiceOwnerInCall'
    <3> DEFINE k == client[c]
    <3>1. k.room \in Room /\ UNCHANGED <<client, owner, vstage>>
      BY <2>4 DEF Refuse, Handlers, AddRefused, Client
    <3>2. PICK gone : /\ rooms' = [rooms EXCEPT ![k.room] = @ \ gone]
                      /\ voices' = [voices EXCEPT ![k.room] = VoicesWithout(k.room, gone)]
      BY <2>4 DEF Refuse, AddRefused
    <3> HIDE DEF k
    <3>3. ASSUME NEW r \in Room, NEW p \in Peer, voices'[r][p] # None
          PROVE  voices'[r][p] = voices[r][p] /\ owner[voices[r][p]] \in rooms'[r]
      <4>1. CASE r = k.room
        BY <3>1, <3>2, <3>3, <4>1, VoicesWithoutKept
      <4>2. CASE r # k.room
        BY <3>1, <3>2, <3>3, <4>2 DEF VoiceOwnerInCall
      <4> QED BY <4>1, <4>2
    <3> QED BY <3>1, <3>3, VoicesKept
  <2>5. ASSUME NEW c \in Conn, Exit(c) \/ RemoveTarget(c) PROVE VoiceOwnerInCall'
    BY <2>5, RemoveClientVoices DEF Exit, RemoveTarget
  <2>6. ASSUME NEW c \in Conn, Serve(c) \/ ExpireClient(c) PROVE VoiceOwnerInCall'
    BY <2>1, <2>6 DEF Serve, ExpireClient
  <2>7. ASSUME NEW v \in Voice, NEW c \in Conn, CheckVoice(v, c) PROVE VoiceOwnerInCall'
    BY <2>7 DEF CheckVoice, VoiceOwnerInCall, PeerOf
  <2>8. ASSUME NEW v \in Voice, RegisterVoice(v) PROVE VoiceOwnerInCall'
    <3> DEFINE k == client[owner[v]]
    <3>1. UNCHANGED <<client, owner, rooms>> /\ k \in Client \cup {None}
      BY <2>8 DEF RegisterVoice, Handlers
    <3>2. ASSUME AddVoice(v, k.room, k.peer), vstage' = [vstage EXCEPT ![v] = "serving"]
          PROVE  VoiceOwnerInCall'
      <4>1. /\ owner[v] \in rooms[k.room] /\ PeerOf(owner[v]) = k.peer
            /\ voices' = [voices EXCEPT ![k.room][k.peer] = v]
        BY <3>2 DEF AddVoice
      <4> HIDE DEF k
      <4> QED BY <3>1, <3>2, <4>1 DEF VoiceOwnerInCall, PeerOf
    <3>3. ASSUME voices' = voices, vstage[v] = "checked", vstage' = [vstage EXCEPT ![v] = "idle"]
          PROVE  VoiceOwnerInCall'
      BY <3>1, <3>3 DEF VoiceOwnerInCall, PeerOf
    <3> QED BY <2>8, <3>2, <3>3 DEF RegisterVoice
  <2>9. ASSUME NEW v \in Voice, ExitVoice(v) PROVE VoiceOwnerInCall'
    <3> DEFINE k == client[owner[v]]
    <3>1. UNCHANGED <<client, owner, rooms>> /\ vstage' = [vstage EXCEPT ![v] = "idle"]
      BY <2>9 DEF ExitVoice
    <3>2. voices' = IF voices[k.room][k.peer] = v
                    THEN [voices EXCEPT ![k.room][k.peer] = None] ELSE voices
      BY <2>9 DEF ExitVoice, RemoveVoice
    <3>3. \A r \in Room, p \in Peer : voices[r][p] = v => r = k.room /\ p = k.peer
      BY RegistryAssumption DEF VoiceOwnerInCall, Handlers, RoomOf, PeerOf
    <3> HIDE DEF k
    <3>4. ASSUME NEW r \in Room, NEW p \in Peer, voices'[r][p] # None
          PROVE  voices'[r][p] = voices[r][p] /\ voices[r][p] # v
      BY <3>2, <3>3, <3>4
    <3> QED BY <3>1, <3>4 DEF VoiceOwnerInCall, PeerOf
  <2>10. ASSUME NEW l \in Lease,
               RegisterLease(l) \/ ServeLease(l) \/ ExitLease(l) \/ \E c \in Conn : CheckLease(l, c)
        PROVE  VoiceOwnerInCall'
    BY <2>1, <2>10 DEF CheckLease, RegisterLease, ServeLease, ExitLease
  <2>11. ASSUME Request \/ Decline \/ Release \/ RevokeSFU PROVE VoiceOwnerInCall'
    BY <2>1, <2>11 DEF Request, Decline, Release, RevokeSFU
  <2>12. ASSUME \/ \E scopes \in Revocations : Revoke(scopes)
                \/ \E r \in Room, u \in User : Grant(r, u)
                \/ \E s \in Session : SignIn(s) \/ Expire(s)
         PROVE  VoiceOwnerInCall'
    BY <2>1, <2>12 DEF Revoke, Grant, SignIn, Expire
  <2>13. ASSUME NEW x \in Scope, Collect(x) PROVE VoiceOwnerInCall'
    <3>1. UNCHANGED <<client, owner, vstage>>
      BY <2>13 DEF Collect
    <3>2. ASSUME EmptyRoom(x.room) PROVE VoiceOwnerInCall'
      BY <3>1, <3>2, VoicesKept DEF EmptyRoom, NoVoices, VoiceOwnerInCall
    <3>3. ASSUME RevokeUser(x.user), UNCHANGED rooms PROVE VoiceOwnerInCall'
      BY <3>1, <3>3, VoicesKept DEF RevokeUser, VoicesWithoutUser, VoiceOwnerInCall
    <3>4. ASSUME RevokeRoomUser(x.room, x.user), UNCHANGED rooms PROVE VoiceOwnerInCall'
      BY <3>1, <3>4, VoicesKept DEF RevokeRoomUser, VoicesWithoutUser, VoiceOwnerInCall
    <3> QED BY <2>1, <2>13, <3>1, <3>2, <3>3, <3>4 DEF Collect
  <2>14. CASE UNCHANGED vars
    BY <2>1, <2>14 DEF vars
  <2> QED
    BY <2>2, <2>3, <2>4, <2>5, <2>6, <2>7, <2>8, <2>9, <2>10, <2>11, <2>12, <2>13, <2>14
       DEF Next, Connections, Mutations
<1> QED BY <1>1, <1>2, StructureHolds, PTL DEF Spec
-----------------------------------------------------------------------------
(* The media server is granted at most one lease per peer of a room, and   *)
(* never more leases than the API has capacity for.                        *)
THEOREM LeasesAreUnique == Spec => []LeasesUnique
<1> DEFINE Inv == LeasesUnique /\ IsFiniteSet(leases)
<1>1. Init => Inv
  BY FS_EmptySet, CallAccessAssumption DEF Init, LeasesUnique
<1>2. Structure /\ Inv /\ [Next]_vars => Inv'
  <2> SUFFICES ASSUME Structure, Inv, [Next]_vars PROVE Inv'
    OBVIOUS
  <2> USE DEF Structure, TypeOK, leaseVars
  <2>1. ASSUME leases' \subseteq leases, \A l \in leases : lease'[l] = lease[l] PROVE Inv'
    <3>1. IsFiniteSet(leases') /\ Cardinality(leases') <= Cardinality(leases)
      BY <2>1, FS_Subset
    <3>2. Cardinality(leases) \in Nat /\ Cardinality(leases') \in Nat
      BY <3>1, FS_CardinalityType
    <3>3. Cardinality(leases') <= LeaseCapacity
      BY <3>1, <3>2, CallAccessAssumption DEF LeasesUnique
    <3>4. \A l, m \in leases' : SamePeer(l, m)' => l = m
      BY <2>1 DEF LeasesUnique, SamePeer
    <3> QED BY <3>1, <3>3, <3>4 DEF LeasesUnique
  <2>2. ASSUME NEW l \in Lease, RegisterLease(l) PROVE Inv'
    <3>1. lease' = lease
      BY <2>2 DEF RegisterLease
    <3>2. CASE UNCHANGED leases
      BY <2>1, <3>1, <3>2
    <3>3. CASE LeaseFits(l) /\ leases' = leases \cup {l}
      <4>0. IsFiniteSet(leases') /\ Cardinality(leases) \in Nat /\ Cardinality(leases') \in Nat
        BY <3>3, FS_AddElement, FS_CardinalityType
      <4>1. Cardinality(leases') <= Cardinality(leases) + 1
        <5>1. Cardinality(leases') =
                IF l \in leases THEN Cardinality(leases) ELSE Cardinality(leases) + 1
          BY <3>3, FS_AddElement
        <5> QED BY <4>0, <5>1
      <4>3. Cardinality(leases') <= LeaseCapacity
        BY <3>3, <4>0, <4>1, CallAccessAssumption DEF LeaseFits
      <4>4. \A m, n \in leases' : SamePeer(m, n)' => m = n
        BY <3>1, <3>3 DEF LeaseFits, LeasesUnique, SamePeer
      <4> QED BY <4>0, <4>3, <4>4 DEF LeasesUnique
    <3> QED BY <2>2, <3>2, <3>3 DEF RegisterLease
  <2>3. ASSUME NEW l \in Lease, NEW c \in Conn, CheckLease(l, c) PROVE Inv'
    <3>1. l \notin leases
      BY <2>3 DEF CheckLease, Handlers
    <3> QED BY <2>1, <2>3, <3>1 DEF CheckLease
  <2>4. ASSUME NEW l \in Lease, ServeLease(l) \/ ExitLease(l) PROVE Inv'
    BY <2>1, <2>4 DEF ServeLease, ExitLease
  <2>5. ASSUME NEW c \in Conn,
               \/ \E k \in Client : Admit(c, k)
               \/ \E replace \in BOOLEAN : Register(c, replace) \/ Refuse(c, replace)
               \/ Serve(c) \/ Exit(c) \/ ExpireClient(c) \/ RemoveTarget(c)
        PROVE  Inv'
    BY <2>1, <2>5 DEF Admit, Register, Refuse, Serve, Exit, ExpireClient, RemoveTarget
  <2>6. ASSUME NEW v \in Voice,
               RegisterVoice(v) \/ ExitVoice(v) \/ \E c \in Conn : CheckVoice(v, c)
        PROVE  Inv'
    BY <2>1, <2>6 DEF CheckVoice, RegisterVoice, ExitVoice
  <2>7. ASSUME Request \/ Decline \/ Release \/ RevokeSFU PROVE Inv'
    BY <2>1, <2>7 DEF Request, Decline, Release, RevokeSFU
  <2>8. ASSUME \/ \E scopes \in Revocations : Revoke(scopes)
               \/ \E r \in Room, u \in User : Grant(r, u)
               \/ \E x \in Scope : Collect(x)
               \/ \E s \in Session : SignIn(s) \/ Expire(s)
        PROVE  Inv'
    BY <2>1, <2>8 DEF Revoke, Grant, Collect, SignIn, Expire
  <2>9. CASE UNCHANGED vars
    BY <2>1, <2>9 DEF vars
  <2> QED
    BY <2>2, <2>3, <2>4, <2>5, <2>6, <2>7, <2>8, <2>9 DEF Next, Connections, Mutations
<1> QED BY <1>1, <1>2, StructureHolds, PTL DEF Spec
-----------------------------------------------------------------------------
(* PendingCovered is not inductive alone: what a handshake has checked     *)
(* under the read lock must still be true when it registers.               *)
ConnFence ==
  /\ \A c \in Conn : stage[c] = "admitted" => Authorized(client[c])
  /\ \A c \in Conn : Current(c) =>
       \/ Authorized(client[c]) \/ c \in targets
       \/ \E x \in work : Covers(x, client[c])

LeaseFence ==
  /\ \A l \in Lease : lstage[l] = "checked" => Authorized(lease[l])
  /\ \A l \in leases :
       \/ Authorized(lease[l])
       \/ \E x \in work \cup ({current} \ {None}) : Covers(x, lease[l])

(* Steps that end nobody's access, and give up no target before it is out. *)
LEMMA ConnFenceKept ==
  ASSUME Structure, ConnFence, UNCHANGED client,
         \A k \in Client : Authorized(k) => Authorized(k)',
         \A c \in Conn : stage'[c] = "admitted" => stage[c] = "admitted",
         \A c \in Conn : Current(c)' => /\ Current(c) \/ stage[c] = "admitted"
                                        /\ c \in targets => c \in targets',
         work \subseteq work'
  PROVE  ConnFence'
<1> USE DEF Structure, TypeOK, RegistryTypeOK, Handlers
<1>1. \A c \in Conn : Current(c) \/ stage[c] = "admitted" => client[c] \in Client
  BY DEF Current, InCall
<1>2. \A c \in Conn : stage'[c] = "admitted" => Authorized(client[c])'
  BY <1>1 DEF ConnFence, Authorized
<1>3. ASSUME NEW c \in Conn, Current(c)'
      PROVE  \/ Authorized(client[c])' \/ c \in targets'
             \/ \E x \in work' : Covers(x, client[c])'
  <2>1. client'[c] = client[c] /\ client[c] \in Client
    BY <1>1, <1>3
  <2>2. CASE Authorized(client[c])
    BY <2>1, <2>2 DEF Authorized
  <2>3. CASE c \in targets
    BY <1>3, <2>3
  <2>4. CASE \E x \in work : Covers(x, client[c])
    BY <2>1, <2>4 DEF Covers
  <2> QED BY <1>3, <2>2, <2>3, <2>4 DEF ConnFence
<1> QED BY <1>2, <1>3 DEF ConnFence

(* The same for leases.                                                    *)
LEMMA LeaseFenceKept ==
  ASSUME Structure, LeaseFence, UNCHANGED lease,
         \A k \in Client : Authorized(k) => Authorized(k)',
         \A l \in Lease : lstage'[l] = "checked" => lstage[l] = "checked",
         \A l \in leases' : l \in leases \/ lstage[l] = "checked",
         work \cup ({current} \ {None}) \subseteq work' \cup ({current'} \ {None}),
         leases' \subseteq Lease
  PROVE  LeaseFence'
<1> USE DEF Structure, TypeOK, Handlers
<1>1. \A l \in Lease : l \in leases \/ lstage[l] = "checked" => lease[l] \in Client
  OBVIOUS
<1>2. \A l \in Lease : lstage'[l] = "checked" => Authorized(lease[l])'
  BY <1>1 DEF LeaseFence, Authorized
<1>3. ASSUME NEW l \in leases'
      PROVE  \/ Authorized(lease[l])'
             \/ \E x \in work' \cup ({current'} \ {None}) : Covers(x, lease[l])'
  <2>1. lease'[l] = lease[l] /\ lease[l] \in Client
    BY <1>1
  <2>2. CASE Authorized(lease[l])
    BY <2>1, <2>2 DEF Authorized
  <2>3. CASE \E x \in work \cup ({current} \ {None}) : Covers(x, lease[l])
    BY <2>1, <2>3 DEF Covers
  <2> QED BY <2>2, <2>3 DEF LeaseFence
<1> QED BY <1>2, <1>3 DEF LeaseFence

(* Whoever loses access by a request's commit is in one of its scopes.     *)
LEMMA RevokedIsCovered ==
  ASSUME Structure, NEW scopes \in Revocations, Revoke(scopes),
         NEW k \in Client, Authorized(k), ~Authorized(k)'
  PROVE  \E x \in scopes : Covers(x, k)
<1>1. k.session \in Session /\ k.room \in Room /\ SessionUser[k.session] \in User
  BY RegistryAssumption DEF Client
<1>2. CASE SessionEnds(k.session, scopes)
  <2>1. PICK x \in scopes : x.room = None /\ (x.session = k.session \/ x.user = SessionUser[k.session])
    BY <1>2 DEF SessionEnds
  <2>2. x.session # None => x.user = None
    BY ScopesWellFormed
  <2> QED BY <1>1, <2>1, <2>2, RegistryAssumption DEF Covers
<1>3. CASE PlaceEnds(<<k.room, SessionUser[k.session]>>, scopes)
  BY <1>3 DEF PlaceEnds, Covers
<1>4. SessionEnds(k.session, scopes) \/ PlaceEnds(<<k.room, SessionUser[k.session]>>, scopes)
  BY <1>1 DEF Revoke, Authorized, Structure, TypeOK
<1> QED BY <1>2, <1>3, <1>4

(* No step lets a connection register, or stay, behind the sweep.          *)
LEMMA ConnFenceStep == Structure /\ ConnFence /\ [Next]_vars => ConnFence'
<1> SUFFICES ASSUME Structure, ConnFence, [Next]_vars PROVE ConnFence'
  OBVIOUS
<1> USE DEF Structure, TypeOK, RegistryTypeOK, leaseVars, lockVars, registryVars
<1>1. ASSUME UNCHANGED <<client, rooms, revoked, stage, targets>>, work \subseteq work',
             \A k \in Client : Authorized(k) => Authorized(k)'
      PROVE  ConnFence'
  BY <1>1, ConnFenceKept DEF Current, InCall, RoomOf
<1>2. ASSUME UNCHANGED <<session, permitted>>, NEW k \in Client, Authorized(k)
      PROVE  Authorized(k)'
  BY <1>2 DEF Authorized
<1>3. ASSUME NEW c \in Conn, NEW k \in Client, Admit(c, k) PROVE ConnFence'
  <2>1. \A r \in Room : c \notin rooms[r]
    BY <1>3 DEF Admit, Unused, Handlers
  <2>2. /\ client' = [client EXCEPT ![c] = k]
        /\ stage' = [stage EXCEPT ![c] = "admitted"]
        /\ revoked' = [revoked EXCEPT ![c] = FALSE]
        /\ UNCHANGED <<rooms, session, permitted, targets, work>>
        /\ Authorized(k)
    BY <1>3 DEF Admit
  <2>3. ASSUME NEW d \in Conn, d # c
        PROVE  /\ Authorized(client[d])' = Authorized(client[d])
               /\ Current(d)' = Current(d)
               /\ \A x : Covers(x, client[d])' = Covers(x, client[d])
    BY <2>2, <2>3 DEF Authorized, Current, InCall, RoomOf, Covers
  <2>4. Authorized(client[c])'
    BY <2>2 DEF Authorized
  <2> QED BY <2>2, <2>3, <2>4 DEF ConnFence
<1>4. ASSUME NEW c \in Conn, NEW replace \in BOOLEAN, Register(c, replace) PROVE ConnFence'
  <2>1. /\ client[c] \in Client /\ AddWithMode(c, client[c], replace)
        /\ client' = client /\ stage' = [stage EXCEPT ![c] = "registered"]
        /\ UNCHANGED <<session, permitted, targets, work>>
    BY <1>4 DEF Register, Handlers, AddWithMode
  <2>2. \A r \in Room : rooms'[r] \subseteq rooms[r] \cup {c}
    BY <2>1, AddWithModeRooms
  <2>3. \A d \in Conn : revoked[d] => revoked'[d]
    BY <2>1 DEF AddWithMode
  <2>4. \A d \in Conn : Current(d)' => Current(d) \/ d = c
    BY <2>1, <2>2, <2>3 DEF Current, InCall, RoomOf, Client
  <2> QED BY <1>2, <1>4, <2>1, <2>4, ConnFenceKept DEF Register
<1>5. ASSUME NEW c \in Conn, NEW replace \in BOOLEAN, Refuse(c, replace) PROVE ConnFence'
  <2>1. /\ UNCHANGED <<client, session, permitted, targets, work>>
        /\ stage' = [stage EXCEPT ![c] = "idle"]
        /\ \A r \in Room : rooms'[r] \subseteq rooms[r]
        /\ \A d \in Conn : revoked[d] => revoked'[d]
    BY <1>5 DEF Refuse, AddRefused
  <2>2. \A d \in Conn : Current(d)' => Current(d)
    BY <2>1 DEF Current, InCall, RoomOf, Client
  <2> QED BY <1>2, <2>1, <2>2, ConnFenceKept
<1>6. ASSUME NEW c \in Conn, Serve(c) \/ Exit(c) \/ ExpireClient(c) PROVE ConnFence'
  <2>1. \A r \in Room : rooms'[r] \subseteq rooms[r]
    BY <1>6, RemoveClientRooms DEF Serve, Exit, ExpireClient
  <2>2. /\ UNCHANGED <<client, session, permitted, targets, work>>
        /\ \A d \in Conn : stage'[d] = "admitted" => stage[d] = "admitted"
        /\ \A d \in Conn : revoked[d] => revoked'[d]
    BY <1>6 DEF Serve, Exit, ExpireClient
  <2>3. \A d \in Conn : Current(d)' => Current(d)
    BY <2>1, <2>2 DEF Current, InCall, RoomOf, Client
  <2> QED BY <1>2, <2>2, <2>3, ConnFenceKept
<1>7. ASSUME NEW v \in Voice,
             RegisterVoice(v) \/ ExitVoice(v) \/ \E c \in Conn : CheckVoice(v, c)
      PROVE  ConnFence'
  BY <1>1, <1>2, <1>7 DEF CheckVoice, RegisterVoice, ExitVoice
<1>8. ASSUME NEW l \in Lease,
             RegisterLease(l) \/ ServeLease(l) \/ ExitLease(l) \/ \E c \in Conn : CheckLease(l, c)
      PROVE  ConnFence'
  BY <1>1, <1>2, <1>8 DEF CheckLease, RegisterLease, ServeLease, ExitLease
<1>9. ASSUME Request \/ Decline \/ Release \/ RevokeSFU PROVE ConnFence'
  BY <1>1, <1>2, <1>9 DEF Request, Decline, Release, RevokeSFU
<1>10. ASSUME NEW r \in Room, NEW u \in User, Grant(r, u) PROVE ConnFence'
  <2>1. \A k \in Client : Authorized(k) => Authorized(k)'
    BY <1>10 DEF Grant, Authorized
  <2> QED BY <1>1, <1>10, <2>1 DEF Grant
<1>11. ASSUME NEW s \in Session, SignIn(s) \/ Expire(s) PROVE ConnFence'
  <2>0. permitted' = permitted /\ \A t \in Session : session[t] # "revoked" => session'[t] # "revoked"
    BY <1>11 DEF SignIn, Expire
  <2>1. \A k \in Client : Authorized(k) => Authorized(k)'
    BY <2>0 DEF Authorized, Client
  <2> QED BY <1>1, <1>11, <2>1 DEF SignIn, Expire
<1>12. ASSUME NEW scopes \in Revocations, Revoke(scopes) PROVE ConnFence'
  <2>1. \A c \in Conn : stage[c] # "admitted"
    BY <1>12 DEF Revoke, NoReaders, Readers
  <2>2. work = {} /\ targets = {}
    BY <1>12 DEF Revoke, Locking
  <2>3. UNCHANGED <<client, rooms, revoked, stage, targets>> /\ work' = scopes
    BY <1>12 DEF Revoke
  <2>4. ASSUME NEW c \in Conn, Current(c)', ~Authorized(client[c])'
        PROVE  \E x \in work' : Covers(x, client[c])'
    <3> DEFINE k == client[c]
    <3>1. Current(c) /\ k \in Client /\ client'[c] = k
      BY <2>3, <2>4 DEF Current, InCall, RoomOf
    <3>2. Authorized(k)
      BY <2>2, <3>1 DEF ConnFence
    <3>3. ~Authorized(k)'
      BY <2>4
    <3> HIDE DEF k
    <3>4. \E x \in scopes : Covers(x, k)
      <4>1. ASSUME NEW m \in Client, Authorized(m), ~Authorized(m)'
            PROVE  \E x \in scopes : Covers(x, m)
        BY <1>12, <4>1, RevokedIsCovered
      <4>2. ~(session'[k.session] # "revoked" /\ <<k.room, SessionUser[k.session]>> \in permitted')
        BY <2>4, <3>1 DEF Authorized
      <4> QED BY <3>1, <3>2, <4>1, <4>2 DEF Authorized
    <3> QED BY <2>3, <3>1, <3>4 DEF Covers
  <2> QED BY <2>1, <2>3, <2>4 DEF ConnFence
<1>13. ASSUME NEW x \in Scope, Collect(x) PROVE ConnFence'
  <2>1. /\ UNCHANGED <<client, session, permitted, stage>>
        /\ work' = work \ {x} /\ targets = {}
        /\ \A c \in Conn : stage[c] # "admitted"
    BY <1>13 DEF Collect, Locking, NoReaders, Readers
  <2>2. /\ \A r \in Room : rooms'[r] \subseteq rooms[r]
        /\ \A d \in Conn : revoked[d] => revoked'[d]
    BY <1>13 DEF Collect, EmptyRoom, RevokeUser, RevokeRoomUser
  <2>3. \A c \in Conn : Current(c)' => Current(c) /\ client[c] \in Client
    BY <2>1, <2>2 DEF Current, InCall, RoomOf, Client
  <2>4. ASSUME NEW c \in Conn, Current(c)', Covers(x, client[c]) PROVE c \in targets'
    <3>1. InCall(c) /\ client[c].room \in Room
      BY <2>3, <2>4 DEF Current, Client
    <3>2. CASE x.session # None /\ targets' = {d \in Conn : InCall(d) /\ client[d].session = x.session}
      BY <2>4, <3>1, <3>2 DEF Covers
    <3>3. CASE x.room # None /\ EmptyRoom(x.room)
      BY <2>1, <2>4, <3>1, <3>3 DEF Covers, EmptyRoom, Current, InCall, RoomOf
    <3>4. CASE x.user # None /\ targets' = {d \in Conn : InCall(d) /\ UserOf(d) = x.user}
      BY <2>4, <3>1, <3>4 DEF Covers, UserOf
    <3>5. CASE x.user # None /\ x.room # None /\ targets' = ClientsOf(x.room, x.user)
      BY <2>4, <3>1, <3>5 DEF Covers, UserOf, ClientsOf, InCall, RoomOf
    <3> QED BY <1>13, <3>2, <3>3, <3>4, <3>5 DEF Collect
  <2>5. ASSUME NEW c \in Conn, Current(c)'
        PROVE  \/ Authorized(client[c])' \/ c \in targets'
               \/ \E y \in work' : Covers(y, client[c])'
    <3>1. Authorized(client[c]) \/ \E y \in work : Covers(y, client[c])
      BY <2>1, <2>3, <2>5 DEF ConnFence
    <3>2. CASE Authorized(client[c])
      BY <2>1, <3>2 DEF Authorized
    <3>3. ASSUME NEW y \in work, Covers(y, client[c])
          PROVE  c \in targets' \/ \E z \in work' : Covers(z, client[c])'
      BY <2>1, <2>4, <2>5, <3>3 DEF Covers
    <3> QED BY <3>1, <3>2, <3>3
  <2> QED BY <2>1, <2>5 DEF ConnFence
<1>14. ASSUME NEW c \in Conn, RemoveTarget(c) PROVE ConnFence'
  <2>1. \A r \in Room : rooms'[r] \subseteq rooms[r]
    BY <1>14, RemoveClientRooms DEF RemoveTarget
  <2>2. /\ UNCHANGED <<client, session, permitted, stage, work>>
        /\ targets' = targets \ {c} /\ revoked' = [revoked EXCEPT ![c] = TRUE]
    BY <1>14 DEF RemoveTarget
  <2>3. \A d \in Conn : Current(d)' => Current(d) /\ d # c
    BY <2>1, <2>2 DEF Current, InCall, RoomOf, Client
  <2> QED BY <1>2, <2>2, <2>3, ConnFenceKept
<1>15. CASE UNCHANGED vars
  BY <1>1, <1>2, <1>15 DEF vars
<1> QED
  BY <1>3, <1>4, <1>5, <1>6, <1>7, <1>8, <1>9, <1>10, <1>11, <1>12, <1>13, <1>14, <1>15
     DEF Next, Connections, Mutations

(* No step lets a media lease register, or stay, behind it.                *)
LEMMA LeaseFenceStep == Structure /\ LeaseFence /\ [Next]_vars => LeaseFence'
<1> SUFFICES ASSUME Structure, LeaseFence, [Next]_vars PROVE LeaseFence'
  OBVIOUS
<1> USE DEF Structure, TypeOK, leaseVars, lockVars
<1>1. ASSUME UNCHANGED <<leaseVars, work, current>>,
             \A k \in Client : Authorized(k) => Authorized(k)'
      PROVE  LeaseFence'
  BY <1>1, LeaseFenceKept
<1>2. ASSUME UNCHANGED <<session, permitted>>, NEW k \in Client, Authorized(k)
      PROVE  Authorized(k)'
  BY <1>2 DEF Authorized
<1>3. ASSUME NEW c \in Conn,
             \/ \E k \in Client : Admit(c, k)
             \/ \E replace \in BOOLEAN : Register(c, replace) \/ Refuse(c, replace)
             \/ Serve(c) \/ Exit(c) \/ ExpireClient(c) \/ RemoveTarget(c)
      PROVE  LeaseFence'
  BY <1>1, <1>2, <1>3 DEF Admit, Register, Refuse, Serve, Exit, ExpireClient, RemoveTarget
<1>4. ASSUME NEW v \in Voice,
             RegisterVoice(v) \/ ExitVoice(v) \/ \E c \in Conn : CheckVoice(v, c)
      PROVE  LeaseFence'
  BY <1>1, <1>2, <1>4 DEF CheckVoice, RegisterVoice, ExitVoice
<1>5. ASSUME NEW l \in Lease, NEW c \in Conn, CheckLease(l, c) PROVE LeaseFence'
  <2>1. l \notin leases
    BY <1>5 DEF CheckLease, Handlers
  <2>2. /\ lease' = [lease EXCEPT ![l] = client[c]]
        /\ lstage' = [lstage EXCEPT ![l] = "checked"]
        /\ UNCHANGED <<leases, session, permitted, work, current>>
        /\ Authorized(client[c])
    BY <1>5 DEF CheckLease
  <2>3. ASSUME NEW m \in Lease, m # l
        PROVE  /\ Authorized(lease[m])' = Authorized(lease[m])
               /\ \A x : Covers(x, lease[m])' = Covers(x, lease[m])
    BY <2>2, <2>3 DEF Authorized, Covers
  <2>4. Authorized(lease[l])'
    BY <2>2 DEF Authorized
  <2> QED BY <2>1, <2>2, <2>3, <2>4 DEF LeaseFence
<1>6. ASSUME NEW l \in Lease, RegisterLease(l) \/ ServeLease(l) \/ ExitLease(l)
      PROVE  LeaseFence'
  <2>1. UNCHANGED <<lease, session, permitted, work, current>>
    BY <1>6 DEF RegisterLease, ServeLease, ExitLease, registryVars
  <2>2. /\ \A m \in Lease : lstage'[m] = "checked" => lstage[m] = "checked"
        /\ \A m \in leases' : m \in leases \/ lstage[m] = "checked"
        /\ leases' \subseteq Lease
    BY <1>6 DEF RegisterLease, ServeLease, ExitLease
  <2> QED BY <1>2, <2>1, <2>2, LeaseFenceKept
<1>7. ASSUME Request \/ Decline \/ Release PROVE LeaseFence'
  BY <1>1, <1>2, <1>7 DEF Request, Decline, Release
<1>8. CASE RevokeSFU
  <2>1. /\ UNCHANGED <<session, permitted, lstage, lease, work>>
        /\ leases' = {l \in leases : ~Covers(current, lease[l])}
    BY <1>8 DEF RevokeSFU
  <2>2. \A l \in leases' : Authorized(lease[l]) \/ \E x \in work : Covers(x, lease[l])
    BY <2>1 DEF LeaseFence
  <2> QED BY <2>1, <2>2 DEF LeaseFence, Authorized, Covers
<1>9. ASSUME NEW r \in Room, NEW u \in User, Grant(r, u) PROVE LeaseFence'
  <2>1. \A k \in Client : Authorized(k) => Authorized(k)'
    BY <1>9 DEF Grant, Authorized
  <2> QED BY <1>1, <1>9, <2>1 DEF Grant
<1>10. ASSUME NEW s \in Session, SignIn(s) \/ Expire(s) PROVE LeaseFence'
  <2>0. permitted' = permitted /\ \A t \in Session : session[t] # "revoked" => session'[t] # "revoked"
    BY <1>10 DEF SignIn, Expire
  <2>1. \A k \in Client : Authorized(k) => Authorized(k)'
    BY <2>0 DEF Authorized, Client
  <2> QED BY <1>1, <1>10, <2>1 DEF SignIn, Expire
<1>11. ASSUME NEW scopes \in Revocations, Revoke(scopes) PROVE LeaseFence'
  <2>1. \A l \in Lease : lstage[l] # "checked"
    BY <1>11 DEF Revoke, NoReaders, Readers
  <2>2. work = {} /\ current = None
    BY <1>11 DEF Revoke, Locking
  <2>3. UNCHANGED <<leaseVars, current>> /\ work' = scopes
    BY <1>11 DEF Revoke
  <2>4. ASSUME NEW l \in leases, ~Authorized(lease[l])'
        PROVE  \E x \in work' : Covers(x, lease[l])'
    <3> DEFINE k == lease[l]
    <3>1. k \in Client /\ lease'[l] = k
      BY <2>3 DEF Handlers
    <3>2. Authorized(k)
      BY <2>2 DEF LeaseFence
    <3>3. ~(session'[k.session] # "revoked" /\ <<k.room, SessionUser[k.session]>> \in permitted')
      BY <2>4, <3>1 DEF Authorized
    <3> HIDE DEF k
    <3>4. ASSUME NEW m \in Client, Authorized(m), ~Authorized(m)'
          PROVE  \E x \in scopes : Covers(x, m)
      BY <1>11, <3>4, RevokedIsCovered
    <3>5. \E x \in scopes : Covers(x, k)
      BY <3>1, <3>2, <3>3, <3>4 DEF Authorized
    <3> QED BY <2>3, <3>1, <3>5 DEF Covers
  <2> QED BY <2>1, <2>3, <2>4 DEF LeaseFence
<1>12. ASSUME NEW x \in Scope, Collect(x) PROVE LeaseFence'
  <2>1. x # None
    BY CallAccessAssumption
  <2>2. /\ UNCHANGED <<leaseVars, session, permitted>>
        /\ work' = work \ {x} /\ current = None /\ current' = x
    BY <1>12 DEF Collect
  <2> QED BY <1>2, <2>1, <2>2, LeaseFenceKept
<1>13. CASE UNCHANGED vars
  BY <1>1, <1>2, <1>13 DEF vars
<1> QED
  BY <1>3, <1>4, <1>5, <1>6, <1>7, <1>8, <1>9, <1>10, <1>11, <1>12, <1>13
     DEF Next, Connections, Mutations

(* The strengthened fence holds in every reachable state.                  *)
LEMMA FenceHolds == Spec => [](ConnFence /\ LeaseFence)
<1>1. Init => ConnFence /\ LeaseFence
  BY DEF Init, RegistryInit, ConnFence, LeaseFence, Current, InCall
<1>2. Structure /\ (ConnFence /\ LeaseFence) /\ [Next]_vars => (ConnFence /\ LeaseFence)'
  BY ConnFenceStep, LeaseFenceStep
<1> QED BY <1>1, <1>2, StructureHolds, PTL DEF Spec

(* While a revoking request is at work, everybody who has lost access and  *)
(* is still there is on its list: nobody slips in behind its sweep.        *)
THEOREM SweepIsComplete == Spec => []PendingCovered
<1>1. ConnFence /\ LeaseFence => PendingCovered
  BY DEF ConnFence, LeaseFence, PendingCovered
<1> QED BY <1>1, FenceHolds, PTL

(* Once a revoking request has given up the lock, only connections and     *)
(* leases of people who are still allowed in the call are left.            *)
THEOREM AdmissionFenced == Spec => []AdmissionFence
<1>1. Structure /\ ConnFence /\ LeaseFence => AdmissionFence
  <2> SUFFICES ASSUME Structure, ConnFence, LeaseFence, lock # "held"
               PROVE  /\ \A c \in Conn : Current(c) => Authorized(client[c])
                      /\ \A l \in leases : Authorized(lease[l])
    BY DEF AdmissionFence
  <2>1. work = {} /\ current = None /\ targets = {}
    BY DEF Structure, Locking
  <2> QED BY <2>1 DEF ConnFence, LeaseFence
<1> QED BY <1>1, StructureHolds, FenceHolds, PTL

-----------------------------------------------------------------------------
(* What the doors show: the mapping under which CallAccess implements      *)
(* AccessGate.                                                             *)
Allowed == {k \in Client : Authorized(k)} \cup losing
Doors == [d \in Conn \cup Lease |-> Holder(d)]

(* Only a request that holds the lock remembers who is losing access.      *)
Outside == lock # "held" => losing = {}

LEMMA OutsideHolds == Spec => []Outside
<1>1. Init => Outside
  BY DEF Init, Outside
<1>2. Outside /\ [Next]_vars => Outside'
  <2> SUFFICES ASSUME Outside, [Next]_vars PROVE Outside'
    OBVIOUS
  <2>1. ASSUME UNCHANGED lockVars PROVE Outside'
    BY <2>1 DEF Outside, lockVars
  <2>2. CASE Connections
    BY <2>1, <2>2 DEF Connections, Admit, Register, Refuse, Serve, Exit, ExpireClient,
       CheckVoice, RegisterVoice, ExitVoice, CheckLease, RegisterLease, ServeLease, ExitLease
  <2>3. CASE Mutations
    BY <2>3 DEF Mutations, Request, Decline, RevokeSFU, Release, Revoke, Grant, Collect,
       RemoveTarget, Outside
  <2>4. CASE (\E s \in Session : SignIn(s) \/ Expire(s)) \/ UNCHANGED vars
    BY <2>1, <2>4 DEF SignIn, Expire, vars
  <2> QED BY <2>2, <2>3, <2>4 DEF Next
<1> QED BY <1>1, <1>2, PTL DEF Spec

(* A step that leaves the permissions alone, closes some doors and opens   *)
(* others for people who are allowed in is a move of the gate.             *)
LEMMA DoorsMove ==
  ASSUME Structure', Allowed' = Allowed,
         \A d \in Conn \cup Lease :
           \/ Holder(d)' = Holder(d)
           \/ Holder(d)' = None
           \/ Holder(d) = None /\ Holder(d)' \in Allowed
  PROVE  Gate!Move
<1>1. \A d \in Conn \cup Lease : Holder(d)' \in Client \cup {None}
  BY DEF Structure, TypeOK, RegistryTypeOK, Handlers, Holder, Current, InCall
<1>2. Doors' \in [Conn \cup Lease -> Client \cup {None}]
  BY <1>1 DEF Doors
<1>3. \A d \in Conn \cup Lease : Doors'[d] # Doors[d] =>
           \/ Doors'[d] = None
           \/ Doors[d] = None /\ Doors'[d] \in Allowed
  BY DEF Doors
<1> QED BY <1>2, <1>3 DEF Gate!Move, Doors, Allowed

(* Steps that leave the sessions table, the permissions and losing alone   *)
(* leave the permissions the gate sees alone.                              *)
LEMMA AllowedKept ==
  ASSUME UNCHANGED <<session, permitted, losing>>
  PROVE  Allowed' = Allowed
BY DEF Allowed, Authorized

(* Connections that stay, leave or are revoked, and leases that stay or    *)
(* end, are a move.                                                        *)
LEMMA DoorsClose ==
  ASSUME Structure', UNCHANGED <<client, lease, session, permitted, losing>>,
         \A d \in Conn : Current(d)' => Current(d),
         leases' \subseteq leases
  PROVE  Gate!Move
<1>1. \A d \in Conn \cup Lease : Holder(d)' = Holder(d) \/ Holder(d)' = None
  BY DEF Holder
<1> QED BY <1>1, AllowedKept, DoorsMove

(* The gate sees nothing of a step that changes neither who is in the call *)
(* nor the permissions.                                                    *)
LEMMA DoorsStay ==
  ASSUME Allowed' = Allowed, UNCHANGED <<client, rooms, revoked, lease, leases>>
  PROVE  UNCHANGED <<Allowed, Doors>>
<1>1. \A d \in Conn \cup Lease : Holder(d)' = Holder(d)
  BY DEF Holder, Current, InCall, RoomOf
<1> QED BY <1>1 DEF Doors

(* Registrations, departures and evictions move doors.                     *)
LEMMA ConnectionMoves ==
  ASSUME Structure, Structure', ConnFence, NEW c \in Conn,
         \/ \E replace \in BOOLEAN : Register(c, replace) \/ Refuse(c, replace)
         \/ Exit(c) \/ ExpireClient(c) \/ RemoveTarget(c)
  PROVE  Gate!Move
<1> USE DEF Structure, TypeOK, RegistryTypeOK
<1>1. ASSUME NEW replace \in BOOLEAN, Register(c, replace) PROVE Gate!Move
  <2>1. /\ client[c] \in Client /\ AddWithMode(c, client[c], replace)
        /\ client' = client
        /\ UNCHANGED <<session, permitted, losing, lease, leases>>
    BY <1>1 DEF Register, Handlers, AddWithMode, leaseVars, lockVars
  <2>2. \A r \in Room : rooms'[r] \subseteq rooms[r] \cup {c}
    <3>1. /\ \A r \in Room : r # client[c].room => rooms'[r] = rooms[r]
          /\ rooms'[client[c].room] =
               (rooms[client[c].room] \ Replaced(client[c], replace)) \cup {c}
      BY <2>1, AddWithModeRooms
    <3> QED BY <3>1
  <2>3. \A d \in Conn : revoked[d] => revoked'[d]
    BY <2>1 DEF AddWithMode
  <2>4. \A d \in Conn : Current(d)' => Current(d) \/ d = c
    BY <2>1, <2>2, <2>3 DEF Current, InCall, RoomOf, Client
  <2>5. ~Current(c) /\ Authorized(client[c])
    BY <1>1 DEF Register, Handlers, Current, InCall, ConnFence, RoomOf, Client
  <2>6. Allowed' = Allowed
    BY <2>1, AllowedKept
  <2>7. ASSUME NEW d \in Conn \cup Lease
        PROVE  \/ Holder(d)' = Holder(d)
               \/ Holder(d)' = None
               \/ Holder(d) = None /\ Holder(d)' \in Allowed
    BY <2>1, <2>4, <2>5 DEF Holder, Allowed
  <2> QED BY <2>6, <2>7, DoorsMove
<1>2. ASSUME NEW replace \in BOOLEAN, Refuse(c, replace) PROVE Gate!Move
  <2>1. /\ UNCHANGED <<client, session, permitted, losing, lease, leases>>
        /\ \A r \in Room : rooms'[r] \subseteq rooms[r]
        /\ \A d \in Conn : revoked[d] => revoked'[d]
    BY <1>2 DEF Refuse, AddRefused, leaseVars, lockVars
  <2>2. \A d \in Conn : Current(d)' => Current(d)
    BY <2>1 DEF Current, InCall, RoomOf, Client
  <2> QED BY <2>1, <2>2, DoorsClose
<1>3. ASSUME Exit(c) \/ ExpireClient(c) \/ RemoveTarget(c) PROVE Gate!Move
  <2>1. RemoveClient(c) \/ UNCHANGED rooms
    BY <1>3 DEF Exit, ExpireClient, RemoveTarget
  <2>4. \A r \in Room : rooms'[r] \subseteq rooms[r]
    BY <2>1, RemoveClientRooms
  <2>2. /\ UNCHANGED <<client, session, permitted, losing, lease, leases>>
        /\ \A d \in Conn : revoked[d] => revoked'[d]
    BY <1>3 DEF Exit, ExpireClient, RemoveTarget, leaseVars, lockVars
  <2>3. \A d \in Conn : Current(d)' => Current(d)
    BY <2>2, <2>4 DEF Current, InCall, RoomOf, Client
  <2> QED BY <2>2, <2>3, DoorsClose
<1> QED BY <1>1, <1>2, <1>3

(* So do registrations and ends of leases, and the work of a request.      *)
LEMMA LeaseMoves ==
  ASSUME Structure, Structure', LeaseFence,
         \/ \E l \in Lease : RegisterLease(l) \/ ExitLease(l)
         \/ RevokeSFU
         \/ \E x \in Scope : Collect(x)
  PROVE  Gate!Move
<1> USE DEF Structure, TypeOK, RegistryTypeOK
<1>1. ASSUME NEW l \in Lease, RegisterLease(l) PROVE Gate!Move
  <2>1. /\ UNCHANGED <<client, rooms, revoked, lease, session, permitted, losing>>
        /\ leases' \subseteq leases \cup {l}
        /\ lstage[l] = "checked"
    BY <1>1 DEF RegisterLease, registryVars, lockVars
  <2>2. l \notin leases /\ lease[l] \in Client /\ Authorized(lease[l])
    BY <2>1 DEF Handlers, LeaseFence
  <2>3. \A d \in Conn : Current(d)' = Current(d)
    BY <2>1 DEF Current, InCall, RoomOf
  <2>5. leases \subseteq leases'
    BY <1>1 DEF RegisterLease
  <2>4. ASSUME NEW d \in Conn \cup Lease
        PROVE  \/ Holder(d)' = Holder(d)
               \/ Holder(d)' = None
               \/ Holder(d) = None /\ Holder(d)' \in Allowed
    <3>1. CASE d \in Conn
      BY <2>1, <2>3, <3>1 DEF Holder
    <3>2. CASE d \notin Conn /\ d # l
      BY <2>1, <2>5, <3>2 DEF Holder
    <3>3. CASE d \notin Conn /\ d = l
      BY <2>1, <2>2, <3>3 DEF Holder, Allowed
    <3> QED BY <3>1, <3>2, <3>3
  <2> QED BY <2>1, <2>4, AllowedKept, DoorsMove
<1>2. ASSUME RevokeSFU \/ \E l \in Lease : ExitLease(l) PROVE Gate!Move
  <2>1. /\ UNCHANGED <<client, rooms, revoked, lease, session, permitted, losing>>
        /\ leases' \subseteq leases
    BY <1>2 DEF RevokeSFU, ExitLease, registryVars, lockVars
  <2>2. \A d \in Conn : Current(d)' = Current(d)
    BY <2>1 DEF Current, InCall, RoomOf
  <2> QED BY <2>1, <2>2, DoorsClose
<1>3. ASSUME NEW x \in Scope, Collect(x) PROVE Gate!Move
  <2>1. /\ UNCHANGED <<client, lease, leases, session, permitted, losing>>
        /\ \A r \in Room : rooms'[r] \subseteq rooms[r]
        /\ \A d \in Conn : revoked[d] => revoked'[d]
    BY <1>3 DEF Collect, EmptyRoom, RevokeUser, RevokeRoomUser, leaseVars
  <2>2. \A d \in Conn : Current(d)' => Current(d)
    BY <2>1 DEF Current, InCall, RoomOf, Client
  <2> QED BY <2>1, <2>2, DoorsClose
<1> QED BY <1>1, <1>2, <1>3

(* All other steps, the commit of a revocation among them, are invisible   *)
(* to everyone outside.                                                    *)
LEMMA Unseen ==
  ASSUME Structure, Outside,
         \/ \E c \in Conn : Serve(c) \/ \E k \in Client : Admit(c, k)
         \/ \E v \in Voice : \/ RegisterVoice(v) \/ ExitVoice(v)
                             \/ \E c \in Conn : CheckVoice(v, c)
         \/ \E l \in Lease : ServeLease(l) \/ \E c \in Conn : CheckLease(l, c)
         \/ Request \/ Decline
         \/ \E scopes \in Revocations : Revoke(scopes)
         \/ \E s \in Session : SignIn(s) \/ Expire(s)
         \/ UNCHANGED vars
  PROVE  UNCHANGED <<Allowed, Doors>>
<1> USE DEF Structure, TypeOK, RegistryTypeOK
<1>1. ASSUME NEW c \in Conn, NEW k \in Client, Admit(c, k) PROVE UNCHANGED <<Allowed, Doors>>
  <2>1. /\ client' = [client EXCEPT ![c] = k]
        /\ revoked' = [revoked EXCEPT ![c] = FALSE]
        /\ UNCHANGED <<rooms, session, permitted, losing, lease, leases>>
    BY <1>1 DEF Admit, leaseVars, lockVars
  <2>2. \A r \in Room : c \notin rooms[r]
    BY <1>1 DEF Admit, Unused, Handlers
  <2>3. ~Current(c) /\ ~Current(c)'
    BY <2>1, <2>2 DEF Current, InCall, RoomOf, Client
  <2>4. \A d \in Conn : d # c => Current(d)' = Current(d) /\ client'[d] = client[d]
    BY <2>1 DEF Current, InCall, RoomOf
  <2>5. \A d \in Conn \cup Lease : Holder(d)' = Holder(d)
    BY <2>1, <2>3, <2>4 DEF Holder
  <2> QED BY <2>1, <2>5, AllowedKept DEF Doors
<1>2. ASSUME NEW l \in Lease, NEW c \in Conn, CheckLease(l, c)
      PROVE  UNCHANGED <<Allowed, Doors>>
  <2>1. /\ lease' = [lease EXCEPT ![l] = client[c]]
        /\ UNCHANGED <<client, rooms, revoked, session, permitted, losing, leases>>
    BY <1>2 DEF CheckLease, registryVars, lockVars
  <2>2. l \notin leases
    BY <1>2 DEF CheckLease, Handlers
  <2>3. \A d \in Conn : Current(d)' = Current(d)
    BY <2>1 DEF Current, InCall, RoomOf
  <2>4. \A d \in Conn \cup Lease : Holder(d)' = Holder(d)
    BY <2>1, <2>2, <2>3 DEF Holder
  <2> QED BY <2>1, <2>4, AllowedKept DEF Doors
<1>3. ASSUME NEW scopes \in Revocations, Revoke(scopes) PROVE UNCHANGED <<Allowed, Doors>>
  <2>1. \A k \in Client : Authorized(k)' => Authorized(k)
    BY <1>3 DEF Revoke, Authorized, Client
  <2>2. losing = {} /\ losing' = {k \in Client : Authorized(k) /\ ~Authorized(k)'}
    BY <1>3 DEF Revoke, Outside
  <2>3. Allowed' = Allowed
    BY <2>1, <2>2 DEF Allowed
  <2> QED BY <1>3, <2>3, DoorsStay DEF Revoke, registryVars, leaseVars
<1>4. ASSUME NEW s \in Session, SignIn(s) \/ Expire(s) PROVE UNCHANGED <<Allowed, Doors>>
  <2>0. /\ UNCHANGED <<permitted, losing, client, rooms, revoked, lease, leases>>
        /\ \A t \in Session : session[t] = "revoked" <=> session'[t] = "revoked"
    BY <1>4 DEF SignIn, Expire, registryVars, leaseVars, lockVars
  <2>1. \A k \in Client : Authorized(k)' <=> Authorized(k)
    BY <2>0 DEF Authorized, Client
  <2> QED BY <2>0, <2>1, DoorsStay DEF Allowed
<1>5. ASSUME \/ \E c \in Conn : Serve(c)
             \/ \E v \in Voice : \/ RegisterVoice(v) \/ ExitVoice(v)
                                 \/ \E c \in Conn : CheckVoice(v, c)
             \/ \E l \in Lease : ServeLease(l)
             \/ Request \/ Decline \/ UNCHANGED vars
      PROVE  UNCHANGED <<Allowed, Doors>>
  <2>1. UNCHANGED <<client, rooms, revoked, lease, leases, session, permitted, losing>>
    BY <1>5 DEF Serve, RegisterVoice, ExitVoice, CheckVoice, ServeLease, Request, Decline,
       vars, registryVars, leaseVars, lockVars
  <2> QED BY <2>1, AllowedKept, DoorsStay
<1> QED BY <1>1, <1>2, <1>3, <1>4, <1>5

(* Giving access is the gate's grant; giving up the lock is its revocation.*)
LEMMA PermissionsMove ==
  ASSUME Structure, Structure', ConnFence, LeaseFence, Outside,
         Release \/ \E r \in Room, u \in User : Grant(r, u)
  PROVE  Gate!Grant \/ Gate!Revoke
<1> USE DEF Structure, TypeOK, RegistryTypeOK
<1>0. UNCHANGED <<client, rooms, revoked, lease, leases>>
  BY DEF Release, Grant, registryVars, leaseVars
<1>1. Doors' = Doors
  <2>1. \A d \in Conn \cup Lease : Holder(d)' = Holder(d)
    BY <1>0 DEF Holder, Current, InCall, RoomOf
  <2> QED BY <2>1 DEF Doors
<1>2. Allowed' \subseteq Client
  BY DEF Allowed
<1>3. ASSUME NEW r \in Room, NEW u \in User, Grant(r, u) PROVE Gate!Grant
  <2>1. Allowed \subseteq Allowed'
    BY <1>3 DEF Grant, Allowed, Authorized
  <2> QED BY <1>1, <1>2, <2>1 DEF Gate!Grant, Allowed, Doors
<1>4. CASE Release
  <2>1. losing' = {} /\ UNCHANGED <<session, permitted>>
    BY <1>4 DEF Release
  <2>2. work = {} /\ current = None /\ targets = {}
    BY <1>4 DEF Release, Locking
  <2>3. Allowed' = {k \in Client : Authorized(k)}
    BY <2>1 DEF Allowed, Authorized
  <2>4. Allowed' \subseteq Allowed
    BY <2>3 DEF Allowed
  <2>5. ASSUME NEW d \in Conn \cup Lease PROVE Holder(d) \in Allowed' \cup {None}
    <3>1. CASE d \in Conn
      BY <2>2, <2>3, <3>1 DEF Holder, ConnFence, Current, InCall
    <3>2. CASE d \notin Conn
      BY <2>2, <2>3, <3>2 DEF Holder, LeaseFence, Handlers
    <3> QED BY <3>1, <3>2
  <2>6. Doors' = [d \in Conn \cup Lease |-> IF Doors[d] \in Allowed' THEN Doors[d] ELSE None]
    BY <1>1, <2>5 DEF Doors
  <2> QED BY <2>4, <2>6 DEF Gate!Revoke, Allowed, Doors
<1> QED BY <1>3, <1>4

(* CallAccess implements AccessGate: to everyone outside, whatever the     *)
(* handlers do, people only pass a door while they are allowed to, and     *)
(* a revocation takes the permission and closes the doors in one step, the *)
(* release of accessMu.                                                    *)
THEOREM RevocationsAreAtomic == Spec => RevocationIsAtomic
<1>1. Init => Gate!Init
  BY DEF Init, RegistryInit, Gate!Init, Holder, Current, InCall
<1>2. /\ Structure /\ Structure' /\ (ConnFence /\ LeaseFence) /\ Outside /\ [Next]_vars
      => [Gate!Next]_<<{k \in Client : Authorized(k)} \cup losing,
                       [d \in Conn \cup Lease |-> Holder(d)]>>
  <2> SUFFICES ASSUME Structure, Structure', ConnFence, LeaseFence, Outside, [Next]_vars
               PROVE  Gate!Next \/ UNCHANGED <<Allowed, Doors>>
    BY DEF Allowed, Doors
  <2>1. CASE Connections
    BY <2>1, ConnectionMoves, LeaseMoves, Unseen DEF Connections, Gate!Next
  <2>2. CASE Mutations
    BY <2>2, ConnectionMoves, LeaseMoves, Unseen, PermissionsMove DEF Mutations, Gate!Next
  <2>3. CASE (\E s \in Session : SignIn(s) \/ Expire(s)) \/ UNCHANGED vars
    BY <2>3, Unseen
  <2> QED BY <2>1, <2>2, <2>3 DEF Next
<1> QED
  BY <1>1, <1>2, StructureHolds, FenceHolds, OutsideHolds, PTL
     DEF Spec, RevocationIsAtomic, Gate!Spec
=============================================================================
