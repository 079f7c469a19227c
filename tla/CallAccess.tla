----------------------------- MODULE CallAccess -----------------------------
(***************************************************************************)
(* Who may be in a call.  The registry of HubRegistry with everything that *)
(* changes who belongs in it: the handshakes of signaling connections,     *)
(* voice relays and media (SFU) leases, which hold API.accessMu for        *)
(* reading from their check of the database to the message that says they  *)
(* are ready; the requests that end sessions or remove people from rooms,  *)
(* which hold it for writing from their commit to the last eviction; and   *)
(* session expiry, which takes no lock.                                    *)
(*                                                                         *)
(* The stages of a handshake that hold the read lock are the lock's reader *)
(* set.  As with any sync.RWMutex, a writer that waits keeps new readers   *)
(* out.  Conn, Voice and Lease bound how many connections there are at a   *)
(* time, not how many there have been: a later one takes an idle place.    *)
(***************************************************************************)
EXTENDS HubRegistry

CONSTANTS
  Lease,         \* media server authorization sockets, *sfuLease in the code
  LeaseCapacity  \* how many leases the API keeps

(* What a request disconnects, as revokeSFU names it: all that matches the *)
(* room, the account and the session it gives.                             *)
Scope == [room : Room \cup {None}, user : User \cup {None}, session : Session \cup {None}]

ASSUME CallAccessAssumption == LeaseCapacity \in Nat /\ None \notin Scope

VARIABLES
  session,    \* the sessions table: absent, live, expired, revoked
  permitted,  \* <<room, user>>: RoomForMember and join_voice both succeed
  stage,      \* a signaling handler: idle, admitted, registered, serving
  vstage,     \* a voice relay handler: idle, checked, serving
  lstage,     \* a lease handler: idle, checked, registered, serving
  lease,      \* the claims a lease was granted for
  leases,     \* API.sfuLeases
  lock,       \* the writer of accessMu: free, waiting, held
  work,       \* what the request that holds it has still to disconnect
  current,    \* ... and what it is disconnecting now
  targets,    \* clients collected under Hub.mu, still to be removed
  losing      \* history: who lost access by that request's commit

lockVars == <<lock, work, current, targets, losing>>
leaseVars == <<lstage, lease, leases>>
vars == <<registryVars, session, permitted, stage, vstage, leaseVars, lockVars>>

Covers(x, k) ==
  /\ x.room \in {None, k.room}
  /\ x.user \in {None, SessionUser[k.session]}
  /\ x.session \in {None, k.session}

Authorized(k) ==
  /\ session[k.session] # "revoked"
  /\ <<k.room, SessionUser[k.session]>> \in permitted

Readers ==
  [conn |-> {c \in Conn : stage[c] \in {"admitted", "registered"}},
   voice |-> {v \in Voice : vstage[v] = "checked"},
   lease |-> {l \in Lease : lstage[l] \in {"checked", "registered"}}]

NoHandshakes == Readers.conn = {} /\ Readers.voice = {}  \* mutant: forgets leases

NoReaders == Readers.conn = {} /\ Readers.voice = {} /\ Readers.lease = {}

(* The types of the state: a request disconnects only scopes revokeSFU can *)
(* name, whatever its handler computed them from.                          *)
TypeOK ==
  /\ RegistryTypeOK
  /\ session \in [Session -> {"absent", "live", "expired", "revoked"}]
  /\ permitted \subseteq Room \X User
  /\ stage \in [Conn -> {"idle", "admitted", "registered", "serving"}]
  /\ vstage \in [Voice -> {"idle", "checked", "serving"}]
  /\ lstage \in [Lease -> {"idle", "checked", "registered", "serving"}]
  /\ lease \in [Lease -> Client \cup {None}]
  /\ leases \subseteq Lease
  /\ lock \in {"free", "waiting", "held"}
  /\ work \subseteq Scope
  /\ current \in Scope \cup {None}
  /\ targets \subseteq Conn
  /\ losing \subseteq Client

Init ==
  /\ RegistryInit
  /\ session = [s \in Session |-> "absent"]
  /\ permitted = {}
  /\ stage = [c \in Conn |-> "idle"]
  /\ vstage = [v \in Voice |-> "idle"]
  /\ lstage = [l \in Lease |-> "idle"]
  /\ lease = [l \in Lease |-> None]
  /\ leases = {}
  /\ lock = "free" /\ work = {} /\ current = None /\ targets = {} /\ losing = {}

-----------------------------------------------------------------------------
(* Signing in creates a session, without the lock; fourteen days later the *)
(* clock ends it.                                                          *)
SignIn(s) ==
  /\ session[s] = "absent"
  /\ session' = [session EXCEPT ![s] = "live"]
  /\ UNCHANGED <<registryVars, permitted, stage, vstage, leaseVars, lockVars>>

Expire(s) ==
  /\ session[s] = "live"
  /\ session' = [session EXCEPT ![s] = "expired"]
  /\ UNCHANGED <<registryVars, permitted, stage, vstage, leaseVars, lockVars>>

(* The timer a signaling handler set for its session.                      *)
ExpireRevokedClient(c) ==                    \* mutant: the clock ends nothing
  /\ stage[c] \in {"admitted", "registered", "serving"} /\ ~revoked[c]
  /\ session[client[c].session] = "revoked"
  /\ revoked' = [revoked EXCEPT ![c] = TRUE]
  /\ UNCHANGED <<client, rooms, voices, owner, session, permitted, stage, vstage,
                 leaseVars, lockVars>>

ExpireClient(c) ==
  /\ stage[c] \in {"admitted", "registered", "serving"} /\ ~revoked[c]
  /\ session[client[c].session] \in {"expired", "revoked"}
  /\ revoked' = [revoked EXCEPT ![c] = TRUE]
  /\ UNCHANGED <<client, rooms, voices, owner, session, permitted, stage, vstage,
                 leaseVars, lockVars>>

-----------------------------------------------------------------------------
(* func websocket: the checks under the read lock, addWithMode, the peers  *)
(* message that ends the handshake, and the end of the handler, which may  *)
(* come before it has registered (the socket upgrade fails).  Nothing may  *)
(* refer any more to the connection whose place a new one takes.           *)
Unused(c) ==
  /\ stage[c] = "idle" /\ c \notin targets
  /\ \A v \in Voice : vstage[v] # "idle" => owner[v] # c

AdmitPastWriter(c, k) ==                     \* mutant: readers overtake a writer
  /\ lock # "held" /\ Unused(c)
  /\ session[k.session] = "live" /\ Authorized(k)
  /\ client' = [client EXCEPT ![c] = k]
  /\ revoked' = [revoked EXCEPT ![c] = FALSE]
  /\ stage' = [stage EXCEPT ![c] = "admitted"]
  /\ UNCHANGED <<rooms, voices, owner, session, permitted, vstage, leaseVars, lockVars>>

Admit(c, k) ==
  /\ lock = "free" /\ Unused(c)
  /\ session[k.session] = "live" /\ Authorized(k)
  /\ client' = [client EXCEPT ![c] = k]
  /\ revoked' = [revoked EXCEPT ![c] = FALSE]
  /\ stage' = [stage EXCEPT ![c] = "admitted"]
  /\ UNCHANGED <<rooms, voices, owner, session, permitted, vstage, leaseVars, lockVars>>

Register(c, replace) ==
  /\ stage[c] = "admitted"
  /\ AddWithMode(c, client[c], replace)
  /\ stage' = [stage EXCEPT ![c] = "registered"]
  /\ UNCHANGED <<session, permitted, vstage, leaseVars, lockVars>>

Refuse(c, replace) ==
  /\ stage[c] = "admitted"
  /\ \E gone \in SUBSET Replaced(client[c], replace) : AddRefused(client[c], replace, gone)
  /\ stage' = [stage EXCEPT ![c] = "idle"]
  /\ UNCHANGED <<session, permitted, vstage, leaseVars, lockVars>>

Serve(c) ==
  /\ stage[c] = "registered"
  /\ stage' = [stage EXCEPT ![c] = "serving"]
  /\ UNCHANGED <<registryVars, session, permitted, vstage, leaseVars, lockVars>>

Exit(c) ==
  /\ stage[c] \in {"admitted", "registered", "serving"}
  /\ RemoveClient(c)
  /\ stage' = [stage EXCEPT ![c] = "idle"]
  /\ UNCHANGED <<client, revoked, owner, session, permitted, vstage, leaseVars, lockVars>>

-----------------------------------------------------------------------------
(* func voiceRelay: a relay is accepted for the active signaling           *)
(* connection of the same session, if it is still active once the socket   *)
(* has been upgraded.                                                      *)
CheckVoice(v, c) ==
  /\ lock = "free" /\ vstage[v] = "idle"
  /\ Current(c) /\ session[client[c].session] = "live" /\ Authorized(client[c])
  /\ owner' = [owner EXCEPT ![v] = c]
  /\ vstage' = [vstage EXCEPT ![v] = "checked"]
  /\ UNCHANGED <<client, rooms, revoked, voices, session, permitted, stage, leaseVars, lockVars>>

RegisterVoice(v) ==
  LET k == client[owner[v]] IN
  /\ vstage[v] = "checked"
  /\ \/ /\ AddVoice(v, k.room, k.peer)
        /\ vstage' = [vstage EXCEPT ![v] = "serving"]
     \/ /\ ~Current(owner[v])
        /\ vstage' = [vstage EXCEPT ![v] = "idle"]
        /\ UNCHANGED voices
  /\ UNCHANGED <<client, rooms, revoked, owner, session, permitted, stage, leaseVars, lockVars>>

ExitVoice(v) ==
  LET k == client[owner[v]] IN
  /\ vstage[v] \in {"checked", "serving"}
  /\ RemoveVoice(v, k.room, k.peer)
  /\ vstage' = [vstage EXCEPT ![v] = "idle"]
  /\ UNCHANGED <<client, rooms, revoked, owner, session, permitted, stage, leaseVars, lockVars>>

-----------------------------------------------------------------------------
(* func sfuAuthorization: the media server asks for a lease for one peer,  *)
(* whose signaling connection must be active under the same session.       *)
CheckLease(l, c) ==
  /\ lock = "free" /\ lstage[l] = "idle"
  /\ Current(c) /\ session[client[c].session] = "live" /\ Authorized(client[c])
  /\ lease' = [lease EXCEPT ![l] = client[c]]
  /\ lstage' = [lstage EXCEPT ![l] = "checked"]
  /\ UNCHANGED <<registryVars, session, permitted, stage, vstage, leases, lockVars>>

SamePeer(l, m) == lease[l].room = lease[m].room /\ lease[l].peer = lease[m].peer

LeaseFitsCapacity(l) == Cardinality(leases) < LeaseCapacity  \* mutant: no scan

LeaseFits(l) ==
  Cardinality(leases) < LeaseCapacity /\ \A old \in leases : ~SamePeer(old, l)

RegisterLease(l) ==
  /\ lstage[l] = "checked"
  /\ \/ /\ LeaseFits(l)
        /\ leases' = leases \cup {l}
        /\ lstage' = [lstage EXCEPT ![l] = "registered"]
     \/ /\ ~LeaseFits(l)
        /\ lstage' = [lstage EXCEPT ![l] = "idle"]
        /\ UNCHANGED leases
  /\ UNCHANGED <<registryVars, session, permitted, stage, vstage, lease, lockVars>>

ServeLease(l) ==
  /\ lstage[l] = "registered"
  /\ lstage' = [lstage EXCEPT ![l] = "serving"]
  /\ UNCHANGED <<registryVars, session, permitted, stage, vstage, lease, leases, lockVars>>

(* A failed write, a lost or revoked socket, 45 seconds of silence, expiry.*)
ExitLease(l) ==
  /\ lstage[l] \in {"checked", "registered", "serving"}
  /\ leases' = leases \ {l}
  /\ lstage' = [lstage EXCEPT ![l] = "idle"]
  /\ UNCHANGED <<registryVars, session, permitted, stage, vstage, lease, lockVars>>

-----------------------------------------------------------------------------
(* A request for which membershipMutation or lifecycleMutation holds, or a *)
(* logout, waits for the write lock.                                       *)
Request ==
  /\ lock = "free"
  /\ lock' = "waiting"
  /\ UNCHANGED <<registryVars, session, permitted, stage, vstage, leaseVars, work, current,
                 targets, losing>>

(* What one request may take away: sessions of an account (logout, device  *)
(* revocation), the account itself, a room, or people's place in rooms     *)
(* (member removal, community removal and role changes, blocks, unfriends).*)
Nobody == [room |-> None, user |-> None, session |-> None]

Devices(S) == {[Nobody EXCEPT !.session = s] : s \in S}
Account(u) == {[Nobody EXCEPT !.user = u]}
WholeRoom(r) == {[Nobody EXCEPT !.room = r]}
PlacesSwapped(RU) ==                         \* mutant: arguments in the wrong order
  {[Nobody EXCEPT !.room = ru[2], !.user = ru[1]] : ru \in RU}

Places(RU) == {[Nobody EXCEPT !.room = ru[1], !.user = ru[2]] : ru \in RU}

Revocations ==
  {Devices(S) : S \in {T \in SUBSET Session : \A s, t \in T : SessionUser[s] = SessionUser[t]}}
  \cup {Account(u) : u \in User}
  \cup {WholeRoom(r) : r \in Room}
  \cup {Places(RU) : RU \in SUBSET (Room \X User)}

SessionEnds(s, scopes) ==
  \E x \in scopes : x.room = None /\ (x.session = s \/ x.user = SessionUser[s])

PlaceEnds(ru, scopes) ==
  \E x \in scopes : x.session = None /\ x.room \in {None, ru[1]} /\ x.user \in {None, ru[2]}

(* The lock is taken and the database transaction commits.                 *)
Revoke(scopes) ==
  /\ lock = "waiting" /\ NoReaders /\ scopes # {}
  /\ lock' = "held"
  /\ session' = [s \in Session |-> IF SessionEnds(s, scopes) THEN "revoked" ELSE session[s]]
  /\ permitted' = {ru \in permitted : ~PlaceEnds(ru, scopes)}
  /\ losing' = {k \in Client : Authorized(k) /\ ~Authorized(k)'}
  /\ work' = scopes
  /\ UNCHANGED <<registryVars, stage, vstage, leaseVars, current, targets>>

(* The request is refused, or its transaction fails.                       *)
Decline ==
  /\ lock = "waiting" /\ NoReaders
  /\ lock' = "free"
  /\ UNCHANGED <<registryVars, session, permitted, stage, vstage, leaseVars, work, current,
                 targets, losing>>

(* A request under the write lock that gives access takes none away.       *)
Grant(r, u) ==
  /\ lock = "waiting" /\ NoReaders
  /\ \E s \in Session : SessionUser[s] = u /\ session[s] # "revoked"
  /\ permitted' = permitted \cup {<<r, u>>}
  /\ lock' = "free"
  /\ UNCHANGED <<registryVars, session, stage, vstage, leaseVars, work, current, targets, losing>>

(* Hub.disconnectSession, disconnectUser, disconnectRoom and               *)
(* disconnectRoomUser, up to where they give up Hub.mu.  The first only    *)
(* collects its targets; the others mark them revoked at once.             *)
Collect(x) ==
  /\ lock = "held" /\ x \in work /\ current = None
  /\ current' = x
  /\ work' = work \ {x}
  /\ \/ /\ x.session # None
        /\ targets' = {c \in Conn : InCall(c) /\ client[c].session = x.session}
        /\ UNCHANGED <<rooms, revoked, voices>>
     \/ /\ x.room # None /\ x.user = None
        /\ EmptyRoom(x.room)
        /\ UNCHANGED targets
     \/ /\ x.user # None /\ x.room = None
        /\ RevokeUser(x.user)
        /\ targets' = {c \in Conn : InCall(c) /\ UserOf(c) = x.user}
        /\ UNCHANGED rooms
     \/ /\ x.user # None /\ x.room # None
        /\ RevokeRoomUser(x.room, x.user)
        /\ targets' = ClientsOf(x.room, x.user)
        /\ UNCHANGED rooms
  /\ UNCHANGED <<client, owner, session, permitted, stage, vstage, leaseVars, lock, losing>>

(* ... and their loop over the targets.                                    *)
RemoveTarget(c) ==
  /\ c \in targets
  /\ targets' = targets \ {c}
  /\ revoked' = [revoked EXCEPT ![c] = TRUE]
  /\ RemoveClient(c)
  /\ UNCHANGED <<client, owner, session, permitted, stage, vstage, leaseVars, lock, work,
                 current, losing>>

(* revokeSFU.                                                              *)
RevokeSFUBySession ==                        \* mutant: forgets rooms and accounts
  /\ current # None /\ targets = {}
  /\ leases' = {l \in leases : lease[l].session # current.session}
  /\ current' = None
  /\ UNCHANGED <<registryVars, session, permitted, stage, vstage, lstage, lease, lock, work,
                 targets, losing>>

RevokeSFU ==
  /\ current # None /\ targets = {}
  /\ leases' = {l \in leases : ~Covers(current, lease[l])}
  /\ current' = None
  /\ UNCHANGED <<registryVars, session, permitted, stage, vstage, lstage, lease, lock, work,
                 targets, losing>>

ReleaseEarly ==                              \* mutant: before the last eviction
  /\ lock = "held" /\ work = {}
  /\ lock' = "free" /\ losing' = {}
  /\ UNCHANGED <<registryVars, session, permitted, stage, vstage, leaseVars, work, current, targets>>

Release ==
  /\ lock = "held" /\ work = {} /\ current = None
  /\ lock' = "free" /\ losing' = {}
  /\ UNCHANGED <<registryVars, session, permitted, stage, vstage, leaseVars, work, current, targets>>

-----------------------------------------------------------------------------
Connections ==
  \/ \E c \in Conn : \/ \E k \in Client : Admit(c, k)
                     \/ \E replace \in BOOLEAN : Register(c, replace) \/ Refuse(c, replace)
                     \/ Serve(c) \/ Exit(c) \/ ExpireClient(c)
  \/ \E v \in Voice : \/ \E c \in Conn : CheckVoice(v, c)
                      \/ RegisterVoice(v) \/ ExitVoice(v)
  \/ \E l \in Lease : \/ \E c \in Conn : CheckLease(l, c)
                      \/ RegisterLease(l) \/ ServeLease(l) \/ ExitLease(l)

Mutations ==
  \/ Request \/ Decline \/ RevokeSFU \/ Release
  \/ \E scopes \in Revocations : Revoke(scopes)
  \/ \E r \in Room, u \in User : Grant(r, u)
  \/ \E x \in Scope : Collect(x)
  \/ \E c \in Conn : RemoveTarget(c)

Next ==
  \/ Connections
  \/ Mutations
  \/ \E s \in Session : SignIn(s) \/ Expire(s)

(* Goroutines run; a handshake is bounded by its five-second write; a      *)
(* revoked client's handler stops at its next read or write.               *)
Fairness ==
  /\ WF_vars(\E scopes \in Revocations : Revoke(scopes))
  /\ WF_vars(\E x \in Scope : Collect(x)) /\ WF_vars(RevokeSFU) /\ WF_vars(Release)
  /\ \A c \in Conn :
       /\ WF_vars(\E replace \in BOOLEAN : Register(c, replace) \/ Refuse(c, replace))
       /\ WF_vars(Serve(c)) /\ WF_vars(ExpireClient(c)) /\ WF_vars(RemoveTarget(c))
       /\ WF_vars(revoked[c] /\ stage[c] = "serving" /\ Exit(c))
  /\ \A v \in Voice : WF_vars(RegisterVoice(v))
  /\ \A l \in Lease : WF_vars(RegisterLease(l)) /\ WF_vars(ServeLease(l))

Spec == Init /\ [][Next]_vars
FairSpec == Spec /\ Fairness

-----------------------------------------------------------------------------
(* The admission fence (the comment of membershipMutation: registration    *)
(* shares the boundary "until ACL changes commit and evict stale           *)
(* subscriptions"): once a revoking request has released the lock, nobody  *)
(* it removed has an active connection or a media lease in the call.       *)
AdmissionFence ==
  lock # "held" => /\ \A c \in Conn : Current(c) => Authorized(client[c])
                   /\ \A l \in leases : Authorized(lease[l])

(* While the request is at work, whoever has lost access and is still      *)
(* there is somebody it has yet to disconnect: no handshake that checked   *)
(* the database before the commit registers after the sweep.               *)
PendingCovered ==
  /\ \A c \in Conn : Current(c) =>
       \/ Authorized(client[c]) \/ c \in targets
       \/ \E x \in work : Covers(x, client[c])
  /\ \A l \in leases :
       \/ Authorized(lease[l])
       \/ \E x \in work \cup ({current} \ {None}) : Covers(x, lease[l])

(* A voice relay stands in the table only as long as the signaling         *)
(* connection it leans on is in the room, under the same peer id.          *)
VoiceOwnerInCall ==
  \A r \in Room, p \in Peer :
    LET v == voices[r][p] IN
    v # None => /\ vstage[v] = "serving"
                /\ owner[v] \in rooms[r] /\ PeerOf(owner[v]) = p

(* One connection per peer id and room, whoever joins, resumes or is       *)
(* replaced: addressing a peer addresses one account.                      *)
OneConnectionPerPeer ==
  \A r \in Room : \A c, d \in rooms[r] : PeerOf(c) = PeerOf(d) => c = d

(* The media server gets at most one lease per peer, within the capacity.  *)
LeasesUnique ==
  /\ \A l, m \in leases : SamePeer(l, m) => l = m
  /\ Cardinality(leases) <= LeaseCapacity

(* A revoking request gets the lock and gives it back, however many        *)
(* handshakes keep arriving.                                               *)
MutationsComplete == lock # "free" ~> lock = "free"

(* Nobody stays in a call on a session that is over.                       *)
EndedSessionsLeave ==
  \A c \in Conn :
    (InCall(c) /\ session[client[c].session] \in {"expired", "revoked"}) ~> ~InCall(c)

(* Who holds a connection or a lease, as everyone outside sees it.         *)
Holder(d) ==
  IF d \in Conn THEN IF Current(d) THEN client[d] ELSE None
  ELSE IF d \in leases THEN lease[d] ELSE None

Gate == INSTANCE AccessGate WITH
  Door <- Conn \cup Lease,
  Identity <- Client,
  Nobody <- None,
  allowed <- {k \in Client : Authorized(k)} \cup losing,
  holder <- [d \in Conn \cup Lease |-> Holder(d)]

(* To everyone outside, a revocation happens at one moment, the release of *)
(* the lock: until then those who lose access count as allowed, and from   *)
(* then on they hold no connection and no lease (accessMu's critical       *)
(* section).                                                               *)
RevocationIsAtomic == Gate!Spec
=============================================================================
