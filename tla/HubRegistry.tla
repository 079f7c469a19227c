---------------------------- MODULE HubRegistry ----------------------------
(***************************************************************************)
(* The in-memory registry of a BetterComms API process: which signaling    *)
(* connections are in which room's call, and which voice relay connection  *)
(* each of them owns (type Hub, server/internal/api/hub.go, and the voice  *)
(* table of voice_relay.go).                                               *)
(*                                                                         *)
(* Every operator below is the critical section one Hub method runs under  *)
(* Hub.mu, stated on the registry's own variables.  The modules that       *)
(* EXTEND this one conjoin what the method does besides: SignalRoom adds   *)
(* the messages it queues for other participants, CallAccess the handlers, *)
(* locks and leases around it.                                             *)
(***************************************************************************)
EXTENDS Naturals, FiniteSets

CONSTANTS
  Room,         \* rooms that can hold a call
  User,         \* accounts
  Session,      \* signed-in device sessions
  Peer,         \* peer ids: one per call a tab joins (callPeerId.ts)
  Conn,         \* signaling connections, *client in the code
  Voice,        \* voice relay connections, *voiceClient in the code
  SessionUser,  \* the account a session belongs to
  None          \* nil

Client == [room : Room, session : Session, peer : Peer]

ASSUME RegistryAssumption ==
  /\ SessionUser \in [Session -> User]
  /\ None \notin Room \cup User \cup Session \cup Client \cup Conn \cup Voice

VARIABLES
  client,   \* client[c]: who a connection speaks for, None before its handshake
  rooms,    \* Hub.rooms: the connections in each room's call
  revoked,  \* client.revoked: may no longer send, receive or own anything
  voices,   \* Hub.voices: at most one relay connection per room and peer id
  owner     \* voiceClient.owner: the signaling connection a relay belongs to

registryVars == <<client, rooms, revoked, voices, owner>>

RegistryTypeOK ==
  /\ client \in [Conn -> Client \cup {None}]
  /\ rooms \in [Room -> SUBSET Conn]
  /\ revoked \in [Conn -> BOOLEAN]
  /\ voices \in [Room -> [Peer -> Voice \cup {None}]]
  /\ owner \in [Voice -> Conn \cup {None}]

NoVoices == [p \in Peer |-> None]

RegistryInit ==
  /\ client = [c \in Conn |-> None]
  /\ rooms = [r \in Room |-> {}]
  /\ revoked = [c \in Conn |-> FALSE]
  /\ voices = [r \in Room |-> NoVoices]
  /\ owner = [v \in Voice |-> None]

-----------------------------------------------------------------------------
RoomOf(c) == client[c].room
PeerOf(c) == client[c].peer
UserOf(c) == SessionUser[client[c].session]

InCall(c) == client[c] # None /\ c \in rooms[RoomOf(c)]

(* hub.activeSignal: a connection a relay or a media lease may lean on.    *)
Current(c) == InCall(c) /\ ~revoked[c]

(* The clients of room r whose account is u. *)
ClientsOf(r, u) == {c \in rooms[r] : UserOf(c) = u}

(* The voice table of room r once the relays owned by the connections gone *)
(* have been deleted from it.                                              *)
VoicesWithout(r, gone) ==
  [p \in Peer |-> IF \E c \in gone : /\ PeerOf(c) = p
                                     /\ voices[r][p] # None
                                     /\ owner[voices[r][p]] = c
                  THEN None ELSE voices[r][p]]

(* ... and once those of account u have been (voice.user == user).         *)
VoicesWithoutUser(r, u) ==
  [p \in Peer |-> IF voices[r][p] # None /\ UserOf(owner[voices[r][p]]) = u
                  THEN None ELSE voices[r][p]]

-----------------------------------------------------------------------------
(* addWithMode.  A connection replaces the one that holds its peer id, and,*)
(* in replace mode, every other device of the same account.                *)
ReplacedOnlyOnDemand(k, replace) ==          \* mutant: a resume replaces nobody
  {e \in rooms[k.room] : UserOf(e) = SessionUser[k.session] /\ replace}

ReplacedSameSession(k, replace) ==           \* mutant: another device is a stranger
  {e \in rooms[k.room] : /\ client[e].session = k.session
                         /\ PeerOf(e) = k.peer \/ replace}

Replaced(k, replace) ==
  {e \in rooms[k.room] : /\ UserOf(e) = SessionUser[k.session]
                         /\ PeerOf(e) = k.peer \/ replace}

PeerTaken(k) ==
  \E e \in rooms[k.room] : PeerOf(e) = k.peer /\ UserOf(e) # SessionUser[k.session]

AddWithMode(c, k, replace) ==
  LET gone == Replaced(k, replace) IN
  /\ ~PeerTaken(k)
  /\ client' = [client EXCEPT ![c] = k]
  /\ rooms' = [rooms EXCEPT ![k.room] = (@ \ gone) \cup {c}]
  /\ revoked' = [e \in Conn |-> revoked[e] \/ e \in gone]
  /\ voices' = [voices EXCEPT ![k.room] = VoicesWithout(k.room, gone)]
  /\ UNCHANGED owner

(* The peer id belongs to another account: an error.  The loop runs over a *)
(* Go map, so any part of the replaceable clients may have been replaced   *)
(* before the conflict is met, and the error path does not restore them.   *)
AddRefused(k, replace, gone) ==
  /\ PeerTaken(k)
  /\ gone \subseteq Replaced(k, replace)
  /\ rooms' = [rooms EXCEPT ![k.room] = @ \ gone]
  /\ revoked' = [e \in Conn |-> revoked[e] \/ e \in gone]
  /\ voices' = [voices EXCEPT ![k.room] = VoicesWithout(k.room, gone)]
  /\ UNCHANGED <<client, owner>>

(* remove: does nothing when somebody else removed c first; the last       *)
(* client to leave takes the room's whole voice table with it.             *)
RemoveClient(c) ==
  LET r == RoomOf(c) IN
  IF c \in rooms[r]
  THEN /\ rooms' = [rooms EXCEPT ![r] = @ \ {c}]
       /\ voices' = [voices EXCEPT ![r] =
                       IF rooms[r] = {c} THEN NoVoices ELSE VoicesWithout(r, {c})]
  ELSE UNCHANGED <<rooms, voices>>

(* The locked part of disconnectRoomUser: everything of account u in room  *)
(* r is revoked and loses its voice; the clients leave one by one later.   *)
RevokeRoomUser(r, u) ==
  /\ revoked' = [c \in Conn |-> revoked[c] \/ c \in ClientsOf(r, u)]
  /\ voices' = [voices EXCEPT ![r] = VoicesWithoutUser(r, u)]

(* The locked part of disconnectUser: the same in every room.              *)
RevokeUser(u) ==
  /\ revoked' = [c \in Conn |-> revoked[c] \/ \E r \in Room : c \in ClientsOf(r, u)]
  /\ voices' = [r \in Room |-> VoicesWithoutUser(r, u)]

(* disconnectRoom: the whole room goes at once.                            *)
EmptyRoom(r) ==
  /\ revoked' = [c \in Conn |-> revoked[c] \/ c \in rooms[r]]
  /\ rooms' = [rooms EXCEPT ![r] = {}]
  /\ voices' = [voices EXCEPT ![r] = NoVoices]

(* addVoice and removeVoice.                                               *)
AddVoiceUnchecked(v, r, p) ==                \* mutant: its signal may be gone
  voices' = [voices EXCEPT ![r][p] = v]

AddVoice(v, r, p) ==
  /\ owner[v] \in rooms[r] /\ PeerOf(owner[v]) = p /\ ~revoked[owner[v]]
  /\ voices' = [voices EXCEPT ![r][p] = v]

RemoveVoice(v, r, p) ==
  voices' = IF voices[r][p] = v THEN [voices EXCEPT ![r][p] = None] ELSE voices

=============================================================================
