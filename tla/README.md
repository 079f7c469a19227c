# BetterComms: a verification project

TLA+ models of the protocols of BetterComms: who is in a call and what the
others know about it, how two clients come to exchange media, directly or through
the media server, what the client keeps for its user, who is shown as online, and
how a file gets to the server; the TLC runs that check them and the TLAPS proofs
of the main invariants. Every definition is translated from the code;
`PROJECT.json` ("map") names the lines each one stands for. Paths below are
relative to the repository; `api/` is `server/internal/api/` and `web/` is
`apps/web/src/`.

- [The system](#the-system) — components, state, interactions, hard behaviours
- [The modules](#the-modules) — what models what, and how
- [The runs](#the-runs) — what is checked, with which bounds
- [Fairness](#fairness)
- [The proofs](#the-proofs)
- [Findings](#findings)
- [What is not modelled](#what-is-not-modelled)
- [Plan](#plan)

## The system

BetterComms is a self-hosted chat and voice application: a Go API server over
PostgreSQL, a Rust media server (SFU), a React client that runs in browsers and
in a Wails desktop shell. A *room* (a direct conversation, a group, a community
channel) can hold a *call*. Calls run peer to peer by WebRTC, through a relay
in the API for voice when that fails, or through the SFU.

### Components

| Component | State | Operations | Made correct by |
|---|---|---|---|
| Call registry `Hub` (`api/hub.go`) | rooms → signaling connections; per connection a queue of 256, `revoked`, `overflowed` | `addWithMode`, `remove`, `deliver`, `broadcast`, `relay`, `disconnectRoomUser/Room/User/Session` | one connection per peer id; every participant learns of every arrival and departure, or is made to reconnect |
| Signaling client (`apps/web/src/media/signaling.ts`, listeners in `useCallSession.ts`) | socket, peer id, the peers its engine holds | connect, resume after reconnectable close codes, apply events | comes back under its peer id; its peer list converges on the room; does not come back when it was put out |
| Voice relays (`api/voice_relay.go`) | per room and peer one relay, owned by a signaling connection | `addVoice`, `removeVoice`, `relayVoice` | a relay lives no longer than its owner |
| Media leases (`api/sfu_authorization.go`) | `sfuLeases`, bounded | authorize, expire, `revokeSFU` | one per peer, only for people in the call who are allowed there |
| Access boundary (`accessMu`: `api/api.go`, `account.go`, `privacy.go`, `community.go`, `channel_permissions.go`, `lifecycle.go`, `session_revocation.go`) | a read-write lock around PostgreSQL's sessions and memberships | handshakes read; logout, device revocation, account deletion, room deletion, removals, role changes, blocks write | nobody registers behind a sweep |
| Realtime events (`api/realtime.go`) | windows per account, room subscriptions, online and call presence | register, subscribe, publish, typing | what a window shows of others is so once nothing is under way |
| Media server (`apps/sfu`) | routes per peer, FIFO of engine events, lease heartbeats | join, publish, subscribe, leave | one session of a peer at a time, whose end leaves its successor alone; no media without a lease |
| Desktop pairing (`api/desktopauth.go`) | in-memory pairings with expiry | start, approve, claim | spent once, only after approval |
| Call session (`web/features/call/useCallSession.ts`, `web/media/recording.ts`) | refs to one engine, one socket, one recorder; busy flag | join, leave, unmount, socket events, toggles, recording | no engine or socket survives the refs that name it; the screen says what is so |
| Peer engine (`web/media/engine.ts`) | one RTCPeerConnection and promise chain per peer; local tracks and senders | negotiate, handleSignal, capture, replace, mute, remove, dispose | glare resolved, changes negotiated in the end; devices released; a muted call silent |
| Voice relay client (`web/media/voiceRelay.ts`, routing in `engine.ts`) | per peer an epoch, keys, timers | handshake, stop, probe, restore | both ends on one epoch, a key for one session only, no end leaves the relay alone |
| Push-to-talk (`web/media/pushToTalk.ts`, `nativePushToTalk.ts`) | the gate; the last accepted snapshot of a global hook | press, release, blur, mute, snapshots, heartbeat | open only while, and because, the key is pressed |
| Message history (`web/features/chat/messageStore.ts`, `useMessageViewport.ts`) | per conversation a list, cursors, one pending request | load, older, catch up, events, own writes, evict | never goes back to an older version; a catch-up repairs what was missed |
| Drafts (`web/features/personal/draftStore.ts`, `api/daily_drafts_store.go`) | per device an entry and its requests; per conversation a versioned row | edit, read, write, conflict, send | another device's text is never replaced unseen |
| Uploads (`web/features/chat/resumableUploads.ts`, `api/storage_features*.go`, `attachment_store.go`) | upload row, multipart upload, object, lease | chunk, finish, cancel, clean | what is ready is whole; what is abandoned is erased |
| Communities, roles, ownership | rows and SQL functions | invite, join, role and permission changes | lower roles never act on higher ones |
| Messaging, threads, pins, moderation | rows | one transaction each | left to PostgreSQL |
| Activities, watch together, daily reminders, push | revisioned rows, host lease, a polling worker | control, claim, send | one host; a reminder is sent once |
| Profiles, social graph, preferences, search; web interface; desktop capture, audio and video processing; deployment | — | — | sequential, platform or rendering code |

### How they interact

A browser opens a WebSocket for a room's call. Its handler checks session and
membership in the database under `accessMu.RLock`, registers in the `Hub`,
writes the snapshot of peers and releases the lock. From then on a writer
goroutine drains the connection's queue while the handler reads. Other
handlers put messages in that queue under `Hub.mu`; a full queue marks the
connection `overflowed` and closes it from a goroutine. A voice relay or a
media lease is admitted only for a session that has an active signaling
connection, by a handshake of the same shape. Requests that take access away
hold `accessMu` for writing: they commit, then walk the hub (`disconnect*`)
and the leases (`revokeSFU`). Sessions also end by the clock: a timer per
signaling connection, without the lock. `socket.onclose` in the browser
decides by the close code whether to resume under the same peer id.

In the client, joining a call makes an engine and a socket and captures the
microphone, with an await after each; `leave`, another join, the end of the
socket or the end of the page may come in between. The engine negotiates with
each peer over the room's signaling, replaces tracks on the senders of every
connection, and sends voice through the relay, encrypted, where a connection is
not up. The microphone of the call is gated by mute, deafen and push-to-talk.

Beside the call, each window keeps one event socket. It feeds the message cache
together with pages read over HTTP and answers to own writes; it tells draft
entries that another device has written. Uploads talk HTTP to handlers that
share a row and a multipart upload with each other and with an hourly cleanup.

### What is hard here

Two halves of `Hub.remove` under two critical sections; a connection in the
room before its snapshot is written; lost messages at a full queue; the
goroutine that closes a replaced socket racing its handler; reconnection under
the same peer id with other devices joining in between; an API restart with an
empty registry; checks in the database before a socket upgrade and
registrations after it; sweeps that collect under one lock hold and evict one
by one; a write lock wanted against a stream of readers.

In the client, the state a continuation finds after an await: an offer that
collides, an answer to an offer that is no longer pending, an epoch that was
replaced, a track that another replacement has replaced, a call that was left.
Snapshots of keys that are late, repeated or lost; pages, events and answers of
writes in any order; two devices that write one draft; a chunk, its retry, the
end of an upload, its cancellation and its cleanup at the same time, over two
stores without a common transaction, one of which fails. `PROJECT.json`
("hazards") lists all of these at their lines, with the properties that watch them or
the reason none does yet.

## The modules

    HubRegistry ──► SignalRoom * ──► MCSignalRoom
         └────────► CallAccess * ──► MCCallAccess
                        └ INSTANCE AccessGate (refinement)

    VoiceFallback *, CallSession *, LocalTracks *, PeerNegotiation * ──► MCCallMedia

    PushToTalk *, MessageHistory *, DraftSync * ──► MCClientState

    AttachmentUpload *, SfuEngine *, RealtimePresence * ──► MCServerState

An arrow is `EXTENDS`. A module with a star has its theorems and their proofs in
a module of the same name with `_proofs` added, which extends it and `TLAPS`.
Three are shared: `ClientState_proofs` (PushToTalk, DraftSync, MessageHistory),
`ServerState_proofs` (SfuEngine, RealtimePresence) and `MediaEngine_proofs`
(LocalTracks, PeerNegotiation); they also extend the MC module of their
components, to prove that its components do not disturb each other.
Modules that one MC module extends share a name space; that is why `Init`,
`Next`, `Spec`, `TypeOK` and "nothing" have names of their own in
`VoiceFallback` (`VoiceInit`, ..., `Nil`), `LocalTracks` (`TracksInit`, ...,
`Nothing`), `PeerNegotiation` (`NegotiationInit`, ..., `NoDescription`),
`SfuEngine` (`SfuInit`, ..., `NoSocket`), `RealtimePresence` (`PresenceInit`,
..., `Unset`), `MessageHistory` (`HistoryInit`, ..., `NoRequest`) and
`DraftSync` (`DraftInit`, ...).

**`HubRegistry`** holds the registry's variables (`client`, `rooms`, `revoked`,
`voices`, `owner`) and one operator per critical section under `Hub.mu`:
`AddWithMode`, `AddRefused`, `RemoveClient`, `RevokeRoomUser`, `RevokeUser`,
`EmptyRoom`, `AddVoice`, `RemoveVoice`. It has no actions: the two modules that
extend it conjoin what the method does besides.

**`SignalRoom`** is one room's call as its participants learn of it: every
queue message by message, the handler's stages (`new`, `registered`,
`serving`, `done`), and the browsers (`phase`, `sock`, `told`, `view`).

| Action | Code |
|---|---|
| `Join`, `Resume` | `RoomWebSocketSignaling.connect` and `API.websocket` up to and including `addWithMode` with everything it delivers, and the goroutines that close replaced sockets |
| `SendSnapshot` | the `peers` message, `accessMu.RUnlock` |
| `Drain` | one turn of the writer goroutine and the browser's handling of the message |
| `HandlerExit` | a failed read or write, or `revoked` seen; the deferred `remove` up to its unlock, `CloseNow` |
| `BroadcastLeft` | the rest of `remove` |
| `CheckSender`, `Relay` | `forwardSignal`, `Hub.relay` |
| `Kick`, `KickRemove` | `disconnectRoomUser`: the marking, then each removal and close |
| `CloseSocket` | a goroutine's `Close`, and `onclose` |
| `Drop` | the link breaks or the person leaves |
| `Restart` | the API process starts over |

`told[p]` is what the socket now open has announced (snapshot and events);
`view[p]` is what the media engine holds, which survives reconnections.
`Knows(c, q)` reads `told` through the queue: what the browser will believe
once it has handled everything queued. `late` and `evicted` are history
variables that no guard reads.

Abstractions: queue and network are one FIFO; the browser sees a close frame
when it is sent; whoever notices a broken link first, it is one `Drop`; leaving
is a `Drop` without a `Resume`; a place in the room is taken in one step with
the checks before it (CallAccess takes them apart); mute flags, names, pings,
the rate limit and SDP are left out. `BroadcastLeft` of a handler that exits
may interleave with a `Kick`, more than the code allows.

**`CallAccess`** is who may be in a call: sessions (`session`), memberships
(`permitted`), the three kinds of handshake (`stage`, `vstage`, `lstage`), the
leases, the lock and the request that holds it. The readers of `accessMu` are
the handshakes in a stage between check and ready message (`Readers`), so the
lock needs no count of its own; `lock = "waiting"` keeps new readers out, as
`sync.RWMutex` does.

| Actions | Code |
|---|---|
| `Admit`, `Register`, `Refuse`, `Serve`, `Exit`, `ExpireClient` | `API.websocket`: checks, `addWithMode` and its two outcomes, snapshot, the end, the session timer |
| `CheckVoice`, `RegisterVoice`, `ExitVoice` | `API.voiceRelay` |
| `CheckLease`, `RegisterLease`, `ServeLease`, `ExitLease` | `API.sfuAuthorization` |
| `Request`, `Decline`, `Grant`, `Revoke`, `Release` | `authed` with `lifecycleMutation`/`membershipMutation`, and `logout` |
| `Collect`, `RemoveTarget`, `RevokeSFU` | the locked part, the loop, and `revokeSFU`, of each `disconnect*` |
| `SignIn`, `Expire` | the sessions table and the clock |

What a request revokes is a set of *scopes*, the three arguments of
`revokeSFU`: sessions of one account (`Devices`), an account, a room, or
places of accounts in rooms (`Places`: member removal, community removal, role
changes, blocks, unfriending). Connections' places are reused: `Conn`, `Voice`
and `Lease` bound how many there are at a time, not over time.

Abstractions: one writer at a time stands for a queue of them; requests that
only read under the lock are left out (they can only delay a writer); the SFU's
token is not modelled because the lease handler checks everything again;
`revoked.Store` and the removal of one target are one step; all hub sweeps of a
block request before its lease sweeps, or alternating as here, is the same
under the lock; lookups after the commit succeed.

**`AccessGate`** is what CallAccess promises without locks, handlers and
evictions: identities hold doors; a door is taken only by somebody allowed; a
revocation takes the permission and closes the doors *in one step*.
`RevocationIsAtomic` says that CallAccess implements it, reading an identity as
allowed until the request that takes its access releases the lock
(`losing`), and a revoked connection as nobody's.

**`PeerNegotiation`** is how two participants agree on a media session. A
participant's JavaScript interleaves at every await; the RTCPeerConnection
belongs to the browser and is modelled by what the engine relies on: a chain of
operations run one at a time, implicit rollback, `setLocalDescription` that
makes what the state asks for, `negotiationneeded` raised when stable and idle.
A description is the revision of its author's tracks and route that it covers.

| Action | Code in `engine.ts` |
|---|---|
| `NegotiationNeeded`, `Greet`, `CreateOffer`, `SendOffer` | `onnegotiationneeded`, the first offer of `addPeer`, the stages of `negotiate` (the browser's `MakeOffer` in between) |
| `OfferTimer` | `watchOffer`: an unanswered offer is sent again |
| `ReceiveDescription`, `ApplyOffer`, `SendAnswer`, `ApplyAnswer` | `handleSignal` and `handleNormalSignal`, cut at `setRemoteDescription` and `setLocalDescription` |
| `ReceiveMetadata` | track metadata, in its place in the chain |
| `ChangeTracks` | tracks are added or replaced, or the voice route changes |

`PromptTimers` lets an offer be repeated although its answer is on its way (the
timer takes 8 seconds); `SlowLimits` lets `applyQuality` wait for the browser.
Both are FALSE in the run.

**`VoiceFallback`** is the voice route between two callers: `StartRelay`, the
handshake (`ReadyReceived`, `OfferReceived`, `AnswerReceived`, `StopReceived`,
`Hear`, `HandshakeTimeout`), its continuations after key generation, key
derivation and codec set-up (`OfferMade`, `AnswerMade`, `SessionMade`,
`Activated`), the relay's socket (`SocketLost`, `SocketBack`,
`SocketUnavailable`), and the return to the direct path (`ConnectionUp`,
`ConnectionDown`, `Stable`, `ProbeReceived`, `DirectReadyReceived`,
`UnreadyReceived`). `LoseSignal` and `RepeatSignal` are the network. Keys are
names, encryption is left out: what authenticates is what was derived from the
same pair. The timers of the route (5 seconds and more) and of the handshake (3
and 8 seconds) fire when nothing is on its way or, `late`, although something is
(`TimerFires`): a signal, a key derivation, a codec; `MaxLate` bounds how often.

**`LocalTracks`** is the capture and replacement of tracks: `Capture`,
`Granted`, `Refused`, `ProcessingFails` and `DenoiserFallback` up to a published
track, `Publish` and `RemoveTrack` that start `replaceTrack` on every peer's
sender, `Settle` and `Reject` of one of these calls, `Adopt` or `AdoptRefused`
once all are done, `Announced`; and at any point `SetMicrophoneEnabled`,
`AddPeer`, `RemovePeer`, `Dispose`. `Overlap` says whether two jobs may replace
one source at a time; `overwritten` is a history variable: the tracks that one of
two overlapping replacements has displaced without having read them.

**`CallSession`** is `useCallSession`: `Join` and its awaits (`NotPrepared`,
`Prepared`, `AudioStarted`, `Captured`, `Connected`, `TearDown`), `Leave`,
`Unmount`, `SocketCloses`, `SignalingLost`, `SignalingBack`, the tasks that hold
the busy flag (`StartToggle`, `EndToggle`), recordings (`StartRecording`,
`StopRecording`, `AutoStop`, `Stopped`, `Archived`). `refs` is what the hook's
refs and its state hold; an attempt that is no longer the current one is a
continuation of a call that is over. `forgotten` is a history variable: the
recordings whose ref the late callback of an earlier one has cleared.

**`PushToTalk`** is the gate of the microphone (`Transmitting`) with the two
ways the key reaches it: DOM events while the window has the focus, and numbered
snapshots of the desktop's hook, which `Deliver` takes in any order and `Lose`
drops. `Heartbeat` asks the hook again. The hook itself, Go code under
`apps/desktop-wails`, is modelled by what the page relies on. Deafen's own
shortcut is left out, it is the mute shortcut's twin.

**`MessageHistory`** is one conversation's cache against the server's log:
`Write`, `Publish`, `ReplyReceived`, `Read` and `PageLoaded` (a request is read
at one moment and answered at a later one), `loadConversation`, `loadOlder`,
`catchUpConversation`, `reconcileMessaging`, `MessageEvent`,
`discardRoomAccess`, `SocketLost`, `Reconnect`, `RoomsChange`, `Mount`,
`Unmount`, `Evict`, `RequestFails`. A message is its number and its version.

**`DraftSync`** is one draft on two devices and the server's row: editing and
blurring, the delayed write (`TimerFires`, `PutTextDraft`), reads and refreshes
with their answers, refusals (409) and failures, the choice in a conflict
(`KeepThisDevice`, `UseOtherDraft`), the send that clears
(`submittedDraft`, `clearSubmittedDraft`, `sentTextDraft`), and
`startDraftSession` from what localStorage kept. A session knows its setting
(`setting`, `state.ready` in the code) only after the first part of its refresh
(`SettingAnswered`); until then no timer starts, although a conversation that is
opened reads its own draft (`ThreadMounts`) and may be ready and edited by then.

**`AttachmentUpload`** is one resumable upload. A handler is a sequence of
database transactions and calls to the object store, each an action
(`ReadChunk`, `RecordMultipart`, `LockAgain`, `StorePart`, `CheckAgain`;
`ReadFinish`, `TakeLease`, `Assemble`, `MarkAssembled`, `CompleteResumable`;
`ReadCancel`, `Tombstone`, `AbortMultipart`, `Erase`), and so are the two
cleanups. `locked` is `FOR UPDATE`. `Fails`, `StoreFails`, `AnswerLost` and
`Restart` are the faults, and `FailsToCancel`: the re-check after a chunk, or the
completion, fails and the handler goes on to cancel the upload. The client retries
(`Interrupted`, `Resume`) while the request it gave up may still run. A session
is looked at when a request comes in and at `CheckAgain`, not in between. The user
may delete the file (`Discard`, then `DiscardRow` or `DiscardRowFails`), the second
way a row is removed; `discarded` are the multipart uploads that were open then, a
history variable, as `recorded` is.

**`RealtimePresence`** is what the event stream tells the windows of one account
(`Observer`) about a contact: whether it is online, through its `Window`s, and
who is in the call of a room both share, through its `Conn`s. `Load`, `Add`,
`WindowReady` and `Announce` are `realtimeWebsocket` up to its loop, for a window
of the contact; `ReadyFails`, `Exit` and `PublishOffline` its ends; `Revoke` is
`disconnectUser` and `disconnectSession`; `SetPresence` the request that changes
the status. An observer's snapshot is put together in two steps (`ReadRosters`,
`contactSnapshot`) while its queue fills already; `Write` sends one event and the
browser shows it. `EnterCall`, `LoseCall`, `LeaveCall`, `ReadRoster` and
`PublishRoster` are the call's handler and `publishCallPresence`, which reads
under one lock and publishes under another. A roster is the number of the
contact's devices. `unannounced` and `published` are history variables.

**`SfuEngine`** is the media sessions of one peer: successive signaling sockets
(`acquire`, `Register`, `ClientSends`, `Forward`, `Written`, `Stall`,
`SocketEnds`, `AuthorizationEnds`, `Unregister`), the table of routes, the queue
of the engine task (`Engine`), and each socket's lease as both servers see it:
`revokeSFU` and `sfuAuthorization` at the API, `Lost` for an API that is gone or stuck,
`hold` at the media server. CallAccess has the API's side in detail; here the
lease is what the two servers know of each other.

**`MCCallMedia`**, **`MCClientState`** and **`MCServerState`** check components side by side that
share no variable: `which` names the one that moves in a behaviour, so that the
state spaces add up instead of multiplying. Nothing in the code couples the
components of one group more tightly than the inputs each module already takes
from its environment (a connection that goes down, a track that changes, a call
that starts).

Some modules hold definitions marked *mutant*, each beside the operator it
mutates the way a plausible bug would: a dropped guard, a forgotten case, a
swapped argument. Nothing uses them; `PROJECT.json` ("mutants") says which
property rejects the model with the mutant in its place.

## The runs

| Run | Checks | Instance |
|---|---|---|
| `joins` | `TypeOK`, `NoPhantoms`, `NobodyMissed` of SignalRoom | three connections, queues of 2; either two tabs of one account and one of another, or two accounts with one relayed signal and one API restart |
| `departures` | `BrokenConnectionsLeave`, `DeparturesReachEveryone` (liveness) | two accounts, three connections, queues of 1 |
| `access` | `TypeOK`, `AdmissionFence`, `PendingCovered`, `OneConnectionPerPeer`, `LeasesUnique` of CallAccess; the refinement `RevocationIsAtomic` | one account with two sessions, two peer ids, two connections and two leases at a time |
| `endings` | `MutationsComplete`, `EndedSessionsLeave` (liveness), `VoiceOwnerInCall` | two accounts that want one peer id, two connections, a voice relay |
| `media` | PeerNegotiation: `ChangesGetNegotiated` (liveness). VoiceFallback: `EpochsAgree`, `KeysServeOneSession`, `RestoredTogether`, `FallbackGetsHeard` (liveness). LocalTracks: `CapturesAreReleased`, `MutedIsSilent`. CallSession: `NoOrphans`, `ShownAsItIs`, `RecordingsEnd`. `TypesOK` of all four | two ends, 2 revisions, one lost message; 3 changes of the connection, 2 lost or repeated signals or sockets, 2 late timers, 2 retries (`DisturbedLittle` says which of these together); 3 captures on 2 peers; 3 attempts at 2 rooms, one toggle, two recordings |
| `client` | PushToTalk: `HeldOnlyInUse`, `OpensOnAPressAlone`, `ReleaseCloses` (liveness). MessageHistory: `NoStaleVersions`, `CatchUpRepairs`. DraftSync: `DirtyIsPending`, `ShownBeforeReplaced`. `TypesOK` of all three | 2 presses; 3 messages of 2 versions in pages of one, 2 writes, 2 lost sockets or changes of the rooms, one failed request; 2 devices, one text, 2 edits, one send, failure or reload (`MaxTurns` is 1) |
| `server` | AttachmentUpload: `ReadyIsWhole`, `NothingUnnamed`, `AbandonedIsErased` (liveness). RealtimePresence: `PresenceSettles`. SfuEngine: `OneMediaSession`, `UnauthorizedMediaEnds` (liveness). `TypesOK` of all three | 2 chunks, 2 requests at a time and the cleaner, 2 failures, 2 multipart uploads; one observer with a queue of 2, and either 2 windows of the contact or 2 devices in the call; 2 sockets at a time, 2 events and answers on their way |
| `overtaken`, `evicted`, `ghost` | `EveryoneIsKnown`, `EvictedStayOut`, `ViewReconciled`: violated, see [Findings](#findings) | as `joins`, or its pair without signals and restarts |
| `drafts` | `SendClearsWhatItSent`: violated | 2 devices, 2 texts, 2 edits, one send |
| `leaked` | `CapturesAreReleased` with `Overlap`: violated | 3 captures, 2 peers |

What they show:

- *NobodyMissed, NoPhantoms.* Whatever joins, replaces, is kicked, drops,
  overflows, resumes or restarts: a connection that is being served knows
  everybody in the room and nobody who has left it, up to messages on their
  way. The one exception is named (`late`), and it is a finding.
- *AdmissionFence, PendingCovered, RevocationIsAtomic.* A handshake that
  checked the database before a commit cannot register behind the sweep, for
  connections and for leases; while the sweep is at work, everybody who lost
  access and is still there is on its list; to everyone outside the whole
  request is one step.
- *VoiceOwnerInCall, LeasesUnique, OneConnectionPerPeer.* The three tables that
  refer to one another stay consistent, though each has its own lock and its
  own way of losing entries.
- *MutationsComplete, EndedSessionsLeave, BrokenConnectionsLeave,
  DeparturesReachEveryone.* Writers are not starved; expired sessions, broken
  sockets and departures are dealt with in the end.
- *ChangesGetNegotiated.* With offers that collide, a signal that is lost, and
  tracks that change in the middle of an exchange, both participants end stable
  with each one's last change in the session.
- *EpochsAgree, KeysServeOneSession, RestoredTogether, FallbackGetsHeard.* However
  restarts of the handshake interleave with its continuations, two ends on one
  epoch hold each other's keys, in both directions, and no key starts a second
  nonce counter. The one exception is named (`AnsweredAgain`): a responder that
  lost its relay socket answers a repeated offer of the epoch with a new key
  (`voiceRelay.ts:195`), and the initiator keeps the old one; TLC reaches it with
  two losses. Neither end leaves the relay before both have seen the direct path
  stable. While that stays down, each end comes to be heard or gives up, whatever
  is lost, repeated or late, but for one that is `Stranded`: an answer that comes
  after its initiator has given up makes an entry without a timer
  (`voiceRelay.ts:169-176`), which waits for another signal. With at most one loss
  and no late timer both are heard; a late timer uses up an attempt, or removes a
  session that would have been heard, which is why nothing stronger holds.
- *CapturesAreReleased, MutedIsSilent.* When captures of a source come one after
  the other, no refusal, failed graph, failed `replaceTrack`, removal of a peer
  or disposal leaves a device on, and no replacement unmutes a muted call. When
  they overlap, the first fails (`leaked`), and the second holds but for a track
  that has been `overwritten`: a peer added between the two adoptions keeps it, and
  no mute reaches it any more.
- *NoOrphans, ShownAsItIs, RecordingsEnd.* Whatever overtakes a join, the engine
  and the socket it made are the ones `leave` would end, or are ended already;
  the screen never says joined, muted or busy of a call that is not; no
  recording goes on that nobody can stop, but for one that is `forgotten`: the
  callback of an earlier one came late and cleared its ref (under
  [Findings](#findings)).
- *OpensOnAPressAlone, HeldOnlyInUse, ReleaseCloses.* With push-to-talk on, no
  change of mute, deafen, focus, settings or of the shortcut's registration, and
  no order or loss of its snapshots, opens the microphone without a press, and a
  key that is up closes it. The exception, a global mute shortcut, is under
  [Findings](#findings).
- *NoStaleVersions, CatchUpRepairs.* Events, pages and answers in any order never
  take a shown message back, and the last page of a catch-up leaves nothing
  stale from the first message on screen to the end, unless the socket was lost
  again and another catch-up is to come.
- *DirtyIsPending, ShownBeforeReplaced.* Typed text is on its way, or about to be
  compared by a refresh that is out, or the user sees why not (a conflict, an error
  of the entry, or `unread`, the error of a refresh that failed); that includes the
  time before the setting is known, when no timer runs. A device overwrites
  another's text only after showing it.
- *ReadyIsWhole, NothingUnnamed, AbandonedIsErased.* A file that can be sent is
  all its chunks; the object store holds nothing that no row names, but for the
  multipart upload of a cancelled file whose abort failed and whose tombstone the
  user deleted (`discarded`, under [Findings](#findings)); an upload that was
  cancelled or deleted, that lost its session before it was complete, or that was
  not sent in a day is erased in the end.
- *PresenceSettles.* However windows open, close, are revoked and overtake each
  other's announcements, and whatever of it falls between the parts of a
  snapshot: once nothing is under way an observer that has not overflowed shows
  its contact as it is. The two exceptions the property names are under
  [Findings](#findings).
- *OneMediaSession, UnauthorizedMediaEnds.* A peer that comes back while its old
  socket is being torn down never has two sessions in the engine, and the old
  socket's end removes no session but its own; a session whose authorization was
  revoked, or whose API cannot be heard, ends even when its client reads nothing.

The bounds, and why they are enough. In SignalRoom three connections let a
participant join, be replaced or drop, and come back while another watches:
each of the hazards is between one observer and the successive connections of
one other (or of two devices of one account). `SignalQueue` 1 or 2 instead of
256 makes the overflow happen; `MaxSignals` and `MaxRestarts` are the only other
bounds. CallAccess has no counter at all, its runs are complete for the sets
they name, and they check deadlock. Two sessions of one account (`access`) give
replacement across devices, logout of one device and account deletion; two
accounts with one peer id (`endings`) give the refused registration. Symmetry is
used in `access` only, which checks no liveness, over connections, leases, peers
and the two sessions of the one account.

In PeerNegotiation a second revision per participant gives a change in the middle
of the first exchange, on either side, and one loss takes any message of it;
`MaxQueue` keeps people from changing tracks behind four unread signals. Three
changes of the connection let it come up, fail and come up again at one end only
or at both; two retries are the code's. Two losses are a socket and a repeated
offer, two late timers an attempt that is restarted and its restart.
`DisturbedLittle` keeps the three counters from multiplying: every change of the
connection with one loss, or two losses or late timers without a change, or one of
them with two changes. The proofs need no such bound.
Three captures are one that is current, one that replaces it and one
that fails; two peers let a replacement succeed on one and not on the other.
Three attempts are a call, the join that replaces it and one more while the
first is being torn down; two recordings are one that stops itself and the next;
`MaxBegun` keeps the attempts and recordings of one behaviour at four. Two presses give a press whose snapshot is delivered
after that of the next. In MessageHistory a page of one message makes every list
incomplete, two writes make one version overtake another, and the second
disruption takes the socket away in the middle of the catch-up after the first. A draft's second
edit is the one made while the first is being written. With one turn a
reload is followed by edits and reads before the setting is known, but not by a
refresh that fails in the same session; that case is left to the proof. Two chunks
make a file that is half there; two requests are an attempt and its retry; the second
multipart upload and the second failure let the recovery from a failure fail; a
request takes the first free handler (`FirstFree`), since handlers are alike.
Two windows are one that closes and one that opens meanwhile, two devices are two
publications that overtake each other, and a queue of two events overflows. Places
of windows, devices and sockets are used again without bound: two sockets are a
predecessor and its successor (the same run holds with three, alone), and
`MaxInbound` only keeps a client from writing faster than it reads.

`CHECK_DEADLOCK FALSE` stands in the runs whose counters or numbered
connections, attempts, captures and presses are used up, when nothing is left to
do. `access` and `endings` have none and check deadlock.

## Fairness

`FairSpec` assumes weak fairness of what the server does by itself: goroutines
that can take a step do (`SendSnapshot`, `Drain`, `Relay`, `BroadcastLeft`,
`KickRemove`, `CloseSocket`, `Register`, `RegisterVoice`, `RegisterLease`,
`Collect`, `RemoveTarget`, `RevokeSFU`, `Release`); a handshake ends because
its last write has a five-second timeout (`Serve`, `ServeLease`); a timer fires
(`ExpireClient`); the handler of a lost or revoked socket stops because its
next read or write fails, at the latest after the 45-second read timeout or the
next ping (`HandlerExit`, `Exit`). `Revoke` is fair because a waiting
`RWMutex` writer gets the lock once the readers are gone; `Decline` and `Grant`
are what it may do instead. Nothing is assumed of people, browsers, links, the
clock of a session or the media server: `Join`, `Resume`, `Drop`, `Kick`,
`Request`, `Expire`, `Admit`, `CheckVoice` and `CheckLease` need not happen.
The database is assumed to answer.

In the client, promises resolve, timers fire and the browser raises what it
owes: `PeerNegotiation` is fair to `NegotiationNeeded`, `Greet`, `SendOffer`,
`OfferTimer`, `HandleSignal` and `Operate` of each participant and owes nobody a
change of tracks; `VoiceFallback` to `Progress` of each end, which leaves out
the connection's changes, losses and the relay's unavailability; a timer that has
nothing to overtake any more fires. `PushToTalk`
needs `Heartbeat`, the page's interval that asks the hook for its state. In
`AttachmentUpload` handlers run and end by success or failure, a lease ends
(it is a time), and the cleanup comes round every hour; the client's retries,
the end of a session and of the day are not assumed. `SfuEngine` is fair to the
engine's task, to sockets that register, end with their authorization or
unregister, to `hold`, whose heartbeats and deadlines are timers, and to
`sfuAuthorization`, the API's read timeout; a client need not read, write or leave.
`CallSession`, `LocalTracks`, `MessageHistory`, `DraftSync` and
`RealtimePresence` state no liveness.

## The proofs

`CallAccess_proofs` proves, for every value of the constants that
`RegistryAssumption` and `CallAccessAssumption` allow (any numbers of rooms,
accounts, sessions, connections, relays and leases; sessions belong to
accounts; `None` is none of them; the capacity is a natural number):

| Theorem | Says |
|---|---|
| `TypeCorrect` | `Spec => []TypeOK` |
| `UniqueConnections` | `Spec => []OneConnectionPerPeer` |
| `VoicesHaveOwners` | `Spec => []VoiceOwnerInCall` |
| `LeasesAreUnique` | `Spec => []LeasesUnique` |
| `SweepIsComplete` | `Spec => []PendingCovered` |
| `AdmissionFenced` | `Spec => []AdmissionFence` |

The argument. `Structure` is the base of everything after `TypeCorrect`: types,
`Handlers` (whoever is in a room has a handshake behind it and is filed under
its own room; relays have owners, granted leases a claim) and `Locking`
(readers and the writer exclude each other; outside the lock no work is
pending). `PendingCovered` is not inductive: a handshake that has checked the
database and not registered yet is no connection, and would bring in anybody.
The strengthening adds what the read lock is for: `ConnFence` says that an
admitted connection's account *is still authorized*, `LeaseFence` the same of a
checked lease. A commit needs the write lock, so there is no reader then
(`Locking`); whoever loses access by it is in one of its scopes
(`RevokedIsCovered`); `Collect` moves the people of a scope into `targets`, or
revokes them on the spot, and `RemoveTarget` and `RevokeSFU` give up nobody who
is still there. When the lock is released nothing is pending, and the fence
follows. `ConnFenceKept` and `LeaseFenceKept` deal at once with the many actions
that end nobody's access; the rest get a step each.

`ClientState_proofs` proves of PushToTalk, for any number of presses and with or
without the desktop's hook:

| Theorem | Says |
|---|---|
| `TypeCorrect` | `Spec => []TypeOK` |
| `HeldInUse` | `Spec => []HeldOnlyInUse` |
| `OpensAlone` | `Spec => OpensOnAPressAlone` |

The argument. Neither the types nor the gate are inductive alone. A hook that
counts keeps its counters in their types because `Numbered`: every change of a
watched key takes a number and a press, of which there are two per press. A
snapshot that is accepted opens the gate, and nothing is watched outside a call
(`OnlyInCall`). `OpensAlone` needs more: that the snapshot which opens the gate
is news is known from its number, and a number could as well be a release.
`TalkAlone` says that where no mute shortcut is assigned presses and releases
alternate, so that a number is odd exactly when the key is pressed, and ties the
number the page accepts next to the presses it knows of
(`2 * reported <= accepted`). A snapshot that opens the gate has an odd number
at or above the accepted one; accepting it raises `reported`.

`RevocationsAreAtomic` is the refinement, `Spec => RevocationIsAtomic`, step by
step. `Allowed` and `Doors` are what CallAccess puts for the variables of
`AccessGate`; only a lock holder has anybody in `losing` (`Outside`). A handler's
step is a door that is taken by somebody allowed, which is `AdmissionFence`
again, or one that closes (`ConnectionMoves`, `LeaseMoves`); the commit of a
revocation is invisible, because who loses access stays in `losing`; the release
of the lock is `Gate!Revoke`, because by then nothing is pending, so that every
door still open is one of somebody authorized (`PermissionsMove`).

The other proofs, each for every value of its module's constants that the named
assumption at the top of the module allows:

| Module | Theorem | Says | For any number of |
|---|---|---|---|
| `SignalRoom` | `TypeCorrect` | `Spec => []TypeOK` | accounts, tabs, connections, signals, restarts; any queue bound |
| | `PhantomsLeave` | `Spec => []NoPhantoms` | |
| | `EveryoneMet` | `Spec => []NobodyMissed` | |
| `VoiceFallback` | `VoiceTypeCorrect` | `VoiceSpec => []VoiceTypeOK` | changes of the connection, losses, late timers, retries |
| | `OneSessionPerKey` | `VoiceSpec => []KeysServeOneSession` | |
| | `EpochsHoldTheirKeys` | `VoiceSpec => []EpochsAgree` | |
| | `StopsAreAgreed` | `VoiceSpec => RestoredTogether` | |
| `CallSession` | `TypeCorrect` | `Spec => []TypeOK` | attempts, rooms, other tasks, recordings |
| | `NothingOrphaned` | `Spec => []NoOrphans` | |
| | `ShownTruthfully` | `Spec => []ShownAsItIs` | |
| | `RecordingsStop` | `Spec => []RecordingsEnd` | |
| `AttachmentUpload` | `TypeCorrect` | `Spec => []TypeOK` | chunks, requests, failures, multipart uploads |
| | `WholeWhenReady` | `Spec => []ReadyIsWhole` | |
| | `AllNamed` | `Spec => []NothingUnnamed` | |
| `SfuEngine` | `SfuTypeCorrect` | `SfuSpec => []SfuTypeOK` | sockets; any `MaxInbound` |
| | `OneSession` | `SfuSpec => OneMediaSession` | |
| `RealtimePresence` | `PresenceTypeCorrect` | `PresenceSpec => []PresenceTypeOK` | windows, devices, observers; any queue bound |
| | `WhatIsShownSettles` | `PresenceSpec => []PresenceSettles` | |
| `DraftSync` | `DraftTypeCorrect` | `DraftSpec => []DraftTypeOK` | devices, texts, edits, sends, failures, reloads |
| | `TextIsOnItsWay` | `DraftSpec => []DirtyIsPending` | |
| | `NothingReplacedUnseen` | `DraftSpec => ShownBeforeReplaced` | |
| `MessageHistory` | `HistoryTypeCorrect` | `HistorySpec => []HistoryTypeOK` | messages, versions, writes, disruptions, failures; any page sizes |
| | `VersionsOnlyGrow` | `HistorySpec => NoStaleVersions` | |
| | `NothingStaysMissed` | `HistorySpec => CatchUpRepairs` | |
| `LocalTracks` | `TracksTypeCorrect` | `TracksSpec => []TracksTypeOK` | captures, sources, peers |
| | `DevicesAreReleased` | `TracksSpec => []CapturesAreReleased`, given `~Overlap` | |
| | `MutedCallIsSilent` | `TracksSpec => []MutedIsSilent` | |
| `PeerNegotiation` | `NegotiationTypeCorrect` | `NegotiationSpec => []NegotiationTypeOK` | changes, losses, signals under way |
| `MCCallMedia`, `MCClientState`, `MCServerState` | `CallTypesCorrect`, `ClientTypesCorrect`, `ServerTypesCorrect` | `MCSpec => []TypesOK` | as their components |

**SignalRoom.** `NoPhantoms` and `NobodyMissed` turn out to be inductive
together with `TypeOK` and `Placed` (who is in the room, is leaving it or is
being kicked has registered for this call; no peer has two connections in it;
who has not registered has nothing queued). The work is in what a queue *says*:
`Known(q, before, p)` is what its reader believes of `p` after it, and
`KnownInTurn` splits it at any place, so that what `deliver` appends
(`Delivered`) and what `Drain` takes (`DrainKnows`) each change the belief about
one peer. `RegisterRoster` and `BroadcastRoster` are the two actions that change
the room and what is said of it in different critical sections.

**VoiceFallback.** None of the three is inductive, because none says what an
await may find when it resumes. `Turns` does: a continuation whose generation is
still the relay's finds the epoch and phase its handler left, no key where it
is about to make one, and its offer not sent. `Epochs` says that whatever
carries the initiator's epoch carries the one key of that offer, `Unused` that
the key of an offer without a session has encrypted nothing, `Sources` where
epochs and keys come from, and `Up` what a relay that is active has. That the
initiator's session is derived from the responder's key is harder, because what it
holds may be older: `Answers` says that it is one of the keys the responder has had
in sessions (`keyed`, in order), and the responder's own the last of them. For
`StopsAreAgreed`, `Paths`: an answer to a probe was sent by an end that was ready.

**CallSession.** `Held` strengthens `NoOrphans`: what is alive is named *and not
aborted*, and the attempt that `refs.join` names finds the place of its engine
free. `ShutDown` shows that ending what the refs name ends everything.
`ShownAsItIs` needs `Refers`: the joined room is that of a finished attempt, only
a joined call has an open connection, and an attempt that is under way and current
is the task that keeps the call busy. `RecordingsEnd` is inductive as it stands: a
recording begins only when the refs name none.

**AttachmentUpload.** A handler knows what it read; `Fits` says, for each of its
stages, what of that still holds when the row may have moved on: a chunk that is
being stored is the next one, a finalization has a lease and a file with all its
chunks, the multipart id it read is the row's for good or forgotten with a
cancelled one. `Sound` is the same of the row against the store, `Removing` of
the cleanup's last step; the user's deletion removes a row that is a tombstone, or
complete, and `discarded` takes what may be open then. The proof is by kinds of step
(`ChunkStep`, `JoinStep`, `FinishStep`, `CancelStep`, `FailureStep`, `CleanupStep`,
...), with `StillFits`
for the handlers a step does not concern.

**SfuEngine.** `OneMediaSession` is an action property; what makes it true is
that the engine's queue is *orderly*: there is a sequence of sessions, one per
event queued, in which every `Join` finds no session, every `Leave` its own, and
the last is that of the socket that has the route (`Through`, `Heir`). A socket
registers only when its predecessor's `Leave` is queued.

**RealtimePresence.** `PresenceSettles` speaks of moments when nothing is under
way. The invariant that leads there speaks of all: the last thing any observer
is told of the contact, queued or shown (`TellsOnline`, `TellsRoster`), is so or
somebody is still to say otherwise (`OnlineOK`: `UpDue`, `DownDue`; `RosterOK`:
`RosterDue`). `Hub` is what that rests on: who holds `presenceMu` has loaded, and
with both sides there the hub's copy of the wish is the stored one.

**DraftSync.** `DirtyIsPending` is not inductive: a send ends, and what carried
the text is gone. `Scheduled` says that a device with a text the server does not
have, which is not writing, has its timer running or is sending that very text, or
is about to read the draft again, or has failed to. `Window` says what the time
before the setting is like: no timer, the refresh is out or has failed, and only a
send writes. `Behind` says that nobody is ahead of the server: a refresh that
answered an older version than the entry's would be ignored and leave it without a
timer.
`ShownBeforeReplaced` needs `Shown` (the version a device holds is that of the
row it was shown, and no mutation of it names a later one) and that no two
devices have a mutation in common (`Repeats`), because the server answers a
repeated mutation as its own. Most steps are of one device whose record becomes
another: the lemmas about records (`ReceiveSane`, `WriteEndsSane`, `AfterReadSane`,
...) say what each operator keeps, and `BecomesKeeps` carries that to the state.

**MessageHistory.** `Repairs` is the catch-up's loop invariant: what is on screen
up to the cursor is current, on its way or to be caught up again, and what a page
holds beyond the cursor is so, to the page's end or, with the last page, the log's.
It rests on `VersionsKnown` (nobody holds a version the server has not written, so
that a copy in the newest version survives every merge) and on `InCache`: a
conversation with messages on screen is open, so that an event is not ignored.
`RepairsStay` is the frame of the steps that leave the request alone, `CacheStep`
of those that end it or start another. That the first and the last number of a
list exist is `NonemptyHasLeast`, from the well-foundedness of the naturals. The
invariant had a say in the property: with one lost socket `CatchUpRepairs` held
without its last disjunct, `Again`; the proof, and then TLC with a second
disruption, show a catch-up that ends while the socket is gone once more.

**LocalTracks.** `DevicesAreReleased` rests on what a job may assume after each
await. `Publishing`: what it is to replace is still the source's current track
when the senders have the new one. `Announcing`: what it has adopted still is
when the news is out. `Handover`: a track that took a device over
(`rawOwnershipTransferred`) and failed has switched it off, so that the track it
was to replace, still in use, does not leave it running. After `dispose` the first
two say instead that the device is off, or in the hands of a job that will stop
it. All of this needs `OneReplacementAtATime`: the callers of one source wait for
each other, the hypothesis `~Overlap`. The run `leaked` is what happens without
it; the types hold either way. `MutedCallIsSilent` needs no such hypothesis, only
`MuteInv`: an open track is one that the next mute reaches (a
pending microphone or the current one), or one that a job is announcing away or
that was overwritten (`Gating`), and a muted call has closed all it reaches (`Silenced`).

**PeerNegotiation.** That an operations chain is no longer than two is not
inductive: `Chain` says exactly what is on it, by what negotiate and the inbound
signal are doing. That nothing but a description is ever sent as one
(`LocalDescription` reads the pending one or the session) needs `Exchange` (the
signaling state and the two pending descriptions agree) and `Described`: when an
offer goes out, there is one to send. A polite side that has given its own offer
up falls back on a session's, and has one, because it begins only when a first
exchange is through; the impolite side keeps its offer until an answer comes.

**The MC modules.** `ClientStateComposed`, `ServerStateComposed` and
`CallMediaComposed` say that a behaviour of the whole is one of each component
(`MCSpec => Spec /\ HistorySpec /\ DraftSpec`, and so on), because a step of one
leaves the variables of the others alone. Every theorem about a component holds
of the whole by that; the three about `TypesOK` are spelled out.

Not proved: the liveness properties, and steps under fairness (out of the
prover's reach); they are model-checked. Every invariant and every action
property of the passing runs has its theorem.
`HubRegistry` is typed as part of the two modules that
extend it. The theorems say nothing of the bounds that TLC needs and the code does
not have (`MaxBegun` is in MCCallMedia alone); where a counter is bounded in a
module (`MaxPresses`, `MaxChanges`, `MaxFailures`, ...) they hold for every
value of the bound.

## Findings

1. **A departure overtakes a return** (`overtaken`, `hub.go:215`). `remove`
   unlocks between deletion and broadcast. A participant that comes back under
   its peer id in between is announced as joined and then as gone; the others
   drop it, though it is in the room. `addWithMode`'s comment and
   `TestConcurrentJoinersAlwaysDiscoverEachOther` say that both callers learn
   of each other.
2. **A replaced device may return** (`evicted`, `hub.go:497`). The policy
   violation that tells a browser to stay out is sent by a goroutine; the
   connection's own handler may see `revoked` first and drop the socket without
   a close frame, which the browser takes for a network failure and resumes.
3. **A snapshot adds and never removes** (`ghost`, `useCallSession.ts:742`). A
   participant that left while a browser was reconnecting keeps its entry and
   its media connection there, although `deliver`'s comment counts on the fresh
   snapshot for repair.
4. **A send may clear a text it did not send** (`drafts`, `draftStore.ts:425`).
   The text is taken when the user presses send, the version to clear after a
   wait for reads and writes; an answer in between may bring another device's
   newer text, which the message's transaction then empties.
   `docs/DAILY_COMFORT.md:53-54`: "Sending clears only the submitted cloud
   revision in the message transaction. Newer revisions survive".
5. **Overlapping captures leave a device on** (`leaked`, `engine.ts:572`).
   `replaceLocalTrack` reads the track it replaces before its awaits and adopts
   its own after them; of two that overlap, the first to adopt is overwritten
   and nobody stops its device. The effects of `useCallSession.ts:498-550` can
   make them overlap. `docs/WAILS_COMPLETION.md:9`: "Every stop, error, and
   disconnect path must release capture tracks".

Met while modelling, without a run of their own:

- A global mute shortcut that lifts the mute while the talk key is held opens
  the microphone (`nativePushToTalk.ts:83-90`), where `docs/PUSH_TO_TALK.md:5`
  asks for a fresh press; `OpensOnAPressAlone` excludes it by name.
- A direct probe that is lost is not sent again (`engine.ts:1371`): both ends
  stay on the relay although the direct path is up, until it changes again.
- An event that comes before the first page makes a history non-empty. If that
  page then fails, the next load keeps a cursor that was never set
  (`messageStore.ts:289`), and older messages cannot be reached.
- A multipart upload that was begun and not committed before a crash has no row
  that names it (`storage_features.go:349`); `NothingUnnamed` speaks of
  `recorded` ones.
- The cleaner cancels what it has listed before (`storage_features.go:661`): an
  upload of an expired session that completes in between is cancelled though
  it is whole.
- Of two rosters of a call that are computed at once the older may be published
  last (`realtime.go:340-346`) and stays on everybody's screen until the next
  change, where `docs/CALL_PRESENCE.md:3` says that only participants with a live
  connection are shown. `PresenceSettles` names the roster published last.
- When the `app.ready` of an account's first window cannot be written and a
  second window has opened meanwhile, nobody announces that the account is online
  (`realtime.go:419-426`); `PresenceSettles` excludes it as `unannounced`.
- The last observer's departure may delete an account's status between a window's
  load of it and its registration (`realtime.go:108-113`, `398-404`): an invisible
  user is told that it is shown as online. Its contacts still see it right.
- An answer the media server's engine makes for a socket that has gone is
  delivered to the peer's next socket if that one has its route by then
  (`engine.rs:299-303`).
- A recorder that stops itself hands over its last chunk later. If another
  recording begins meanwhile, the end of the first takes the second's place in
  the ref away (`useCallSession.ts:1106-1110`), and `leave` then stops nothing;
  `RecordingsEnd` names such a recording as `forgotten`.
- A cancelled upload whose multipart could not be aborted keeps its tombstone for
  the cleanup. The user's deletion of the file accepts that tombstone and removes it
  without a look at the multipart upload (`attachment_store.go:41-43`), which nobody
  names from then on; `NothingUnnamed` names it as `discarded`.
- A responder of the voice relay that lost its socket answers a repeated offer with
  a new key under the same epoch (`voiceRelay.ts:195`); the initiator keeps the old
  one until a new epoch begins. `EpochsAgree` names it as `AnsweredAgain`.
- An answer of the voice relay that comes after its initiator has given up makes an
  entry that nothing starts and nothing removes (`voiceRelay.ts:169-176`);
  `FallbackGetsHeard` names it as `Stranded`.
- With `SlowLimits`, an answer the browser refuses leaves
  `isSettingRemoteAnswerPending` set (`engine.ts:989`), and the impolite side may
  then give way.

## What is not modelled

In the modelled components: wording, names, mute and deafen flags in messages,
rate limits, contents of SDP, ICE candidates and ICE restarts, remote tracks and
statistics, quality limits, native screen and camera transports, codecs and
encryption, the voice packet path (`relayVoice`, bounded queues of the newest
packets), device menus and dialogs, jumps to a message, threads and unread
counts, replies in drafts, the upload in one request, content scanning and
quotas, SQL, and failures of the database after a commit.

Of `realtime.go`, changes of subscriptions, typing, profiles and the other
events; of the media server, the engine itself (the `sfu` crate), media packets
and token verification.

Still to come: desktop pairing, community access, watch together, reminders. Left out for good:
rendering (components, styles, the animated pet), platform capture, signal
processing, build files and sequential CRUD. They are most of the repository's
lines, and hold no protocol that a model checker would help with.
`PROJECT.json` ("components") says which is which.

## Plan

Done: the fourteen modules above, and the proofs of the starred ones. Next:

1. Proofs. A refinement for MessageHistory (each client's list is a stale view of
   one log) and for the voice route; both need an abstract module of their own.
2. Room and contact subscriptions that change while a window is open, in
   RealtimePresence; SfuEngine's leases joined to those of CallAccess, and an
   abstract specification of both (media only for those who are allowed).
3. `DesktopPairing` — pairing codes: spent once, after approval, before expiry.
   Invariants worth proving for any number of pairings.
4. Failure branches of `CallAccess`: lookups after the commit that fail.
5. The upload in one request and scanning; community access and ownership;
   watch-together host lease; reminders.
