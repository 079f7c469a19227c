--------------------------- MODULE RealtimePresence ---------------------------
(***************************************************************************)
(* What the app-wide event stream tells a window about others (RealtimeHub *)
(* in server/internal/api/realtime.go): whether a contact is online, and   *)
(* who is in the call of a room.  Observers are the event connections of   *)
(* one account; Windows are those of its contact, Conns the contact's      *)
(* devices in the call of a room both share.                               *)
(*                                                                         *)
(* Every publication reads the state it publishes under RealtimeHub.mu and *)
(* queues it there, except the roster of a call, which is read under       *)
(* Hub.mu first.  Memberships, friendships and the other events of the     *)
(* stream are left out; a connection's place is used again.                *)
(***************************************************************************)
EXTENDS Naturals, Sequences, FiniteSets

CONSTANTS
  Observer, Window, Conn,
  EventQueue,   \* events queued for a connection (128 in the code)
  Unset

VARIABLES
  stored,      \* the contact's status in the database
  desired,     \* RealtimeHub.desired of the contact
  presenceMu,  \* the handler that holds it across the load, or Unset
  stage,       \* connection -> where its handler is
  first,       \* window -> becameOnline of its handler
  queue, slow, \* observer -> what is queued; those whose queue has overflowed
  view,        \* observer -> what the browser shows, or is being sent
  present,     \* connections that count in Hub.callPresence
  call,        \* connection -> where its handler is
  unannounced, \* the contact came online by a window that never said so
  published    \* the roster published last

(* What the theorems about this module assume.                             *)
PresenceAssumption ==
  /\ Observer \cap Window = {} /\ Unset \notin Observer \cup Window \cup Nat
  /\ IsFiniteSet(Conn) /\ EventQueue \in Nat

streamVars == <<stored, desired, presenceMu, stage, first, unannounced>>
callVars == <<present, call, published>>
readerVars == <<queue, slow, view>>
presenceVars == <<streamVars, callVars, readerVars>>

StreamStage == {"closed", "loaded", "added", "listed", "ready", "serving", "revoked", "offline"}
Status == {"online", "invisible"}
Roster == 0 .. Cardinality(Conn)
StreamEvent == [kind : {"online"}, value : BOOLEAN] \cup [kind : {"roster"}, value : Roster]
Due == [stage : {"out", "in", "entering", "leaving"}, roster : Roster \cup {Unset}]

PresenceTypeOK ==
  /\ stored \in Status /\ desired \in Status \cup {Unset}
  /\ presenceMu \in Observer \cup Window \cup {Unset}
  /\ stage \in [Observer \cup Window -> StreamStage] /\ first \in [Window -> BOOLEAN]
  /\ queue \in [Observer -> Seq(StreamEvent)] /\ \A o \in Observer : Len(queue[o]) <= EventQueue
  /\ slow \subseteq Observer
  /\ view \in [Observer -> [online : BOOLEAN, roster : Roster]]
  /\ present \subseteq Conn /\ call \in [Conn -> Due]
  /\ unannounced \in BOOLEAN /\ published \in Roster

Nobody == [online |-> FALSE, roster |-> 0]

PresenceInit ==
  /\ stored \in Status /\ desired = Unset /\ presenceMu = Unset
  /\ stage = [c \in Observer \cup Window |-> "closed"] /\ first = [w \in Window |-> FALSE]
  /\ queue = [o \in Observer |-> <<>>] /\ slow = {} /\ view = [o \in Observer |-> Nobody]
  /\ present = {} /\ call = [c \in Conn |-> [stage |-> "out", roster |-> Unset]]
  /\ unannounced = FALSE /\ published = 0

(* h.users of the contact, and h.watchers: the observers, which also       *)
(* follow the room.                                                        *)
Registered == {"added", "listed", "ready", "serving"}
Users == {w \in Window : stage[w] \in Registered}
Watchers == {o \in Observer : stage[o] \in Registered}
callPresence == Cardinality(present)

effectivePresence == Users # {} /\ desired # "invisible"

-----------------------------------------------------------------------------
(* enqueueRealtime: a full queue loses the event, and its connection.      *)
Enqueue(e) ==
  LET Full(o) == Len(queue[o]) = EventQueue
  IN /\ queue' = [o \in Observer |-> IF o \in Watchers /\ ~Full(o) THEN Append(queue[o], e) ELSE queue[o]]
     /\ slow' = slow \cup {o \in Watchers : Full(o)}
     /\ UNCHANGED view

PublishPresence ==
  /\ Enqueue([kind |-> "online", value |-> effectivePresence])
  /\ unannounced' = FALSE

\* publishOnline says nothing when the account's devices have changed since.
publishOnline(online) ==
  IF (Users # {}) = online
  THEN PublishPresence
  ELSE UNCHANGED <<readerVars, unannounced>>

(* RealtimeHub.remove forgets the wish of an account nobody looks at.      *)
WishKept(users, watchers) == IF users = {} /\ watchers = {} THEN Unset ELSE desired

\* A window is gone already when a revocation has removed it; its handler asks
\* again, and is told again that the account is offline.
RemovedLast(w) == Users = {w}
BecameOffline(w) == Users \ {w} = {}

-----------------------------------------------------------------------------
(* realtimeWebsocket, for a window of either account.                      *)
Load(c) ==
  /\ stage[c] = "closed" /\ presenceMu = Unset
  /\ presenceMu' = c /\ desired' = stored
  /\ stage' = [stage EXCEPT ![c] = "loaded"]
  /\ UNCHANGED <<stored, first, unannounced, callVars, readerVars>>

Add(c) ==
  /\ stage[c] = "loaded" /\ presenceMu' = Unset
  /\ stage' = [stage EXCEPT ![c] = "added"]
  /\ first' = IF c \in Window THEN [first EXCEPT ![c] = Users = {}] ELSE first
  /\ UNCHANGED <<stored, desired, unannounced, callVars, readerVars>>

\* app.ready is written, and the news that the account is online goes out
\* before accessMu is let go; or the write fails, and it does not.
WindowReady(w) ==
  /\ w \in Window /\ stage[w] = "added"
  /\ stage' = [stage EXCEPT ![w] = IF first[w] THEN "ready" ELSE "serving"]
  /\ UNCHANGED <<stored, desired, presenceMu, first, unannounced, callVars, readerVars>>

Announce(w) ==
  /\ w \in Window /\ stage[w] = "ready"
  /\ stage' = [stage EXCEPT ![w] = "serving"]
  /\ publishOnline(TRUE)
  /\ UNCHANGED <<stored, desired, presenceMu, first, callVars>>

WindowLeaves(w, silent) ==
  /\ stage' = [stage EXCEPT ![w] = IF BecameOffline(w) THEN "offline" ELSE "closed"]
  /\ desired' = WishKept(Users \ {w}, Watchers)
  /\ unannounced' = (unannounced \/ silent)
  /\ first' = [first EXCEPT ![w] = FALSE]
  /\ UNCHANGED <<stored, presenceMu, callVars, readerVars>>

ReadyFails(w) == w \in Window /\ stage[w] = "added" /\ WindowLeaves(w, first[w])
Exit(w) == w \in Window /\ stage[w] \in {"serving", "revoked"} /\ WindowLeaves(w, FALSE)

PublishOffline(w) ==
  /\ w \in Window /\ stage[w] = "offline"
  /\ stage' = [stage EXCEPT ![w] = "closed"]
  /\ publishOnline(FALSE)
  /\ UNCHANGED <<stored, desired, presenceMu, first, callVars>>

\* disconnectUser and disconnectSession, with accessMu held for writing: nobody
\* is between the checks and the ready message.
Revoke(w) ==
  /\ w \in Window /\ stage[w] = "serving"
  /\ \A c \in Observer \cup Window : stage[c] \in {"closed", "serving", "revoked", "offline"}
  /\ stage' = [stage EXCEPT ![w] = "revoked"]
  /\ desired' = WishKept(Users \ {w}, Watchers)
  /\ UNCHANGED <<stored, presenceMu, first, unannounced, callVars, readerVars>>

\* PUT me/presence.
SetPresence(status) ==
  /\ presenceMu = Unset /\ stored # status
  /\ stored' = status /\ desired' = status
  /\ Enqueue([kind |-> "online", value |-> Users # {} /\ status # "invisible"])
  /\ unannounced' = FALSE
  /\ UNCHANGED <<presenceMu, stage, first, callVars>>

-----------------------------------------------------------------------------
(* An observer's handler: the snapshot is put together lock by lock, and   *)
(* what is queued meanwhile follows it.                                    *)
ReadRosters(o) ==
  /\ o \in Observer /\ stage[o] = "added"
  /\ stage' = [stage EXCEPT ![o] = "listed"]
  /\ view' = [view EXCEPT ![o].roster = callPresence]
  /\ UNCHANGED <<stored, desired, presenceMu, first, unannounced, callVars, queue, slow>>

contactSnapshot(o) ==
  /\ o \in Observer /\ stage[o] = "listed"
  /\ stage' = [stage EXCEPT ![o] = "ready"]
  /\ view' = [view EXCEPT ![o].online = effectivePresence]
  /\ UNCHANGED <<stored, desired, presenceMu, first, unannounced, callVars, queue, slow>>

SendReady(o) ==
  /\ o \in Observer /\ stage[o] = "ready"
  /\ stage' = [stage EXCEPT ![o] = "serving"]
  /\ UNCHANGED <<stored, desired, presenceMu, first, unannounced, callVars, readerVars>>

\* The writer, and the browser's handling of user.presence and call.presence.
Write(o) ==
  /\ o \in Observer /\ stage[o] = "serving" /\ queue[o] # <<>>
  /\ LET e == Head(queue[o]) IN
       view' = IF e.kind = "online" THEN [view EXCEPT ![o].online = e.value]
                                    ELSE [view EXCEPT ![o].roster = e.value]
  /\ queue' = [queue EXCEPT ![o] = Tail(@)]
  /\ UNCHANGED <<streamVars, callVars, slow>>

\* The handler ends, by itself or because of its overflow; the browser forgets
\* who is online and connects again.
ObserverExit(o) ==
  /\ o \in Observer /\ stage[o] \in {"ready", "serving"}
  /\ stage' = [stage EXCEPT ![o] = "closed"]
  /\ desired' = WishKept(Users, Watchers \ {o})
  /\ queue' = [queue EXCEPT ![o] = <<>>] /\ slow' = slow \ {o}
  /\ view' = [view EXCEPT ![o].online = FALSE]
  /\ UNCHANGED <<stored, presenceMu, first, unannounced, callVars>>

-----------------------------------------------------------------------------
(* The call (API.websocket): a handler publishes the roster when it has    *)
(* entered the room and when it has left it.                               *)
CallStep(c, step) ==
  /\ call' = [call EXCEPT ![c] = step]
  /\ UNCHANGED streamVars

EnterCall(c) ==
  /\ call[c].stage = "out"
  /\ present' = present \cup {c}
  /\ CallStep(c, [stage |-> "entering", roster |-> Unset])
  /\ UNCHANGED <<readerVars, published>>

\* A replacement or a sweep revokes the connection at once.
LoseCall(c) ==
  /\ c \in present
  /\ present' = present \ {c}
  /\ UNCHANGED <<streamVars, call, published, readerVars>>

LeaveCall(c) ==
  /\ call[c].stage = "in"
  /\ present' = present \ {c}
  /\ CallStep(c, [stage |-> "leaving", roster |-> Unset])
  /\ UNCHANGED <<readerVars, published>>

\* publishCallPresence, under one lock and then under another.
ReadRoster(c) ==
  /\ call[c].stage \in {"entering", "leaving"} /\ call[c].roster = Unset
  /\ CallStep(c, [call[c] EXCEPT !.roster = callPresence])
  /\ UNCHANGED <<readerVars, present, published>>

PublishRoster(c) ==
  /\ call[c].roster # Unset
  /\ Enqueue([kind |-> "roster", value |-> call[c].roster])
  /\ published' = call[c].roster
  /\ CallStep(c, [stage |-> IF call[c].stage = "entering" THEN "in" ELSE "out", roster |-> Unset])
  /\ UNCHANGED present

-----------------------------------------------------------------------------
Observe ==
  \E o \in Observer :
    Load(o) \/ Add(o) \/ ReadRosters(o) \/ contactSnapshot(o) \/ SendReady(o)
    \/ Write(o) \/ ObserverExit(o)
ContactMoves ==
  \/ \E w \in Window :
       Load(w) \/ Add(w) \/ WindowReady(w) \/ Announce(w) \/ ReadyFails(w) \/ Exit(w)
       \/ PublishOffline(w) \/ Revoke(w)
  \/ \E status \in Status : SetPresence(status)
CallMoves ==
  \E c \in Conn :
    EnterCall(c) \/ LoseCall(c) \/ LeaveCall(c) \/ ReadRoster(c) \/ PublishRoster(c)

PresenceNext == Observe \/ ContactMoves \/ CallMoves

PresenceSpec == PresenceInit /\ [][PresenceNext]_presenceVars

-----------------------------------------------------------------------------
(* Once nothing is under way, what a window shows of its contact is so:    *)
(* online when it has a window open and does not hide, and in the call     *)
(* with as many devices as are there.  Two exceptions are the code's: a    *)
(* first window whose app.ready fails is never announced, and of two       *)
(* rosters that overtake each other the older may be published last.       *)
Settled ==
  /\ \A w \in Window : stage[w] \in {"closed", "loaded", "serving"}
  /\ \A c \in Conn : call[c].stage = "out" \/ (call[c].stage = "in" /\ c \in present)
PresenceSettles ==
  Settled =>
    \A o \in Observer \ slow :
      stage[o] = "serving" /\ queue[o] = <<>> =>
        /\ unannounced \/ (view[o].online <=> Users # {} /\ stored # "invisible")
        /\ published # callPresence \/ view[o].roster = callPresence
=============================================================================
