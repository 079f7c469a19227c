--------------------------- MODULE MessageHistory ---------------------------
(***************************************************************************)
(* The history of one conversation as the browser keeps it: the server's   *)
(* log of messages, each with a version that an edit, a reaction or a      *)
(* deletion raises, and features/chat/messageStore.ts, which puts a page   *)
(* read over HTTP, the live events of the account's socket and the answers *)
(* of its own writes together into one list.  Messages are their sequence  *)
(* numbers; what they say, their authors and the reply previews are left   *)
(* out.  At most one request of the conversation is pending at a time, as  *)
(* "pending" in the code allows.                                           *)
(***************************************************************************)
EXTENDS Integers, Sequences, SequencesExt

CONSTANTS
  MaxMessages,     \* bound: messages in the server's log
  MaxVersion,      \* bound: versions of a message
  PageSize,        \* messages in a page of history (50 in the code)
  CatchUpPage,     \* messages in a page of a catch-up (100 in the code)
  MaxWrites,       \* bound: messages written, edited or deleted
  MaxDisruptions,  \* bound: lost sockets and changes of the room list
  MaxFailures      \* bound: requests answered by an error

VARIABLES
  log,          \* the server's messages: log[n] is the version of message n
  writes,
  publishing,   \* writes that are committed and not yet published
  replies,      \* own writes whose HTTP answer is on its way
  connected,    \* the account's event socket
  events,       \* events sent over it and not yet handled
  disruptions,
  subscribed,   \* a mounted view shows the conversation
  opened,       \* the conversation is in the cache
  loaded,       \* its messages: the version held of each, 0 for none
  before,       \* the cursor of the next older page, 0 for none
  loading, loadingOlder, failed,
  pending,      \* the request on its way
  failures

serverVars == <<log, writes, publishing, replies>>
socketVars == <<connected, events, disruptions>>
flags == <<loading, loadingOlder>>
cache == <<opened, loaded, before, flags, failed>>
historyVars == <<serverVars, socketVars, subscribed, cache, pending, failures>>

MessageNumber == 1 .. MaxMessages
Version == 1 .. MaxVersion
Message == [n : MessageNumber, v : Version]
Event == [kind : {"message"}, message : Message] \cup [kind : {"ready", "reset"}]
Held == [MessageNumber -> 0 .. MaxVersion]
Nothing == [n \in MessageNumber |-> 0]
NoRequest == [kind |-> "idle"]
\* A request before and after the server has read its page.
Asked == [kind : {"load", "older", "catchUp"}, cursor : 0 .. MaxMessages, empty : BOOLEAN]
Answered ==
  [kind : {"load", "older", "catchUp"}, cursor : 0 .. MaxMessages, empty : BOOLEAN,
   page : Held, more : BOOLEAN]
Asks(kind, cursor, empty) == [kind |-> kind, cursor |-> cursor, empty |-> empty]
Answer(r, page, more) ==
  [kind |-> r.kind, cursor |-> r.cursor, empty |-> r.empty, page |-> page, more |-> more]

\* What the theorems about this module assume of its constants.
HistoryAssumption ==
  /\ {MaxMessages, MaxWrites, MaxDisruptions, MaxFailures} \subseteq Nat
  /\ {MaxVersion, PageSize, CatchUpPage} \subseteq Nat \ {0}

HistoryTypeOK ==
  /\ log \in Seq(Version) /\ Len(log) <= MaxMessages
  /\ writes \in 0 .. MaxWrites
  /\ publishing \subseteq Message /\ replies \subseteq Message
  /\ connected \in BOOLEAN /\ disruptions \in 0 .. MaxDisruptions
  /\ events \in Seq(Event)
  /\ subscribed \in BOOLEAN /\ opened \in BOOLEAN
  /\ loaded \in Held /\ before \in 0 .. MaxMessages
  /\ loading \in BOOLEAN /\ loadingOlder \in BOOLEAN /\ failed \in BOOLEAN
  /\ pending \in {NoRequest} \cup Asked \cup Answered
  /\ failures \in 0 .. MaxFailures

HistoryInit ==
  /\ log \in BoundedSeq({1}, MaxMessages - 1)
  /\ writes = 0 /\ publishing = {} /\ replies = {}
  /\ connected = TRUE /\ events = <<>> /\ disruptions = 0
  /\ subscribed = FALSE /\ opened = FALSE
  /\ loaded = Nothing /\ before = 0
  /\ loading = FALSE /\ loadingOlder = FALSE /\ failed = FALSE
  /\ pending = NoRequest /\ failures = 0

----------------------------------------------------------------------------
(* The list                                                                *)

Numbers(held) == {n \in MessageNumber : held[n] > 0}
Earliest(held) == CHOOSE n \in Numbers(held) : \A k \in Numbers(held) : n <= k
Latest(held) == CHOOSE n \in Numbers(held) : \A k \in Numbers(held) : n >= k
Greater(i, j) == IF i > j THEN i ELSE j

\* Two copies of a message overlap: the greater version stays.
MergeLastRead(held, page) == [n \in MessageNumber |-> IF page[n] > 0 THEN page[n] ELSE held[n]]
mergeMessages(held, page) == [n \in MessageNumber |-> Greater(held[n], page[n])]

\* A live message joins an opened conversation, unless it is an old one the
\* history has not reached.
receiveMessage(m) ==
  loaded' =
    IF opened /\ (Numbers(loaded) = {} \/ m.n >= Earliest(loaded) \/ loaded[m.n] > 0)
      THEN mergeMessages(loaded, [Nothing EXCEPT ![m.n] = m.v])
      ELSE loaded

----------------------------------------------------------------------------
(* The server                                                              *)

\* A message is written, edited or deleted, by this account or another.
Write(n, own) ==
  LET v == IF n <= Len(log) THEN log[n] + 1 ELSE 1
      m == [n |-> n, v |-> v]
  IN /\ n <= Len(log) + 1 /\ v <= MaxVersion
     /\ writes < MaxWrites
     /\ writes' = writes + 1
     /\ log' = IF n <= Len(log) THEN [log EXCEPT ![n] = v] ELSE Append(log, v)
     /\ publishing' = publishing \cup {m}
     /\ replies' = IF own THEN replies \cup {m} ELSE replies
     /\ UNCHANGED <<socketVars, subscribed, cache, pending, failures>>

\* Concurrent writes are published in either order; without a socket the
\* event is lost.
Publish(m) ==
  /\ m \in publishing
  /\ publishing' = publishing \ {m}
  /\ events' = IF connected THEN Append(events, [kind |-> "message", message |-> m])
               ELSE events
  /\ UNCHANGED <<log, writes, replies, connected, disruptions, subscribed, cache, pending, failures>>

\* The page the pending request reads: the latest messages before its cursor,
\* or, when it catches up, the first ones after it.
Page(r) ==
  LET wanted == IF r.kind = "catchUp" THEN (r.cursor + 1) .. Len(log)
                ELSE IF r.kind = "older" THEN 1 .. (r.cursor - 1) ELSE 1 .. Len(log)
      inPage(n) == IF r.kind = "catchUp"
                     THEN n <= r.cursor + CatchUpPage
                     ELSE \A k \in wanted : k < n + PageSize
      numbers == {n \in wanted : inPage(n)}
  IN Answer(r, [n \in MessageNumber |-> IF n \in numbers THEN log[n] ELSE 0], numbers # wanted)

Read ==
  /\ pending.kind # "idle" /\ "page" \notin DOMAIN pending
  /\ pending' = Page(pending)
  /\ UNCHANGED <<serverVars, socketVars, subscribed, cache, failures>>

----------------------------------------------------------------------------
(* Requests of the page                                                    *)

StartLoad(held) ==
  /\ pending' = Asks("load", 0, Numbers(held) = {})
  /\ loading' = TRUE /\ failed' = FALSE /\ opened' = TRUE

loadConversation ==
  /\ subscribed /\ pending = NoRequest
  /\ StartLoad(loaded)
  /\ UNCHANGED <<serverVars, socketVars, subscribed, loaded, before, loadingOlder, failures>>

loadOlder ==
  /\ subscribed /\ pending = NoRequest
  /\ before # 0 /\ ~loadingOlder
  /\ pending' = Asks("older", before, FALSE)
  /\ loadingOlder' = TRUE /\ failed' = FALSE
  /\ UNCHANGED <<serverVars, socketVars, subscribed, opened, loaded, before, loading, failures>>

\* The cursor moves when the page is an older one, or the first of a history
\* that was empty when it was asked for.
PageLoaded ==
  /\ pending.kind \in {"load", "older"} /\ "page" \in DOMAIN pending
  /\ loaded' = mergeMessages(loaded, pending.page)
  /\ before' = IF pending.kind = "load" /\ ~pending.empty THEN before
               ELSE IF pending.more THEN Earliest(pending.page) ELSE 0
  /\ pending' = NoRequest
  /\ loading' = FALSE /\ loadingOlder' = FALSE
  /\ opened' = TRUE
  /\ UNCHANGED <<serverVars, socketVars, subscribed, failed, failures>>

\* A reconnected conversation reads the range on screen again, and then what
\* came after it, page by page.
CatchUpFromTheEnd(held) == Asks("catchUp", Latest(held), FALSE)
CatchUp(held) == Asks("catchUp", Earliest(held) - 1, FALSE)

catchUpConversation ==
  /\ pending.kind = "catchUp" /\ "page" \in DOMAIN pending
  /\ loaded' = mergeMessages(loaded, pending.page)
  /\ pending' = IF pending.more THEN Asks("catchUp", Latest(pending.page), FALSE) ELSE NoRequest
  /\ UNCHANGED <<serverVars, socketVars, subscribed, opened, before, flags, failed, failures>>

\* The request fails; a catch-up says so and leaves the flags as they are.
RequestFails ==
  /\ pending.kind # "idle" /\ failures < MaxFailures
  /\ failures' = failures + 1
  /\ failed' = TRUE /\ opened' = TRUE
  /\ pending' = NoRequest
  /\ IF pending.kind = "catchUp" THEN UNCHANGED flags
     ELSE loading' = FALSE /\ loadingOlder' = FALSE
  /\ UNCHANGED <<serverVars, socketVars, subscribed, loaded, before>>

\* The account may not read the room any more: everything cached of it goes.
discardRoomAccess ==
  /\ pending.kind # "idle" /\ failures < MaxFailures
  /\ failures' = failures + 1
  /\ failed' = TRUE /\ opened' = TRUE
  /\ loaded' = Nothing /\ before' = 0
  /\ loading' = FALSE /\ loadingOlder' = FALSE
  /\ pending' = NoRequest
  /\ UNCHANGED <<serverVars, socketVars, subscribed>>

\* The answer of an own write is received like an event.
ReplyReceived(m) ==
  /\ m \in replies
  /\ replies' = replies \ {m}
  /\ receiveMessage(m)
  /\ UNCHANGED <<log, writes, publishing, socketVars, subscribed, opened, before, flags, failed,
                 pending, failures>>

----------------------------------------------------------------------------
(* The view                                                                *)

\* A view mounts: it subscribes and loads.
Mount ==
  /\ ~subscribed
  /\ subscribed' = TRUE
  /\ StartLoad(loaded)
  /\ UNCHANGED <<serverVars, socketVars, loaded, before, loadingOlder, failures>>

\* The last view unmounts: what it waits for is aborted, the history stays.
Unmount ==
  /\ subscribed
  /\ subscribed' = FALSE
  /\ pending' = NoRequest
  /\ loading' = FALSE /\ loadingOlder' = FALSE
  /\ UNCHANGED <<serverVars, socketVars, opened, loaded, before, failed, failures>>

Dropped ==
  /\ opened' = FALSE /\ loaded' = Nothing /\ before' = 0
  /\ loading' = FALSE /\ loadingOlder' = FALSE /\ failed' = FALSE

\* A twelfth inactive history pushes this one out of the cache.
Evict ==
  /\ opened /\ ~subscribed
  /\ Dropped /\ pending' = NoRequest
  /\ UNCHANGED <<serverVars, socketVars, subscribed, failures>>

----------------------------------------------------------------------------
(* The account's socket                                                    *)

Disrupt ==
  /\ connected /\ disruptions < MaxDisruptions
  /\ disruptions' = disruptions + 1

SocketLost ==
  /\ Disrupt
  /\ connected' = FALSE /\ events' = <<>>
  /\ UNCHANGED <<serverVars, subscribed, cache, pending, failures>>

RoomsChange ==
  /\ Disrupt
  /\ events' = Append(events, [kind |-> "reset"])
  /\ UNCHANGED <<serverVars, connected, subscribed, cache, pending, failures>>

Reconnect ==
  /\ ~connected
  /\ connected' = TRUE /\ events' = <<[kind |-> "ready"]>>
  /\ UNCHANGED <<serverVars, disruptions, subscribed, cache, pending, failures>>

MessageEvent ==
  /\ events # <<>> /\ Head(events).kind = "message"
  /\ events' = Tail(events)
  /\ receiveMessage(Head(events).message)
  /\ UNCHANGED <<serverVars, connected, disruptions, subscribed, opened, before, flags, failed,
                 pending, failures>>

\* What was pending is aborted.  A history nobody shows is dropped; one that is
\* shown is caught up, or read anew when it is empty or the rooms changed.
reconcileMessaging ==
  /\ events # <<>> /\ Head(events).kind # "message"
  /\ events' = Tail(events)
  /\ \/ /\ ~subscribed
        /\ Dropped /\ pending' = NoRequest
     \/ /\ subscribed /\ (Head(events).kind = "reset" \/ Numbers(loaded) = {})
        /\ StartLoad(Nothing)
        /\ loaded' = Nothing /\ loadingOlder' = FALSE
        /\ before' = IF Head(events).kind = "reset" THEN 0 ELSE before
     \/ /\ subscribed /\ Head(events).kind = "ready" /\ Numbers(loaded) # {}
        /\ pending' = CatchUp(loaded)
        /\ UNCHANGED cache
  /\ UNCHANGED <<serverVars, connected, disruptions, subscribed, failures>>

----------------------------------------------------------------------------
HistoryNext ==
  \/ \E n \in MessageNumber, own \in BOOLEAN : Write(n, own)
  \/ \E m \in publishing : Publish(m)
  \/ \E m \in replies : ReplyReceived(m)
  \/ Read \/ loadConversation \/ loadOlder \/ PageLoaded
  \/ catchUpConversation \/ RequestFails \/ discardRoomAccess
  \/ Mount \/ Unmount \/ Evict
  \/ SocketLost \/ RoomsChange \/ Reconnect \/ MessageEvent \/ reconcileMessaging

HistorySpec == HistoryInit /\ [][HistoryNext]_historyVars

----------------------------------------------------------------------------
(* Properties                                                              *)

\* When the last page of a catch-up is in, every message from the first one on
\* screen to the end of the log is there in its current version, or is still on
\* its way as an event, unless the socket was lost once more, for another
\* catch-up to come: whatever was missed while the socket was gone, left
\* half-read by an earlier request or overtaken by an event
\* (reconcileMessaging, catchUpConversation).
OnItsWay(n) ==
  \/ [n |-> n, v |-> log[n]] \in publishing
  \/ [kind |-> "message", message |-> [n |-> n, v |-> log[n]]] \in ToSet(events)
Again == ~connected \/ [kind |-> "ready"] \in ToSet(events)
CatchUpEnds == pending.kind = "catchUp" /\ "page" \in DOMAIN pending /\ ~pending.more
CatchUpRepairs ==
  [][CatchUpEnds /\ pending' = NoRequest /\ loaded' # Nothing /\ subscribed' /\ failures' = failures =>
       \A n \in MessageNumber : Earliest(loaded') <= n /\ n <= Len(log) =>
         loaded'[n] = log[n] \/ OnItsWay(n) \/ Again]_historyVars

\* A message never goes back to a version older than the one shown, whatever
\* order a page, an event and the answer of a write arrive in (mergeMessages).
NoStaleVersions ==
  [][Numbers(loaded') # {} => \A n \in MessageNumber : loaded'[n] >= loaded[n]]_historyVars
=============================================================================
