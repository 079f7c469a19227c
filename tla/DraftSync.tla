------------------------------ MODULE DraftSync ------------------------------
(***************************************************************************)
(* The text draft of one conversation, kept on several devices of one      *)
(* account (features/personal/draftStore.ts) and on the server             *)
(* (daily_drafts_store.go), which versions it and answers a repeated       *)
(* mutation instead of applying it twice.  A device's record is the        *)
(* DraftEntry, which localStorage keeps across a reload, with the requests *)
(* it has on their way.  Replies, other conversations and the switch that  *)
(* turns synchronisation off are left out.                                 *)
(***************************************************************************)
EXTENDS Integers, FiniteSets

CONSTANTS
  Device, Text,  \* the account's devices; what a draft can say
  Blank, None,   \* the empty text; no value
  MaxEdits,      \* bound: edits and conflicts decided for the own text
  MaxTurns       \* bound: sends, failed requests and reloads

VARIABLES
  draft,     \* the server's row: version 0 when there is none
  dev,       \* the devices
  changed,   \* devices the event personal.drafts.changed is on its way to
  minted,    \* mutation ids drawn so far
  edits, turns

counters == <<edits, turns>>
draftVars == <<draft, dev, changed, minted, counters>>

Body == Text \cup {Blank}
Draft == [version : Nat, body : Body, mutation : Nat]
Mutation == [id : Nat, body : Body, version : Nat]
Stage == {"idle", "sent", "answered", "refused", "waits",
          "loading", "queued", "writing", "posting", "posted"}
Request == [stage : Stage, value : Draft \cup Mutation \cup {None}]
Idle == [stage |-> "idle", value |-> None]
Sent(value) == [stage |-> "sent", value |-> value]
NotSending == [stage |-> "idle", text |-> Blank, clears |-> None]

Sending == [stage : Stage, text : Body, clears : Nat \cup {None}]

\* A DraftEntry, what the device knows of the account (setting, the ready of
\* DraftState: GET /me/draft-sync has been answered; unread, its error: a refresh
\* has failed) and the requests it waits for.
Entry ==
  [body : Body, version : Nat, ready : BOOLEAN, dirty : BOOLEAN, focused : BOOLEAN,
   error : BOOLEAN, setting : BOOLEAN, unread : BOOLEAN, timer : BOOLEAN,
   conflict : Draft \cup {None}, remote : Draft \cup {None}, mutation : Mutation \cup {None},
   read : Request, refresh : Request, write : Request, sending : Sending]

(* What the theorems about this module assume.                             *)
DraftAssumption ==
  /\ None \notin Nat \cup Draft \cup Mutation
  /\ {MaxEdits, MaxTurns} \subseteq Nat

DraftTypeOK ==
  /\ draft \in Draft /\ dev \in [Device -> Entry]
  /\ changed \subseteq Device /\ minted \in Nat
  /\ edits \in 0 .. MaxEdits /\ turns \in 0 .. MaxTurns

\* A session starts: what the device had stored is read, everything else asked.
Started(r) ==
  [r EXCEPT !.ready = FALSE, !.focused = FALSE, !.error = FALSE, !.setting = FALSE,
            !.unread = FALSE, !.timer = FALSE, !.read = Idle, !.write = Idle, !.refresh = Sent(None),
            !.sending = NotSending]

\* Every device has read that there is no draft.
DraftInit ==
  /\ draft = [version |-> 0, body |-> Blank, mutation |-> 0]
  /\ dev = [d \in Device |->
       [body |-> Blank, version |-> 0, ready |-> TRUE, dirty |-> FALSE, focused |-> FALSE,
        error |-> FALSE, setting |-> TRUE, unread |-> FALSE, timer |-> FALSE, conflict |-> None,
        remote |-> draft, mutation |-> None, read |-> Idle, refresh |-> Idle, write |-> Idle,
        sending |-> NotSending]]
  /\ changed = {} /\ minted = 0
  /\ edits = 0 /\ turns = 0

----------------------------------------------------------------------------
(* The entry                                                               *)

schedule(r) ==
  [r EXCEPT !.timer = /\ r.setting /\ r.ready /\ r.dirty /\ ~r.error
                      /\ r.conflict = None /\ r.write = Idle]

Agreed(r, x) ==
  [r EXCEPT !.remote = x, !.version = x.version, !.ready = TRUE, !.dirty = FALSE,
            !.conflict = None, !.mutation = None, !.error = FALSE]
Acknowledged(r, x) ==
  [r EXCEPT !.remote = x, !.version = x.version, !.ready = TRUE,
            !.mutation = None, !.error = FALSE]
AdoptedQuietly(r, x) == [Acknowledged(r, x) EXCEPT !.mutation = r.mutation]
Conflicting(r, x) == [AdoptedQuietly(r, x) EXCEPT !.conflict = x]
Replaced(r, x) == [Agreed(r, x) EXCEPT !.body = x.body]

\* Whether a draft from the server becomes a choice the user has to make.
IsConflict(r, x) ==
  \/ r.dirty \/ r.conflict # None
  \/ r.focused /\ x.body # Blank /\ x.version > r.version

receiveTextDraft(r, x) ==
  LET known == r.ready /\ x.version = r.version /\ r.remote # None /\ r.remote.body = x.body
      own == r.mutation # None /\ r.mutation.id = x.mutation
      import == ~r.ready /\ x.version = 0 /\ r.dirty
  IN IF x.version < r.version THEN r
     ELSE schedule(
       CASE known -> [r EXCEPT !.remote = x, !.error = FALSE]
         [] ~known /\ r.body = x.body -> Agreed(r, x)
         [] ~known /\ r.body # x.body /\ own -> Acknowledged(r, x)
         [] ~known /\ r.body # x.body /\ ~own /\ import -> AdoptedQuietly(r, x)
         [] ~known /\ r.body # x.body /\ ~own /\ ~import /\ IsConflict(r, x) -> Conflicting(r, x)
         [] OTHER -> Replaced(r, x))

loadTextDraft(r) == IF r.read = Idle THEN [r EXCEPT !.read = Sent(None)] ELSE r

\* A write needs a ready, dirty entry; a mutation left by a failed one is
\* repeated before anything newer is written.
MayWrite(r) == r.write = Idle /\ r.ready /\ r.dirty /\ r.conflict = None
NextMutation(r) ==
  IF r.mutation # None THEN r.mutation
  ELSE [id |-> minted + 1, body |-> r.body, version |-> r.version]
write(r) ==
  IF MayWrite(r)
    THEN [r EXCEPT !.mutation = NextMutation(r), !.error = FALSE, !.write = Sent(NextMutation(r))]
    ELSE r

----------------------------------------------------------------------------
(* Sending, as far as the draft goes                                       *)

\* The revision a send clears, decided when everything before it is done.
Submitted(r) ==
  [r EXCEPT !.sending.stage = "posting",
            !.sending.clears =
              IF r.dirty \/ r.conflict # None \/ r.error THEN None ELSE r.version]
WriteSubmitted(r) ==
  IF MayWrite(r) THEN [write(r) EXCEPT !.sending.stage = "writing"] ELSE Submitted(r)

\* The draft has been read: a conflict sends without clearing.
ReadSubmitted(r) ==
  CASE r.conflict # None -> [r EXCEPT !.sending.stage = "posting", !.sending.clears = None]
    [] r.conflict = None /\ r.write # Idle -> [r EXCEPT !.sending.stage = "queued"]
    [] OTHER -> WriteSubmitted(r)

\* What waited for a read, and for a write, goes on.
AfterWrite(r) ==
  CASE r.sending.stage = "queued" -> WriteSubmitted(r)
    [] r.sending.stage = "writing" -> Submitted(r)
    [] OTHER -> r
ForgottenWrite(r) == AfterWrite([r EXCEPT !.write = Idle])
WriteEnds(r) == AfterWrite(schedule([r EXCEPT !.write = Idle]))
AfterRead(r) ==
  LET refreshed == IF r.refresh.stage = "waits" THEN [r EXCEPT !.refresh = Idle] ELSE r
      written == IF r.write.stage = "waits" THEN WriteEnds(refreshed) ELSE refreshed
  IN IF r.sending.stage = "loading" THEN ReadSubmitted(written) ELSE written

----------------------------------------------------------------------------
(* Steps                                                                   *)

\* A device takes a step to r; it may have drawn a mutation id on the way.
Becomes(d, r) ==
  /\ dev' = [dev EXCEPT ![d] = r]
  /\ minted' = IF r.mutation # None /\ r.mutation.id > minted THEN minted + 1 ELSE minted

Edited == edits < MaxEdits /\ edits' = edits + 1
Turn == turns < MaxTurns /\ turns' = turns + 1

editTextDraft(d, t) ==
  LET r == dev[d] IN
  /\ r.sending = NotSending /\ t # r.body /\ Edited
  /\ Becomes(d, schedule([r EXCEPT !.body = t, !.dirty = TRUE, !.error = FALSE, !.focused = TRUE]))
  /\ UNCHANGED <<draft, changed, turns>>

BlurDraft(d) ==
  /\ dev[d].focused
  /\ Becomes(d, [dev[d] EXCEPT !.focused = FALSE])
  /\ UNCHANGED <<draft, changed, counters>>

KeepThisDevice(d) ==
  /\ dev[d].conflict # None /\ Edited
  /\ Becomes(d, schedule([dev[d] EXCEPT !.dirty = TRUE, !.conflict = None, !.mutation = None,
                                        !.error = FALSE]))
  /\ UNCHANGED <<draft, changed, turns>>

UseOtherDraft(d) ==
  /\ dev[d].conflict # None
  /\ Becomes(d, schedule([dev[d] EXCEPT !.body = dev[d].conflict.body, !.dirty = FALSE,
                                        !.conflict = None, !.mutation = None, !.error = FALSE]))
  /\ UNCHANGED <<draft, changed, counters>>

TimerFires(d) ==
  /\ dev[d].timer
  /\ Becomes(d, write([dev[d] EXCEPT !.timer = FALSE]))
  /\ UNCHANGED <<draft, changed, counters>>

\* The user sends what the composer shows.
submittedDraft(d) ==
  LET r == dev[d] IN
  /\ r.sending = NotSending /\ r.body # Blank /\ Turn
  /\ Becomes(d, loadTextDraft([r EXCEPT
       !.timer = FALSE, !.sending = [stage |-> "loading", text |-> r.body, clears |-> None]]))
  /\ UNCHANGED <<draft, changed, edits>>

\* A thread that comes up reads its draft, whatever the session knows so far.
\* (That it does so again later adds nothing to what a refresh does.)
ThreadMounts(d) ==
  /\ ~dev[d].ready /\ dev[d].read = Idle
  /\ Becomes(d, loadTextDraft(dev[d]))
  /\ UNCHANGED <<draft, changed, counters>>

\* An event, or a device that is back online after a failure, reads every
\* draft again, unless it is already doing so.
StartRefresh(r) == IF r.refresh = Idle THEN [r EXCEPT !.refresh = Sent(None)] ELSE r
DraftsChanged(d) ==
  /\ d \in changed
  /\ changed' = changed \ {d}
  /\ Becomes(d, StartRefresh(dev[d]))
  /\ UNCHANGED <<draft, counters>>
Online(d) ==
  /\ dev[d].error \/ dev[d].unread
  /\ dev[d].refresh = Idle
  /\ Becomes(d, StartRefresh(dev[d]))
  /\ UNCHANGED <<draft, changed, counters>>

----------------------------------------------------------------------------
(* Requests reach the server                                               *)

ServeRead(d) ==
  /\ dev[d].read.stage = "sent"
  /\ Becomes(d, [dev[d] EXCEPT !.read = [stage |-> "answered", value |-> draft]])
  /\ UNCHANGED <<draft, changed, counters>>

\* A refresh asks for the setting first; no timer starts before the answer, and
\* none with it.
SettingAnswered(d) ==
  /\ dev[d].refresh.stage = "sent" /\ ~dev[d].setting
  /\ Becomes(d, [dev[d] EXCEPT !.setting = TRUE, !.unread = FALSE])
  /\ UNCHANGED <<draft, changed, counters>>

\* The list has no entry for a draft that was never written.
ServeRefresh(d) ==
  /\ dev[d].refresh.stage = "sent" /\ dev[d].setting
  /\ Becomes(d, [dev[d] EXCEPT !.refresh =
       [stage |-> "answered", value |-> IF draft.version > 0 THEN draft ELSE None]])
  /\ UNCHANGED <<draft, changed, counters>>

\* A repeated mutation is answered, any other has to name the current version.
RefusedAhead(m) == draft.mutation # m.id /\ draft.version < m.version
Refused(m) == draft.mutation # m.id /\ draft.version # m.version
PutTextDraft(d) ==
  LET m == dev[d].write.value
      next == [version |-> draft.version + 1, body |-> m.body, mutation |-> m.id]
  IN /\ dev[d].write.stage = "sent"
     /\ IF Refused(m)
          THEN /\ Becomes(d, [dev[d] EXCEPT !.write = [stage |-> "refused", value |-> None]])
               /\ UNCHANGED <<draft, changed>>
          ELSE /\ draft' = IF draft.mutation = m.id THEN draft ELSE next
               /\ Becomes(d, [dev[d] EXCEPT !.write = [stage |-> "answered", value |-> draft']])
               /\ changed' = Device
     /\ UNCHANGED counters

\* The message is committed, and with it the revision it was sent from becomes
\* an empty one.
clearSubmittedDraft(d) ==
  LET s == dev[d].sending
      clears == s.clears # None /\ s.clears = draft.version
      cleared == [version |-> draft.version + 1, body |-> Blank, mutation |-> minted + 1]
  IN /\ s.stage = "posting"
     /\ draft' = IF clears THEN cleared ELSE draft
     /\ minted' = IF clears THEN minted + 1 ELSE minted
     /\ changed' = IF s.clears # None THEN Device ELSE changed
     /\ dev' = [dev EXCEPT ![d].sending.stage = "posted"]
     /\ UNCHANGED counters

----------------------------------------------------------------------------
(* Answers reach the device                                                *)

ReadAnswered(d) ==
  LET r == [dev[d] EXCEPT !.read = Idle] IN
  /\ dev[d].read.stage = "answered"
  /\ Becomes(d, AfterRead(receiveTextDraft(r, dev[d].read.value)))
  /\ UNCHANGED <<draft, changed, counters>>

RefreshAnswered(d) ==
  LET x == dev[d].refresh.value
      read == [dev[d] EXCEPT !.unread = FALSE]
      r == IF x = None THEN read ELSE receiveTextDraft(read, x)
      again == ~r.ready \/ r.dirty \/ r.conflict # None \/ r.error
  IN /\ dev[d].refresh.stage = "answered"
     /\ Becomes(d, IF again
          THEN loadTextDraft([r EXCEPT !.refresh = [stage |-> "waits", value |-> None]])
          ELSE [r EXCEPT !.refresh = Idle])
     /\ UNCHANGED <<draft, changed, counters>>

WriteAnswered(d) ==
  /\ dev[d].write.stage = "answered"
  /\ Becomes(d, WriteEnds(receiveTextDraft(dev[d], dev[d].write.value)))
  /\ UNCHANGED <<draft, changed, counters>>

\* The version was not the server's: the draft is read before anything else.
WriteRefused(d) ==
  /\ dev[d].write.stage = "refused"
  /\ Becomes(d, loadTextDraft([dev[d] EXCEPT !.mutation = None, !.write.stage = "waits"]))
  /\ UNCHANGED <<draft, changed, counters>>

sentTextDraft(d) ==
  LET r == [dev[d] EXCEPT !.sending = NotSending]
      s == dev[d].sending
      keep == \/ r.body # s.text \/ r.conflict # None
              \/ s.clears # None /\ r.version > s.clears
  IN /\ s.stage = "posted"
     /\ Becomes(d, IF keep THEN r ELSE
          loadTextDraft([r EXCEPT !.body = Blank, !.dirty = FALSE, !.mutation = None,
                                  !.focused = FALSE]))
     /\ UNCHANGED <<draft, changed, counters>>

\* A request fails, before or after the server has seen it.
Fail ==
  /\ Turn
  /\ UNCHANGED <<draft, changed, edits>>
ReadFails(d) ==
  /\ dev[d].read.stage \in {"sent", "answered"} /\ Fail
  /\ Becomes(d, AfterRead([dev[d] EXCEPT !.read = Idle, !.error = TRUE]))
RefreshFails(d) ==
  /\ dev[d].refresh.stage \in {"sent", "answered"} /\ Fail
  /\ Becomes(d, [dev[d] EXCEPT !.refresh = Idle, !.unread = TRUE])
WriteFails(d) ==
  /\ dev[d].write.stage \in {"sent", "answered"} /\ Fail
  /\ Becomes(d, WriteEnds([dev[d] EXCEPT !.error = TRUE]))

\* The page is reloaded: requests are gone, what was put is in localStorage.
startDraftSession(d) ==
  /\ Turn
  /\ Becomes(d, Started(dev[d]))
  /\ UNCHANGED <<draft, changed, edits>>

Step(d) ==
  \/ \E t \in Body : editTextDraft(d, t)
  \/ BlurDraft(d) \/ KeepThisDevice(d) \/ UseOtherDraft(d) \/ TimerFires(d)
  \/ submittedDraft(d) \/ ThreadMounts(d) \/ DraftsChanged(d) \/ Online(d)
  \/ SettingAnswered(d) \/ ServeRead(d) \/ ServeRefresh(d) \/ PutTextDraft(d) \/ clearSubmittedDraft(d)
  \/ ReadAnswered(d) \/ RefreshAnswered(d) \/ WriteAnswered(d) \/ WriteRefused(d)
  \/ sentTextDraft(d) \/ ReadFails(d) \/ RefreshFails(d) \/ WriteFails(d)
  \/ startDraftSession(d)

DraftNext == \E d \in Device : Step(d)

DraftSpec == DraftInit /\ [][DraftNext]_draftVars

----------------------------------------------------------------------------
(* Properties                                                              *)

\* A device's write replaces another device's text only when that text, or a
\* newer one, has been shown on it: adopted, or offered as a conflict
\* (receiveTextDraft, the 409 of write).
ShownBeforeReplaced ==
  [][\A d \in Device :
       draft'.version > draft.version /\ dev[d].write.stage = "sent" /\ draft.body # Blank
         /\ draft'.mutation = dev[d].write.value.id
       => dev[d].remote # None /\ dev[d].remote.version >= draft.version]_draftVars

\* Once the device has read the server's draft, text that is not there is never
\* forgotten: a timer, a write or a message carries it on, a refresh is about to
\* read its draft again, or an error or a conflict is shown to the user
\* (schedule, the finally of write and refreshDrafts).
DirtyIsPending ==
  \A d \in Device : LET r == dev[d] IN
    r.ready /\ r.dirty /\ r.conflict = None /\ ~r.error /\ ~r.unread =>
      r.timer \/ r.write # Idle \/ r.sending # NotSending \/ r.refresh # Idle

\* A send clears the revision it sends, never a newer text.
SendClearsWhatItSent ==
  [][\A d \in Device :
       draft' # draft /\ dev[d].sending.stage = "posting" /\ dev'[d].sending.stage = "posted"
         => draft.body = dev[d].sending.text]_draftVars
=============================================================================
