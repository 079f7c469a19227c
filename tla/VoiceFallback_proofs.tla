------------------------ MODULE VoiceFallback_proofs ------------------------
(***************************************************************************)
(* The voice fallback, for any number of changes of the connection, of     *)
(* losses, of late timers and of attempts: its types, that a key serves    *)
(* one session, which keys the two ends of an epoch that is heard hold,    *)
(* and that an end stops the fallback only when both have seen a stable    *)
(* direct path.                                                            *)
(*                                                                         *)
(* The argument is about what an await may find when it resumes.  A task   *)
(* whose generation is still the relay's has found everything its handler  *)
(* left: that is Turns.  An epoch is the initiator's, made anew for every  *)
(* offer, so whatever carries it carries the one key of that offer: that   *)
(* is Epochs. The responder may answer one offer twice, when its socket    *)
(* goes in between: what the initiator holds is one of its answers         *)
(* (Answers).                                                              *)
(***************************************************************************)
EXTENDS VoiceFallback, FiniteSetTheorems, TLAPS

(* What is in a queue.                                                     *)
In(queue) == {queue[i] : i \in DOMAIN queue}

(* The epochs, keys and nonces an end has made.                            *)
Made(p) == {<<p, n>> : n \in 1 .. fresh[p]}

(* Where an epoch or a key comes from: epochs are the initiator's, keys    *)
(* their own end's, and what is offered or answered has a key.             *)
Sources ==
  /\ \A p \in End :
       /\ relay[p].epoch \in Made(Initiator) \cup {Nil}
       /\ relay[p].key \in Made(p) \cup {Nil}
       /\ In(keyed[p]) \subseteq Made(p)
       /\ \A s \in In(signals[p]) :
            /\ s.kind = "offer" => s.tag \in Made(Initiator) /\ s.key # Nil
            /\ s.kind = "answer" => s.key # Nil
       /\ \A t \in tasks[p] :
            /\ t.kind \in {"offer", "answer"} => t.tag \in Made(Initiator)
            /\ t.kind \in {"answer", "session"} => t.key # Nil
  /\ \A t \in tasks[Initiator] : t.kind # "answer"
  /\ \A t \in tasks[Responder] : t.kind \notin {"offer", "session"}

(* An epoch no signal has carried yet.                                     *)
Unsent(epoch) ==
  /\ relay[Responder].epoch # epoch
  /\ \A s \in In(signals[Responder]) : s.kind = "offer" => s.tag # epoch
  /\ \A t \in tasks[Responder] : t.kind = "answer" => t.tag # epoch

(* What a continuation finds when the relay's generation is its own.       *)
Turn(p, t) ==
  /\ t.kind = "offer" =>
       /\ t.tag = relay[p].epoch /\ relay[p].phase = "offering"
       /\ relay[p].key = Nil /\ relay[p].crypto = Nil
       /\ Unsent(t.tag)
  /\ t.kind = "answer" =>
       t.tag = relay[p].epoch /\ relay[p].phase = "answering" /\ relay[p].crypto = Nil
  /\ t.kind = "session" => relay[p].key # Nil
  /\ t.kind = "activate" =>
       relay[p].key # Nil /\ relay[p].crypto # Nil /\ relay[p].epoch # Nil

Opens(t) == t.kind \in {"offer", "answer"}

Turns ==
  \A p \in End : \A t \in tasks[p] :
    /\ t.generation <= relay[p].generation
    /\ t.generation = relay[p].generation => Turn(p, t)
    /\ \A s \in tasks[p] :
         Opens(s) /\ Opens(t) /\ s.generation = t.generation => s = t

(* A relay that is active has all of a session, and only such a one is     *)
(* heard.                                                                  *)
Up ==
  \A p \in End :
    LET r == relay[p]
    IN /\ r.phase = "active" => r.key # Nil /\ r.crypto # Nil /\ r.epoch # Nil
       /\ r.phase = "offering" => r.epoch # Nil
       /\ r.exposed => r.phase = "active"

(* Whatever carries the initiator's epoch carries its key; and once the    *)
(* responder has heard it, the initiator has its session.                  *)
Epochs ==
  LET i == relay[Initiator]  r == relay[Responder]
  IN /\ i.key # Nil =>
          /\ \A s \in In(signals[Responder]) :
               s.kind = "offer" /\ s.tag = i.epoch => s.key = i.key
          /\ \A t \in tasks[Responder] :
               t.kind = "answer" /\ t.tag = i.epoch => t.key = i.key
     /\ r.exposed /\ r.epoch = i.epoch => i.crypto # Nil \/ i.phase # "offering"

(* The key of an offer without a session has encrypted nothing.            *)
Unused ==
  LET i == relay[Initiator]
  IN i.phase = "offering" /\ i.crypto = Nil /\ i.key # Nil => i.key \notin In(keyed[Initiator])

(* While an end hears the other, the other's session in the same epoch is  *)
(* derived from this end's key.                                            *)
Agree ==
  \A p \in End :
    relay[p].exposed /\ relay[Other(p)].crypto # Nil /\ relay[p].epoch = relay[Other(p)].epoch =>
      relay[Other(p)].crypto = relay[p].key

(* What the responder has answered: with a session of its own in the epoch *)
(* of the initiator's key, under the last of its keys; and what the        *)
(* initiator hears came under one of them.                                 *)
Answers ==
  LET i == relay[Initiator]  r == relay[Responder]  answers == keyed[Responder]
  IN /\ i.key # Nil /\ r.crypto # Nil /\ r.epoch = i.epoch => r.crypto = i.key
     /\ r.crypto # Nil => answers # <<>> /\ r.key = answers[Len(answers)]
     /\ i.exposed => i.crypto \in In(answers)
     /\ i.crypto # Nil => i.key # Nil

(* A path is called stable while the connection is up, and an answer to a  *)
(* probe was sent by an end that was ready.                                *)
Paths ==
  \A p \in End :
    /\ stableTimer[p] \/ directReady[p] => connected[p]
    /\ \A s \in In(signals[p]) : s.kind = "direct-ready" => s.tag \in acknowledged

-----------------------------------------------------------------------------
(* The two ends, each the other's.                                         *)
LEMMA Ends ==
  ASSUME VoiceAssumption
  PROVE  /\ Initiator \in End /\ Responder \in End /\ Initiator # Responder
         /\ \A p \in End : Other(p) \in End /\ Other(p) # p /\ Other(Other(p)) = p
BY DEF VoiceAssumption, End, Other

(* Every entry the handlers make is one.                                   *)
LEMMA EntryTyped ==
  ASSUME VoiceAssumption, VoiceTypeOK, NEW r \in Entry
  PROVE  /\ ResetMedia(r) \in Entry /\ Removed(r) \in Entry /\ Wanted(r) \in Entry
         /\ StartOffer(r) \in Entry
         /\ \A p \in End : New(p) \in Id
<1>1. \A p \in End : New(p) \in Id
  BY DEF VoiceTypeOK, New, Id
<1>2. ResetMedia(r) \in Entry /\ Wanted(r) \in Entry
  BY DEF ResetMedia, Wanted, Entry, Phase, Id
<1>3. Removed(r) \in Entry
  <2>1. r.generation + 1 \in Nat /\ 0 \in 0 .. MaxTries
    BY DEF Entry, VoiceAssumption
  <2>2. Absent \in Entry
    BY <2>1 DEF Absent, Entry, Phase, Id
  <2> QED
    BY <2>1, <2>2 DEF Removed, Entry
<1>4. StartOffer(r) \in Entry
  <2>1. r.generation + 1 \in Nat /\ "offering" \in Phase /\ New(Initiator) \in Id
    BY <1>1, Ends DEF Entry, Phase
  <2> QED
    BY <1>2, <2>1 DEF StartOffer, Entry
<1> QED
  BY <1>1, <1>2, <1>3, <1>4

(* Queues stay queues of signals.                                          *)
LEMMA QueuesTyped ==
  ASSUME NEW queues \in [End -> Seq(SignalSet)], NEW p \in End, VoiceAssumption
  PROVE  /\ \A s \in SignalSet : Send(queues, p, s) \in [End -> Seq(SignalSet)]
         /\ queues[p] # <<>> =>
              /\ Head(queues[p]) \in SignalSet
              /\ [queues EXCEPT ![p] = Tail(@)] \in [End -> Seq(SignalSet)]
              /\ [queues EXCEPT ![p] = Append(@, Head(@))] \in [End -> Seq(SignalSet)]
<1>1. Other(p) \in End
  BY Ends
<1>2. \A q \in End : queues[q] \in Seq(SignalSet)
  OBVIOUS
<1>3. \A s \in SignalSet : Append(queues[Other(p)], s) \in Seq(SignalSet)
  BY <1>1, <1>2
<1>4. queues[p] # <<>> =>
        /\ Head(queues[p]) \in SignalSet /\ Tail(queues[p]) \in Seq(SignalSet)
        /\ Append(queues[p], Head(queues[p])) \in Seq(SignalSet)
  BY <1>2
<1> QED
  BY <1>1, <1>3, <1>4 DEF Send

(* A signal without a key is a signal.                                     *)
LEMMA SignalTyped ==
  ASSUME NEW kind \in SignalKind, NEW tag \in Id, NEW key \in Id
  PROVE  Signal(kind, tag, key) \in SignalSet
BY DEF Signal, SignalSet

(* What a handler's task is.                                               *)
LEMMA TaskTyped ==
  ASSUME NEW kind \in TaskKind, NEW r \in Entry, NEW tag \in Id, NEW key \in Id
  PROVE  Task(kind, r, tag, key) \in TaskSet
BY DEF Task, TaskSet, Entry

(* One task more, or one less.                                             *)
LEMMA TasksTyped ==
  ASSUME VoiceTypeOK, NEW p \in End, NEW t, NEW s \in TaskSet
  PROVE  /\ tasks[p] \cup {s} \in SUBSET TaskSet /\ IsFiniteSet(tasks[p] \cup {s})
         /\ tasks[p] \ {t} \in SUBSET TaskSet /\ IsFiniteSet(tasks[p] \ {t})
         /\ (tasks[p] \ {t}) \cup {s} \in SUBSET TaskSet
         /\ IsFiniteSet((tasks[p] \ {t}) \cup {s})
<1>1. tasks[p] \in SUBSET TaskSet /\ IsFiniteSet(tasks[p])
  BY DEF VoiceTypeOK
<1>2. IsFiniteSet(tasks[p] \ {t})
  BY <1>1, FS_RemoveElement
<1>3. IsFiniteSet(tasks[p] \cup {s}) /\ IsFiniteSet((tasks[p] \ {t}) \cup {s})
  BY <1>1, <1>2, FS_AddElement
<1> QED
  BY <1>1, <1>2, <1>3

(* Tasks of one end replaced by a finite set of tasks.                     *)
LEMMA TasksSet ==
  ASSUME VoiceTypeOK, NEW p \in End, NEW T \in SUBSET TaskSet, IsFiniteSet(T),
         tasks' = [tasks EXCEPT ![p] = T]
  PROVE  tasks' \in [End -> SUBSET TaskSet] /\ \A q \in End : IsFiniteSet(tasks'[q])
BY DEF VoiceTypeOK

(* The handshake of either end.                                            *)
LEMMA HandshakeTyped ==
  ASSUME VoiceAssumption, VoiceTypeOK, NEW p \in End, NEW r \in Entry,
         NEW queues \in [End -> Seq(SignalSet)], Handshake(p, r, queues)
  PROVE  /\ relay' \in [End -> Entry] /\ signals' \in [End -> Seq(SignalSet)]
         /\ fresh' \in [End -> Nat]
         /\ tasks' \in [End -> SUBSET TaskSet] /\ \A q \in End : IsFiniteSet(tasks'[q])
<1>1. CASE p = Initiator
  <2>1. StartOffer(r) \in Entry
    BY EntryTyped
  <2> DEFINE t == Task("offer", StartOffer(r), StartOffer(r).epoch, Nil)
  <2>2. t \in TaskSet
    <3>1. StartOffer(r).epoch \in Id /\ Nil \in Id /\ "offer" \in TaskKind
      BY <2>1 DEF Entry, Id, TaskKind
    <3> QED
      BY <2>1, <3>1, TaskTyped
  <2>3. /\ relay' = [relay EXCEPT ![p] = StartOffer(r)]
        /\ tasks' = [tasks EXCEPT ![p] = tasks[p] \cup {t}]
        /\ fresh' = [fresh EXCEPT ![p] = fresh[p] + 1] /\ signals' = queues
    BY <1>1 DEF Handshake, Make, VoiceTypeOK
  <2> HIDE DEF t
  <2>4. tasks' \in [End -> SUBSET TaskSet] /\ \A q \in End : IsFiniteSet(tasks'[q])
    BY <2>2, <2>3, TasksTyped, TasksSet
  <2>5. relay' \in [End -> Entry] /\ fresh' \in [End -> Nat]
    BY <2>1, <2>3 DEF VoiceTypeOK
  <2> QED
    BY <2>3, <2>4, <2>5
<1>2. CASE p # Initiator
  <2>1. [r EXCEPT !.armed = TRUE] \in Entry
    BY DEF Entry
  <2>2. Signal("ready", Nil, Nil) \in SignalSet
    BY SignalTyped DEF SignalKind, Id
  <2>3. Send(queues, p, Signal("ready", Nil, Nil)) \in [End -> Seq(SignalSet)]
    BY <2>2, QueuesTyped
  <2> QED
    BY <1>2, <2>1, <2>3 DEF Handshake, VoiceTypeOK
<1> QED
  BY <1>1, <1>2

(* A signal taken is a signal.                                             *)
LEMMA TakenTyped ==
  ASSUME VoiceAssumption, VoiceTypeOK, NEW p \in End, NEW kind, Takes(p, kind)
  PROVE  /\ Head(signals[p]) \in SignalSet /\ signals[p] # <<>>
         /\ Received(p) \in [End -> Seq(SignalSet)]
BY QueuesTyped DEF Takes, Received, VoiceTypeOK

-----------------------------------------------------------------------------
(* The initial state has its types.                                        *)
LEMMA TypeInit ==
  ASSUME VoiceAssumption, VoiceInit
  PROVE  VoiceTypeOK
<1>1. Absent \in Entry
  BY DEF Absent, Entry, Phase, Id, VoiceAssumption
<1>2. IsFiniteSet({})
  BY FS_EmptySet
<1> QED
  BY <1>1, <1>2 DEF VoiceInit, VoiceTypeOK, Id, VoiceAssumption

(* What an end receives keeps the types.                                   *)
LEMMA ReceiveTyped ==
  ASSUME VoiceAssumption, VoiceTypeOK, NEW p \in End, Receive(p)
  PROVE  VoiceTypeOK'
<1> DEFINE s == Head(signals[p])
<1>0. /\ s \in SignalSet /\ Received(p) \in [End -> Seq(SignalSet)]
      /\ s.tag \in Id /\ s.key \in Id
  <2>1. signals[p] # <<>>
    BY DEF Receive, StopReceived, ReadyReceived, OfferReceived, AnswerReceived, ProbeReceived,
           DirectReadyReceived, UnreadyReceived, Takes
  <2> QED
    BY <2>1, QueuesTyped DEF Received, VoiceTypeOK, SignalSet
<1>00. relay[p] \in Entry /\ Removed(relay[p]) \in Entry /\ Wanted(relay[p]) \in Entry
  BY EntryTyped DEF VoiceTypeOK
<1> HIDE DEF s
<1>1. CASE StopReceived(p)
  BY <1>0, <1>00, <1>1 DEF StopReceived, routeVars, VoiceTypeOK
<1>2. CASE ReadyReceived(p)
  <2>1. Handshake(p, Wanted(relay[p]), Received(p))
    BY <1>2 DEF ReadyReceived
  <2>2. /\ relay' \in [End -> Entry] /\ signals' \in [End -> Seq(SignalSet)]
        /\ fresh' \in [End -> Nat]
        /\ tasks' \in [End -> SUBSET TaskSet] /\ \A q \in End : IsFiniteSet(tasks'[q])
    BY <1>0, <1>00, <2>1, HandshakeTyped
  <2> QED
    BY <1>2, <2>2 DEF ReadyReceived, routeVars, VoiceTypeOK
<1>3. CASE OfferReceived(p)
  <2> DEFINE r == Wanted(relay[p])
             answering == [ResetMedia(r) EXCEPT !.generation = r.generation + 1,
                                                !.phase = "answering", !.epoch = s.tag]
             t == Task("answer", answering, s.tag, s.key)
  <2>1. answering \in Entry
    <3>1. /\ r.generation + 1 \in Nat /\ "answering" \in Phase /\ ResetMedia(r) \in Entry
      BY <1>00, EntryTyped DEF Entry, Phase
    <3> QED
      BY <1>0, <3>1 DEF Entry
  <2> HIDE DEF answering
  <2>2. t \in TaskSet
    BY <1>0, <2>1, TaskTyped DEF TaskKind
  <2> HIDE DEF t
  <2>3. \/ UNCHANGED <<relay, tasks>>
        \/ /\ relay' = [relay EXCEPT ![p] = answering]
           /\ tasks' = [tasks EXCEPT ![p] = tasks[p] \cup {t}]
    BY <1>3 DEF OfferReceived, answering, t, s, VoiceTypeOK
  <2>4. relay' \in [End -> Entry]
    BY <2>1, <2>3 DEF VoiceTypeOK
  <2>5. tasks' \in [End -> SUBSET TaskSet] /\ \A q \in End : IsFiniteSet(tasks'[q])
    BY <2>2, <2>3, TasksTyped, TasksSet DEF VoiceTypeOK
  <2> QED
    BY <1>0, <1>3, <2>4, <2>5 DEF OfferReceived, routeVars, VoiceTypeOK
<1>4. CASE AnswerReceived(p)
  <2> DEFINE r == Wanted(relay[p])
             t == [Task("session", r, s.tag, s.key) EXCEPT !.copy = Cardinality(tasks[p])]
  <2>1. t \in TaskSet
    <3>1. Task("session", r, s.tag, s.key) \in TaskSet
      BY <1>0, <1>00, TaskTyped DEF TaskKind
    <3>2. Cardinality(tasks[p]) \in Nat
      BY FS_CardinalityType DEF VoiceTypeOK
    <3> QED
      BY <3>1, <3>2 DEF TaskSet
  <2> HIDE DEF t
  <2>2. \/ tasks' = tasks
        \/ tasks' = [tasks EXCEPT ![p] = tasks[p] \cup {t}]
    BY <1>4 DEF AnswerReceived, t, s, VoiceTypeOK
  <2>3. tasks' \in [End -> SUBSET TaskSet] /\ \A q \in End : IsFiniteSet(tasks'[q])
    BY <2>1, <2>2, TasksTyped, TasksSet DEF VoiceTypeOK
  <2> QED
    BY <1>0, <1>00, <1>4, <2>3 DEF AnswerReceived, routeVars, VoiceTypeOK
<1>5. CASE ProbeReceived(p)
  <2>1. Signal("direct-ready", s.tag, Nil) \in SignalSet
    BY <1>0, SignalTyped DEF SignalKind, Id
  <2>2. Send(Received(p), p, Signal("direct-ready", s.tag, Nil)) \in [End -> Seq(SignalSet)]
    BY <1>0, <2>1, QueuesTyped
  <2> QED
    BY <1>0, <1>5, <2>2 DEF ProbeReceived, routeVars, VoiceTypeOK, s
<1>6. CASE DirectReadyReceived(p)
  <2>1. relay[p].epoch \in Id
    BY <1>00 DEF Entry
  <2>2. Signal("stop", relay[p].epoch, Nil) \in SignalSet
    BY <2>1, SignalTyped DEF SignalKind, Id
  <2>3. Send(Received(p), p, Signal("stop", relay[p].epoch, Nil)) \in [End -> Seq(SignalSet)]
    BY <1>0, <2>2, QueuesTyped
  <2>4. signals' \in [End -> Seq(SignalSet)] /\ relay' \in [End -> Entry]
    BY <1>0, <1>00, <1>6, <2>3 DEF DirectReadyReceived, VoiceTypeOK
  <2>5. relayTimer' \in [End -> BOOLEAN] /\ directProbe' \in [End -> Id]
    BY <1>6 DEF DirectReadyReceived, VoiceTypeOK, Id
  <2> QED
    BY <1>6, <2>4, <2>5 DEF DirectReadyReceived, VoiceTypeOK
<1>7. CASE UnreadyReceived(p)
  <2>1. signals' \in [End -> Seq(SignalSet)] /\ relayTimer' \in [End -> BOOLEAN]
    BY <1>0, <1>7 DEF UnreadyReceived, VoiceTypeOK
  <2>2. directProbe' \in [End -> Id]
    BY <1>7 DEF UnreadyReceived, VoiceTypeOK, Id
  <2> QED
    BY <1>7, <2>1, <2>2 DEF UnreadyReceived, VoiceTypeOK
<1> QED
  BY <1>1, <1>2, <1>3, <1>4, <1>5, <1>6, <1>7 DEF Receive

(* So do the continuations.                                                *)
LEMMA ContinueTyped ==
  ASSUME VoiceAssumption, VoiceTypeOK, NEW p \in End, NEW t \in tasks[p], Continue(p, t)
  PROVE  VoiceTypeOK'
<1>0. t \in TaskSet /\ t.tag \in Id /\ t.key \in Id /\ relay[p] \in Entry
  BY DEF VoiceTypeOK, TaskSet
<1>1. /\ tasks[p] \ {t} \in SUBSET TaskSet /\ IsFiniteSet(tasks[p] \ {t})
      /\ (tasks[p] \ {t}) \cup {[t EXCEPT !.kind = "activate"]} \in SUBSET TaskSet
      /\ IsFiniteSet((tasks[p] \ {t}) \cup {[t EXCEPT !.kind = "activate"]})
  <2> DEFINE u == [t EXCEPT !.kind = "activate"]
  <2>1. u \in TaskSet
    BY <1>0 DEF TaskSet, TaskKind
  <2> HIDE DEF u
  <2>2. /\ tasks[p] \ {t} \in SUBSET TaskSet /\ IsFiniteSet(tasks[p] \ {t})
        /\ (tasks[p] \ {t}) \cup {u} \in SUBSET TaskSet
        /\ IsFiniteSet((tasks[p] \ {t}) \cup {u})
    BY <2>1, TasksTyped
  <2> QED
    BY <2>2 DEF u
<1>2. /\ tasks' \in [End -> SUBSET TaskSet] /\ \A q \in End : IsFiniteSet(tasks'[q])
  <2>1. \/ tasks' = [tasks EXCEPT ![p] = tasks[p] \ {t}]
        \/ tasks' = [tasks EXCEPT ![p] = (tasks[p] \ {t}) \cup {[t EXCEPT !.kind = "activate"]}]
    BY DEF Continue, OfferMade, AnswerMade, SessionMade, Activated, VoiceTypeOK
  <2> QED
    BY <1>1, <2>1, TasksSet
<1>3. New(p) \in Id
  BY <1>0, EntryTyped
<1>4. /\ Signal("offer", t.tag, New(p)) \in SignalSet
      /\ Signal("answer", t.tag, New(p)) \in SignalSet
  BY <1>0, <1>3, SignalTyped DEF SignalKind
<1>5. /\ Send(signals, p, Signal("offer", t.tag, New(p))) \in [End -> Seq(SignalSet)]
      /\ Send(signals, p, Signal("answer", t.tag, New(p))) \in [End -> Seq(SignalSet)]
  BY <1>4, QueuesTyped DEF VoiceTypeOK
<1>6. CASE OfferMade(p, t)
  <2>1. [relay[p] EXCEPT !.key = New(p), !.armed = TRUE] \in Entry
    BY <1>0, <1>3 DEF Entry
  <2> QED
    <3>1. /\ relay' \in [End -> Entry] /\ fresh' \in [End -> Nat]
          /\ signals' \in [End -> Seq(SignalSet)]
      <4>1. relay' = relay \/ relay' = [relay EXCEPT ![p] =
                                [relay[p] EXCEPT !.key = New(p), !.armed = TRUE]]
        BY <1>6 DEF OfferMade
      <4>2. fresh' = fresh \/ fresh' = [fresh EXCEPT ![p] = fresh[p] + 1]
        BY <1>6 DEF OfferMade, Make
      <4>3. signals' = signals \/ signals' = Send(signals, p, Signal("offer", t.tag, New(p)))
        BY <1>6 DEF OfferMade
      <4> QED
        <5>1. relay' \in [End -> Entry]
          BY <2>1, <4>1 DEF VoiceTypeOK
        <5>2. fresh' \in [End -> Nat]
          <6>1. fresh \in [End -> Nat] /\ fresh[p] + 1 \in Nat
            BY DEF VoiceTypeOK
          <6> QED
            BY <4>2, <6>1
        <5>3. signals' \in [End -> Seq(SignalSet)]
          BY <1>5, <4>3 DEF VoiceTypeOK
        <5> QED
          BY <5>1, <5>2, <5>3
    <3> QED
      BY <1>2, <1>6, <3>1 DEF OfferMade, routeVars, VoiceTypeOK
<1>7. CASE AnswerMade(p, t)
  <2>1. [relay[p] EXCEPT !.key = New(p), !.crypto = t.key] \in Entry
    BY <1>0, <1>3 DEF Entry
  <2>2. Append(keyed[p], New(p)) \in Seq(Id)
    BY <1>3 DEF VoiceTypeOK
  <2> QED
    <3>1. /\ relay' \in [End -> Entry] /\ fresh' \in [End -> Nat]
          /\ signals' \in [End -> Seq(SignalSet)] /\ keyed' \in [End -> Seq(Id)]
      <4>1. relay' = relay \/ relay' = [relay EXCEPT ![p] =
                                [relay[p] EXCEPT !.key = New(p), !.crypto = t.key]]
        BY <1>7 DEF AnswerMade
      <4>2. fresh' = fresh \/ fresh' = [fresh EXCEPT ![p] = fresh[p] + 1]
        BY <1>7 DEF AnswerMade, Make
      <4>3. signals' = signals \/ signals' = Send(signals, p, Signal("answer", t.tag, New(p)))
        BY <1>7 DEF AnswerMade
      <4>4. keyed' = keyed \/ keyed' = [keyed EXCEPT ![p] = Append(keyed[p], New(p))]
        BY <1>7 DEF AnswerMade
      <4> QED
        <5>1. relay' \in [End -> Entry]
          BY <2>1, <4>1 DEF VoiceTypeOK
        <5>2. fresh' \in [End -> Nat]
          <6>1. fresh \in [End -> Nat] /\ fresh[p] + 1 \in Nat
            BY DEF VoiceTypeOK
          <6> QED
            BY <4>2, <6>1
        <5>3. signals' \in [End -> Seq(SignalSet)]
          BY <1>5, <4>3 DEF VoiceTypeOK
        <5>4. keyed' \in [End -> Seq(Id)]
          BY <2>2, <4>4 DEF VoiceTypeOK
        <5> QED
          BY <5>1, <5>2, <5>3, <5>4
    <3> QED
      BY <1>2, <1>7, <3>1 DEF AnswerMade, routeVars, VoiceTypeOK
<1>8. CASE SessionMade(p, t)
  <2>1. [relay EXCEPT ![p].crypto = t.key] \in [End -> Entry]
    <3>1. [relay[p] EXCEPT !.crypto = t.key] \in Entry
      BY <1>0 DEF Entry
    <3> QED
      BY <3>1 DEF VoiceTypeOK
  <2>2. Append(keyed[p], relay[p].key) \in Seq(Id)
    BY <1>0 DEF VoiceTypeOK, Entry
  <2> QED
    BY <1>2, <1>8, <2>1, <2>2 DEF SessionMade, routeVars, VoiceTypeOK
<1>9. CASE Activated(p, t)
  <2>1. [relay[p] EXCEPT !.phase = "active", !.armed = TRUE] \in Entry
    BY <1>0 DEF Entry, Phase
  <2> QED
    BY <1>2, <1>9, <2>1 DEF Activated, routeVars, VoiceTypeOK
<1> QED
  BY <1>6, <1>7, <1>8, <1>9 DEF Continue

(* So does all the rest.                                                   *)
LEMMA TypeStep ==
  ASSUME VoiceAssumption, VoiceTypeOK, [VoiceNext]_voiceVars
  PROVE  VoiceTypeOK'
<1>1. CASE UNCHANGED voiceVars
  BY <1>1 DEF voiceVars, routeVars, VoiceTypeOK
<1>2. CASE VoiceNext
  <2>0. PICK p \in End :
          \/ Receive(p) \/ (\E t \in tasks[p] : Continue(p, t))
          \/ StartRelay(p) \/ Hear(p) \/ HandshakeTimeout(p)
          \/ SocketLost(p) \/ SocketBack(p) \/ SocketUnavailable(p)
          \/ ConnectionUp(p) \/ ConnectionDown(p) \/ Stable(p) \/ LoseSignal(p)
          \/ RepeatSignal(p)
    BY <1>2 DEF VoiceNext
  <2>00. /\ relay[p] \in Entry /\ Removed(relay[p]) \in Entry /\ Wanted(relay[p]) \in Entry
         /\ ResetMedia(relay[p]) \in Entry /\ New(p) \in Id
    BY EntryTyped DEF VoiceTypeOK
  <2>t. TimerFires => late' \in 0 .. MaxLate
    BY DEF TimerFires, VoiceTypeOK, VoiceAssumption
  <2>1. CASE Receive(p) \/ (\E t \in tasks[p] : Continue(p, t))
    BY <2>1, ReceiveTyped, ContinueTyped
  <2>2. CASE StartRelay(p)
    <3>1. CASE relay[p].wanted
      BY <2>t, <2>2, <3>1 DEF StartRelay, VoiceTypeOK
    <3>2. CASE ~relay[p].wanted
      <4>1. Handshake(p, Wanted(relay[p]), signals)
        BY <2>2, <3>2 DEF StartRelay
      <4>2. /\ relay' \in [End -> Entry] /\ signals' \in [End -> Seq(SignalSet)]
            /\ fresh' \in [End -> Nat]
            /\ tasks' \in [End -> SUBSET TaskSet] /\ \A q \in End : IsFiniteSet(tasks'[q])
        BY <2>00, <4>1, HandshakeTyped DEF VoiceTypeOK
      <4> QED
        <5>1. relayTimer' \in [End -> BOOLEAN]
          BY <2>2 DEF StartRelay, VoiceTypeOK
        <5>2. UNCHANGED <<connected, stableTimer, directReady, directProbe, keyed, acknowledged,
                          changes, losses>>
          BY <2>2 DEF StartRelay
        <5> QED
          BY <2>t, <2>2, <4>2, <5>1, <5>2 DEF StartRelay, VoiceTypeOK
    <3> QED
      BY <3>1, <3>2
  <2>3. CASE Hear(p)
    <3>1. [relay[p] EXCEPT !.exposed = TRUE, !.armed = FALSE] \in Entry
      BY <2>00 DEF Entry
    <3> QED
      BY <2>3, <2>00, <3>1 DEF Hear, routeVars, VoiceTypeOK
  <2>4. CASE HandshakeTimeout(p)
    <3>1. CASE relay[p].phase = "active" \/ relay[p].attempts >= MaxTries
      BY <2>t, <2>4, <2>00, <3>1 DEF HandshakeTimeout, routeVars, VoiceTypeOK
    <3>2. CASE ~(relay[p].phase = "active" \/ relay[p].attempts >= MaxTries)
      <4> DEFINE r == [relay[p] EXCEPT !.attempts = @ + 1, !.armed = FALSE]
      <4>1. r \in Entry
        <5>1. relay[p].attempts + 1 \in 0 .. MaxTries
          BY <2>00, <3>2 DEF Entry, VoiceAssumption
        <5> QED
          BY <2>00, <5>1 DEF Entry
      <4>2. Handshake(p, r, signals)
        BY <2>4, <3>2 DEF HandshakeTimeout
      <4> HIDE DEF r
      <4>3. /\ relay' \in [End -> Entry] /\ signals' \in [End -> Seq(SignalSet)]
            /\ fresh' \in [End -> Nat]
            /\ tasks' \in [End -> SUBSET TaskSet] /\ \A q \in End : IsFiniteSet(tasks'[q])
        BY <4>1, <4>2, HandshakeTyped DEF VoiceTypeOK
      <4> QED
        BY <2>t, <2>4, <4>3 DEF HandshakeTimeout, routeVars, VoiceTypeOK
    <3> QED
      BY <3>1, <3>2
  <2>5. CASE SocketLost(p)
    <3>0. PICK r \in Entry : r = ResetMedia(relay[p])
      BY <2>00
    <3> DEFINE e == [r EXCEPT !.generation = relay[p].generation + 1, !.attempts = 0,
                              !.reconnecting = TRUE]
    <3>00. relay' = [relay EXCEPT ![p] = e]
      BY <2>5, <3>0 DEF SocketLost
    <3>1. e \in Entry
      <4>1. relay[p].generation + 1 \in Nat /\ 0 \in 0 .. MaxTries
        BY <2>00 DEF Entry, VoiceAssumption
      <4> QED
        BY <3>0, <4>1 DEF Entry
    <3>2. relay' \in [End -> Entry]
      BY <3>00, <3>1 DEF VoiceTypeOK
    <3> QED
      BY <2>5, <3>2 DEF SocketLost, routeVars, VoiceTypeOK, VoiceAssumption
  <2>6. CASE SocketBack(p)
    <3> DEFINE r == [relay[p] EXCEPT !.reconnecting = FALSE]
    <3>1. r \in Entry
      BY <2>00 DEF Entry
    <3>2. Handshake(p, r, signals)
      BY <2>6 DEF SocketBack
    <3> HIDE DEF r
    <3>3. /\ relay' \in [End -> Entry] /\ signals' \in [End -> Seq(SignalSet)]
          /\ fresh' \in [End -> Nat]
          /\ tasks' \in [End -> SUBSET TaskSet] /\ \A q \in End : IsFiniteSet(tasks'[q])
      BY <3>1, <3>2, HandshakeTyped DEF VoiceTypeOK
    <3> QED
      BY <2>6, <3>3 DEF SocketBack, routeVars, VoiceTypeOK
  <2>7. CASE SocketUnavailable(p)
    BY <2>7, <2>00 DEF SocketUnavailable, routeVars, VoiceTypeOK, VoiceAssumption
  <2>8. CASE ConnectionUp(p)
    BY <2>8 DEF ConnectionUp, VoiceTypeOK, VoiceAssumption
  <2>9. CASE ConnectionDown(p)
    <3>1. Signal("direct-unready", Nil, Nil) \in SignalSet
      BY SignalTyped DEF SignalKind, Id
    <3>2. signals' \in [End -> Seq(SignalSet)]
      BY <2>9, <3>1, QueuesTyped DEF ConnectionDown, VoiceTypeOK
    <3> QED
      <4>1. /\ connected' \in [End -> BOOLEAN] /\ stableTimer' \in [End -> BOOLEAN]
            /\ relayTimer' \in [End -> BOOLEAN] /\ directReady' \in [End -> BOOLEAN]
        BY <2>9 DEF ConnectionDown, VoiceTypeOK
      <4>2. directProbe' \in [End -> Id] /\ changes' \in 0 .. MaxChanges
        BY <2>9 DEF ConnectionDown, VoiceTypeOK, VoiceAssumption, Id
      <4> QED
        BY <2>9, <3>2, <4>1, <4>2 DEF ConnectionDown, VoiceTypeOK
  <2>10. CASE Stable(p)
    <3>1. Signal("direct-probe", New(p), Nil) \in SignalSet
      BY <2>00, SignalTyped DEF SignalKind, Id
    <3>2. signals' \in [End -> Seq(SignalSet)]
      BY <2>10, <3>1, QueuesTyped DEF Stable, VoiceTypeOK
    <3> QED
      BY <2>t, <2>00, <2>10, <3>2 DEF Stable, Make, VoiceTypeOK
  <2>11. CASE LoseSignal(p)
    <3>1. signals' \in [End -> Seq(SignalSet)]
      BY <2>11, QueuesTyped DEF LoseSignal, Received, VoiceTypeOK
    <3> QED
      BY <2>11, <3>1 DEF LoseSignal, routeVars, VoiceTypeOK, VoiceAssumption
  <2>12. CASE RepeatSignal(p)
    <3>1. signals' \in [End -> Seq(SignalSet)]
      BY <2>12, QueuesTyped DEF RepeatSignal, VoiceTypeOK
    <3> QED
      BY <2>12, <3>1 DEF RepeatSignal, routeVars, VoiceTypeOK, VoiceAssumption
  <2> QED
    BY <2>0, <2>1, <2>2, <2>3, <2>4, <2>5, <2>6, <2>7, <2>8, <2>9, <2>10, <2>11, <2>12
<1> QED
  BY <1>1, <1>2

(* Every variable keeps its type, whatever is lost and however often the   *)
(* connection changes (class VoiceRelay, updateVoiceRoute).                *)
THEOREM VoiceTypeCorrect ==
  ASSUME VoiceAssumption
  PROVE  VoiceSpec => []VoiceTypeOK
<1>1. VoiceInit => VoiceTypeOK
  BY TypeInit
<1>2. VoiceTypeOK /\ [VoiceNext]_voiceVars => VoiceTypeOK'
  BY TypeStep
<1> QED
  BY <1>1, <1>2, PTL DEF VoiceSpec

-----------------------------------------------------------------------------
(* What queues hold after a signal is taken, sent, lost or repeated.       *)
LEMMA Elements ==
  ASSUME NEW S, NEW q \in Seq(S)
  PROVE  /\ \A x \in S : In(Append(q, x)) = In(q) \cup {x}
         /\ q # <<>> =>
              Head(q) \in In(q) /\ In(Tail(q)) \subseteq In(q) /\ In(Append(q, Head(q))) = In(q)
         /\ In(q) \subseteq S
<1>1. In(q) \subseteq S
  BY DEF In
<1>2. ASSUME NEW x \in S
      PROVE  In(Append(q, x)) = In(q) \cup {x}
  <2>1. /\ Append(q, x) \in Seq(S) /\ Len(Append(q, x)) = Len(q) + 1
        /\ \A i \in 1 .. Len(q) : Append(q, x)[i] = q[i]
        /\ Append(q, x)[Len(q) + 1] = x
        /\ Len(q) \in Nat
    OBVIOUS
  <2>2. DOMAIN q = 1 .. Len(q) /\ DOMAIN Append(q, x) = 1 .. (Len(q) + 1)
    BY <2>1
  <2> HIDE DEF In
  <2>3. \A y \in In(Append(q, x)) : y \in In(q) \cup {x}
    <3>1. SUFFICES ASSUME NEW i \in 1 .. (Len(q) + 1)
                   PROVE  Append(q, x)[i] \in In(q) \cup {x}
      BY <2>2 DEF In
    <3>2. i \in 1 .. Len(q) \/ i = Len(q) + 1
      BY <2>1
    <3> QED
      BY <2>1, <2>2, <3>2 DEF In
  <2>4. \A y \in In(q) : y \in In(Append(q, x))
    <3>1. SUFFICES ASSUME NEW i \in 1 .. Len(q)
                   PROVE  q[i] \in In(Append(q, x))
      BY <2>2 DEF In
    <3>2. i \in DOMAIN Append(q, x) /\ Append(q, x)[i] = q[i]
      BY <2>1, <2>2
    <3> QED
      BY <3>2 DEF In
  <2>5. x \in In(Append(q, x))
    <3>1. Len(q) + 1 \in DOMAIN Append(q, x)
      BY <2>1, <2>2
    <3> QED
      BY <2>1, <3>1 DEF In
  <2> QED
    BY <2>3, <2>4, <2>5
<1>3. ASSUME q # <<>>
      PROVE  Head(q) \in In(q) /\ In(Tail(q)) \subseteq In(q)
  <2>1. /\ Len(q) \in Nat /\ Len(q) >= 1 /\ DOMAIN q = 1 .. Len(q) /\ Head(q) = q[1]
        /\ Tail(q) \in Seq(S) /\ Len(Tail(q)) = Len(q) - 1
        /\ \A i \in 1 .. (Len(q) - 1) : Tail(q)[i] = q[i + 1]
    BY <1>3
  <2>2. DOMAIN Tail(q) = 1 .. (Len(q) - 1)
    BY <2>1
  <2>3. 1 \in DOMAIN q /\ \A i \in DOMAIN Tail(q) : i + 1 \in DOMAIN q /\ Tail(q)[i] = q[i + 1]
    BY <2>1, <2>2
  <2> QED
    BY <2>1, <2>3 DEF In
<1>4. q # <<>> => In(Append(q, Head(q))) = In(q)
  BY <1>1, <1>2, <1>3
<1> QED
  BY <1>1, <1>2, <1>3, <1>4

(* The same, of all queues.                                                *)
LEMMA Sent ==
  ASSUME VoiceAssumption, NEW queues \in [End -> Seq(SignalSet)], NEW p \in End,
         NEW s \in SignalSet, NEW q \in End
  PROVE  In(Send(queues, p, s)[q]) = IF q = Other(p) THEN In(queues[q]) \cup {s}
                                                    ELSE In(queues[q])
<1>1. Send(queues, p, s)[q] = IF q = Other(p) THEN Append(queues[q], s) ELSE queues[q]
  BY DEF Send
<1>2. In(Append(queues[q], s)) = In(queues[q]) \cup {s}
  BY Elements
<1> QED
  BY <1>1, <1>2

(* A signal taken, lost or repeated adds nothing to any queue.             *)
LEMMA Taken ==
  ASSUME NEW queues \in [End -> Seq(SignalSet)], NEW p \in End, queues[p] # <<>>, NEW q \in End
  PROVE  /\ Head(queues[p]) \in In(queues[p])
         /\ In([queues EXCEPT ![p] = Tail(@)][q]) \subseteq In(queues[q])
         /\ In([queues EXCEPT ![p] = Append(@, Head(@))][q]) = In(queues[q])
<1>1. /\ Head(queues[p]) \in In(queues[p]) /\ In(Tail(queues[p])) \subseteq In(queues[p])
      /\ In(Append(queues[p], Head(queues[p]))) = In(queues[p])
  BY Elements
<1>2. CASE q = p
  BY <1>1, <1>2
<1>3. CASE q # p
  BY <1>1, <1>3
<1> QED
  BY <1>2, <1>3

-----------------------------------------------------------------------------
(* A step that leaves the session of an entry alone, and one that ends it. *)
Same(r, o) ==
  /\ r.phase = o.phase /\ r.epoch = o.epoch /\ r.key = o.key /\ r.crypto = o.crypto
  /\ r.exposed = o.exposed /\ r.generation = o.generation

Ended(r, o) ==
  /\ r.phase = "idle" /\ r.epoch \in {o.epoch, Nil} /\ r.key = Nil /\ r.crypto = Nil
  /\ ~r.exposed /\ r.generation > o.generation

Sessions ==
  Sources /\ Turns /\ Up /\ Epochs /\ Unused /\ KeysServeOneSession /\ Agree

(* Steps of the first kinds keep all that is known of sessions.            *)
LEMMA Undisturbed ==
  ASSUME VoiceAssumption, VoiceTypeOK, VoiceTypeOK', Sessions, NEW p \in End, NEW r,
         relay' = [relay EXCEPT ![p] = r], Same(r, relay[p]) \/ Ended(r, relay[p]),
         keyed' = keyed, \A q \in End : tasks'[q] \subseteq tasks[q],
         \A q \in End : fresh[q] <= fresh'[q],
         \* the queues bring no offer and no answer
         \A q \in End : \A s \in In(signals'[q]) :
           s \in In(signals[q]) \/ s.kind \notin {"offer", "answer"}
  PROVE  Sessions'
<1> USE DEF Sessions
<1>0. /\ Initiator \in End /\ Responder \in End /\ Initiator # Responder
      /\ \A q \in End : q = Initiator \/ q = Responder
      /\ Other(Initiator) = Responder /\ Other(Responder) = Initiator
  BY Ends DEF End, Other
<1>1. \A q \in End : relay'[q] = relay[q] \/ Same(relay'[q], relay[q]) \/ Ended(relay'[q], relay[q])
  BY DEF VoiceTypeOK
<1>2. \A q \in End : Same(relay'[q], relay[q]) \/ Ended(relay'[q], relay[q])
  BY <1>1 DEF Same
<1>3. \A q \in End : Made(q) \subseteq Made(q)'
  <2>1. SUFFICES ASSUME NEW q \in End, NEW n \in 1 .. fresh[q]
                 PROVE  n \in 1 .. fresh'[q]
    BY DEF Made
  <2> QED
    BY DEF VoiceTypeOK
<1>4. \A q \in End : Nil \notin Made(q)
  BY DEF Made, VoiceAssumption, VoiceTypeOK, End
<1>5. Sources'
  <2>1. ASSUME NEW q \in End
        PROVE  /\ relay'[q].epoch \in Made(Initiator)' \cup {Nil}
               /\ relay'[q].key \in Made(q)' \cup {Nil}
    <3>1. relay[q].epoch \in Made(Initiator) \cup {Nil} /\ relay[q].key \in Made(q) \cup {Nil}
      BY DEF Sources
    <3> QED
      BY <1>0, <1>2, <1>3, <3>1 DEF Same, Ended
  <2>2. ASSUME NEW q \in End
        PROVE  /\ In(keyed'[q]) \subseteq Made(q)'
               /\ \A s \in In(signals'[q]) :
                    /\ s.kind = "offer" => s.tag \in Made(Initiator)' /\ s.key # Nil
                    /\ s.kind = "answer" => s.key # Nil
               /\ \A t \in tasks'[q] :
                    /\ t.kind \in {"offer", "answer"} => t.tag \in Made(Initiator)'
                    /\ t.kind \in {"answer", "session"} => t.key # Nil
    BY <1>0, <1>3 DEF Sources
  <2> QED
    BY <1>0, <2>1, <2>2 DEF Sources
<1>6. \A e \in Made(Initiator) : Unsent(e) => Unsent(e)'
  <2>1. SUFFICES ASSUME NEW e \in Made(Initiator), Unsent(e)
                 PROVE  Unsent(e)'
    OBVIOUS
  <2>2. e # Nil /\ relay'[Responder].epoch \in {relay[Responder].epoch, Nil}
    BY <1>0, <1>2, <1>4 DEF Same, Ended
  <2> QED
    BY <1>0, <2>1, <2>2 DEF Unsent
<1>7. Turns'
  <2>1. SUFFICES ASSUME NEW q \in End, NEW t \in tasks'[q]
                 PROVE  /\ t.generation <= relay'[q].generation
                        /\ t.generation = relay'[q].generation => Turn(q, t)'
                        /\ \A s \in tasks'[q] :
                             Opens(s) /\ Opens(t) /\ s.generation = t.generation => s = t
    BY DEF Turns
  <2>2. /\ t \in tasks[q]
        /\ t.generation <= relay[q].generation
        /\ t.generation = relay[q].generation => Turn(q, t)
        /\ \A s \in tasks[q] :
             Opens(s) /\ Opens(t) /\ s.generation = t.generation => s = t
    BY DEF Turns
  <2>3. t.kind \in {"offer", "answer"} => t.tag \in Made(Initiator)
    BY <2>2 DEF Sources
  <2>4. t.generation \in Nat /\ relay[q].generation \in Nat /\ relay'[q].generation \in Nat
    <3>1. t \in TaskSet /\ relay[q] \in Entry /\ relay'[q] \in Entry
      BY <2>2 DEF VoiceTypeOK
    <3> QED
      BY <3>1 DEF TaskSet, Entry
  <2>5. CASE Same(relay'[q], relay[q])
    <3>1. ASSUME Turn(q, t)
          PROVE  Turn(q, t)'
      BY <1>6, <2>3, <2>5, <3>1 DEF Turn, Same
    <3> QED
      BY <2>2, <2>5, <3>1 DEF Same
  <2>6. CASE Ended(relay'[q], relay[q])
    BY <2>2, <2>4, <2>6 DEF Ended
  <2> QED
    BY <1>2, <2>5, <2>6
<1>8. Up'
  <2>1. SUFFICES ASSUME NEW q \in End
                 PROVE  LET o == relay'[q]
                        IN /\ o.phase = "active" => o.key # Nil /\ o.crypto # Nil /\ o.epoch # Nil
                           /\ o.phase = "offering" => o.epoch # Nil
                           /\ o.exposed => o.phase = "active"
    BY DEF Up
  <2> QED
    BY <1>2 DEF Up, Same, Ended
<1>9. Epochs'
  <2>1. relay'[Initiator].key # Nil => Same(relay'[Initiator], relay[Initiator])
    BY <1>0, <1>2 DEF Ended
  <2>2. relay'[Responder].exposed => Same(relay'[Responder], relay[Responder])
    BY <1>0, <1>2 DEF Ended
  <2>3. relay'[Initiator].phase = "offering" => Same(relay'[Initiator], relay[Initiator])
    BY <1>0, <1>2 DEF Ended
  <2> QED
    BY <1>0, <2>1, <2>2, <2>3 DEF Epochs, Same
<1>10. Unused' /\ KeysServeOneSession'
  <2>1. relay'[Initiator].key # Nil => Same(relay'[Initiator], relay[Initiator])
    BY <1>0, <1>2 DEF Ended
  <2> QED
    BY <1>0, <2>1 DEF Unused, KeysServeOneSession, Same
<1>11. Agree'
  <2>1. SUFFICES ASSUME NEW q \in End, relay'[q].exposed, relay'[Other(q)].crypto # Nil,
                        relay'[q].epoch = relay'[Other(q)].epoch
                 PROVE  relay'[Other(q)].crypto = relay'[q].key
    BY DEF Agree
  <2>2. Same(relay'[q], relay[q]) /\ Same(relay'[Other(q)], relay[Other(q)])
    BY <1>0, <1>2, <2>1 DEF Ended
  <2> QED
    BY <2>1, <2>2 DEF Agree, Same
<1> QED
  BY <1>5, <1>7, <1>8, <1>9, <1>10, <1>11

(* What an end makes new it has not made before.                           *)
LEMMA Anew ==
  ASSUME VoiceAssumption, VoiceTypeOK, NEW p \in End
  PROVE  /\ New(p) \notin Made(p) /\ New(p) # Nil
         /\ \A q \in End : Nil \notin Made(q)
         /\ (\A q \in End : fresh[q] <= fresh'[q]) /\ VoiceTypeOK' => \A q \in End : Made(q) \subseteq Made(q)'
         /\ Make(p) /\ VoiceTypeOK' =>
              /\ \A q \in End : Made(q) \subseteq Made(q)'
              /\ New(p) \in Made(p)'
<1>1. fresh \in [End -> Nat]
  BY DEF VoiceTypeOK
<1>2. New(p) \notin Made(p) /\ New(p) # Nil
  BY <1>1 DEF New, Made, VoiceAssumption, End
<1>3. \A q \in End : Nil \notin Made(q)
  BY <1>1 DEF Made, VoiceAssumption, End
<1>4. ASSUME \A q \in End : fresh[q] <= fresh'[q], VoiceTypeOK'
      PROVE  \A q \in End : Made(q) \subseteq Made(q)'
  <2>1. SUFFICES ASSUME NEW q \in End, NEW n \in 1 .. fresh[q]
                 PROVE  n \in 1 .. fresh'[q]
    BY DEF Made
  <2>2. fresh'[q] \in Nat
    BY <1>4 DEF VoiceTypeOK
  <2> QED
    BY <1>1, <1>4, <2>2
<1>5. ASSUME Make(p), VoiceTypeOK'
      PROVE  /\ \A q \in End : Made(q) \subseteq Made(q)'
             /\ New(p) \in Made(p)'
  <2>1. /\ fresh'[p] = fresh[p] + 1 /\ \A q \in End : fresh[q] <= fresh'[q]
    BY <1>1, <1>5 DEF Make
  <2>2. fresh[p] + 1 \in 1 .. fresh'[p]
    BY <1>1, <2>1
  <2> QED
    BY <1>4, <1>5, <2>1, <2>2 DEF Made, New
<1> QED
  BY <1>2, <1>3, <1>4, <1>5

(* The two ends, by name.                                                  *)
LEMMA TheEnds ==
  ASSUME VoiceAssumption
  PROVE  /\ Initiator \in End /\ Responder \in End /\ Initiator # Responder
         /\ \A q \in End : q = Initiator \/ q = Responder
         /\ Other(Initiator) = Responder /\ Other(Responder) = Initiator
BY DEF VoiceAssumption, End, Other

(* Generations are numbers.                                                *)
LEMMA Generations ==
  ASSUME VoiceTypeOK, NEW q \in End
  PROVE  /\ relay[q].generation \in Nat
         /\ \A t \in tasks[q] : t \in TaskSet /\ t.generation \in Nat
<1>1. relay[q] \in Entry /\ tasks[q] \subseteq TaskSet
  BY DEF VoiceTypeOK
<1> QED
  BY <1>1 DEF Entry, TaskSet

-----------------------------------------------------------------------------
(* A new offer begins: it has a generation and an epoch of its own.        *)
LEMMA Started ==
  ASSUME VoiceAssumption, VoiceTypeOK, VoiceTypeOK', Sessions, NEW r \in Entry,
         r.generation = relay[Initiator].generation,
         relay' = [relay EXCEPT ![Initiator] = StartOffer(r)],
         tasks' = [tasks EXCEPT ![Initiator] =
                     @ \cup {Task("offer", StartOffer(r), StartOffer(r).epoch, Nil)}],
         Make(Initiator), keyed' = keyed,
         \A q \in End : In(signals'[q]) \subseteq In(signals[q])
  PROVE  Sessions'
<1> USE DEF Sessions
<1>0. /\ Initiator \in End /\ Responder \in End /\ Initiator # Responder
      /\ \A q \in End : q = Initiator \/ q = Responder
      /\ Other(Initiator) = Responder /\ Other(Responder) = Initiator
  BY TheEnds
<1>e. PICK e : e = New(Initiator)
  OBVIOUS
<1> DEFINE g == relay[Initiator].generation + 1
           i == StartOffer(r)
           t0 == Task("offer", i, i.epoch, Nil)
<1>1. /\ i.phase = "offering" /\ i.epoch = e /\ i.key = Nil /\ i.crypto = Nil
      /\ i.exposed = FALSE /\ i.generation = g
  BY <1>e DEF StartOffer, ResetMedia, Entry
<1>2. t0.kind = "offer" /\ t0.tag = e /\ t0.generation = g
  BY <1>1 DEF Task
<1>3. /\ relay'[Initiator] = i /\ relay'[Responder] = relay[Responder]
      /\ tasks'[Initiator] = tasks[Initiator] \cup {t0} /\ tasks'[Responder] = tasks[Responder]
  BY <1>0 DEF VoiceTypeOK
<1>4. /\ e \notin Made(Initiator) /\ e # Nil /\ e \in Made(Initiator)'
      /\ \A q \in End : Made(q) \subseteq Made(q)'
  BY <1>0, <1>e, Anew
<1>5. g > relay[Initiator].generation /\ g \in Nat /\ \A t \in tasks[Initiator] : t.generation < g
  <2>1. \A t \in tasks[Initiator] : t.generation <= relay[Initiator].generation
    BY <1>0 DEF Turns
  <2> QED
    BY <1>0, <2>1, Generations
<1> HIDE DEF g, i, t0
<1>6. Sources'
  <2>1. ASSUME NEW q \in End
        PROVE  /\ relay'[q].epoch \in Made(Initiator)' \cup {Nil}
               /\ relay'[q].key \in Made(q)' \cup {Nil}
    BY <1>0, <1>1, <1>3, <1>4 DEF Sources
  <2>2. ASSUME NEW q \in End
        PROVE  /\ In(keyed'[q]) \subseteq Made(q)'
               /\ \A s \in In(signals'[q]) :
                    /\ s.kind = "offer" => s.tag \in Made(Initiator)' /\ s.key # Nil
                    /\ s.kind = "answer" => s.key # Nil
    BY <1>0, <1>4 DEF Sources
  <2>3. ASSUME NEW q \in End, NEW t \in tasks'[q]
        PROVE  /\ t.kind \in {"offer", "answer"} => t.tag \in Made(Initiator)'
               /\ t.kind \in {"answer", "session"} => t.key # Nil
    BY <1>0, <1>2, <1>3, <1>4 DEF Sources
  <2>4. /\ \A t \in tasks'[Initiator] : t.kind # "answer"
        /\ \A t \in tasks'[Responder] : t.kind \notin {"offer", "session"}
    BY <1>2, <1>3 DEF Sources
  <2> QED
    BY <2>1, <2>2, <2>3, <2>4 DEF Sources
<1>7. Unsent(e)'
  BY <1>0, <1>3, <1>4 DEF Sources, Unsent
<1>8. Turns'
  <2>1. SUFFICES ASSUME NEW q \in End, NEW t \in tasks'[q]
                 PROVE  /\ t.generation <= relay'[q].generation
                        /\ t.generation = relay'[q].generation => Turn(q, t)'
                        /\ \A s \in tasks'[q] :
                             Opens(s) /\ Opens(t) /\ s.generation = t.generation => s = t
    BY DEF Turns
  <2>2. CASE q = Responder
    <3>1. /\ t.generation <= relay[q].generation
          /\ t.generation = relay[q].generation => Turn(q, t)
          /\ \A s \in tasks[q] :
               Opens(s) /\ Opens(t) /\ s.generation = t.generation => s = t
      BY <1>3, <2>2 DEF Turns
    <3>2. t.kind # "offer"
      BY <1>3, <2>2 DEF Sources
    <3> QED
      BY <1>3, <2>2, <3>1, <3>2 DEF Turn
  <2>3. CASE q = Initiator /\ t \in tasks[Initiator] /\ t # t0
    <3>1. \A s \in tasks[Initiator] :
            Opens(s) /\ Opens(t) /\ s.generation = t.generation => s = t
      BY <1>0, <2>3 DEF Turns
    <3>2. t.generation < g /\ t.generation \in Nat
      BY <1>0, <1>5, <2>3, Generations
    <3> QED
      BY <1>1, <1>2, <1>3, <1>5, <2>3, <3>1, <3>2
  <2>4. CASE q = Initiator /\ t = t0
    <3>1. \A s \in tasks[Initiator] : s.generation # g
      BY <1>0, <1>5, Generations
    <3>2. Turn(q, t)'
      BY <1>1, <1>2, <1>3, <1>7, <2>4 DEF Turn
    <3> QED
      BY <1>1, <1>2, <1>3, <1>5, <2>4, <3>1, <3>2
  <2> QED
    BY <1>0, <1>3, <2>2, <2>3, <2>4
<1>9. Up'
  <2>1. SUFFICES ASSUME NEW q \in End
                 PROVE  LET o == relay'[q]
                        IN /\ o.phase = "active" => o.key # Nil /\ o.crypto # Nil /\ o.epoch # Nil
                           /\ o.phase = "offering" => o.epoch # Nil
                           /\ o.exposed => o.phase = "active"
    BY DEF Up
  <2> QED
    BY <1>0, <1>1, <1>3, <1>4 DEF Up
<1>10. Epochs'
  <2>1. relay[Responder].epoch # e
    BY <1>0, <1>4 DEF Sources
  <2> QED
    BY <1>1, <1>3, <2>1 DEF Epochs
<1>11. Unused' /\ KeysServeOneSession' /\ Agree'
  <2>1. Agree'
    BY <1>0, <1>1, <1>3 DEF Agree
  <2> QED
    BY <1>1, <1>3, <2>1 DEF Unused, KeysServeOneSession
<1> QED
  BY <1>6, <1>8, <1>9, <1>10, <1>11

(* An offer goes out: nothing has carried its epoch, and from now on only  *)
(* this key goes with it.                                                  *)
LEMMA Offered ==
  ASSUME VoiceAssumption, VoiceTypeOK, VoiceTypeOK', Sessions, NEW p \in End, NEW t \in tasks[p],
         OfferMade(p, t), CurrentTask(p, t)
  PROVE  Sessions'
<1> USE DEF Sessions
<1>0. /\ Initiator \in End /\ Responder \in End /\ Initiator # Responder
      /\ \A q \in End : q = Initiator \/ q = Responder
      /\ Other(Initiator) = Responder /\ Other(Responder) = Initiator
  BY TheEnds
<1>1. /\ t.kind = "offer" /\ p = Initiator /\ t.generation = relay[Initiator].generation
      /\ t \in tasks[Initiator]
  BY <1>0 DEF OfferMade, Sources, CurrentTask
<1>k. PICK k : k = New(Initiator)
  OBVIOUS
<1> DEFINE i == relay[Initiator]
           o == Signal("offer", t.tag, k)
<1>2. /\ i.epoch = t.tag /\ i.phase = "offering" /\ i.key = Nil /\ i.crypto = Nil
      /\ Unsent(t.tag)
  BY <1>0, <1>1 DEF Turns, Turn
<1>3. /\ relay' = [relay EXCEPT ![Initiator] = [i EXCEPT !.key = k, !.armed = TRUE]]
      /\ tasks' = [tasks EXCEPT ![Initiator] = tasks[Initiator] \ {t}]
      /\ signals' = Send(signals, Initiator, o) /\ Make(Initiator) /\ keyed' = keyed
  BY <1>1, <1>k DEF OfferMade, CurrentTask
<1>4. o \in SignalSet /\ o.kind = "offer" /\ o.tag = t.tag /\ o.key = k
  <2>1. t.tag \in Id /\ k \in Id /\ "offer" \in SignalKind
    BY <1>0, <1>1, <1>k, Generations, EntryTyped DEF TaskSet, SignalKind, VoiceTypeOK
  <2> QED
    BY <2>1, SignalTyped DEF Signal
<1> HIDE DEF o
<1>5. /\ In(signals'[Responder]) = In(signals[Responder]) \cup {o}
      /\ In(signals'[Initiator]) = In(signals[Initiator])
  <2>1. signals \in [End -> Seq(SignalSet)]
    BY DEF VoiceTypeOK
  <2>2. \A q \in End :
          In(Send(signals, Initiator, o)[q]) = IF q = Other(Initiator) THEN In(signals[q]) \cup {o}
                                                                       ELSE In(signals[q])
    BY <1>0, <1>4, <2>1, Sent
  <2> QED
    BY <1>0, <1>3, <2>2
<1>6. /\ relay'[Responder] = relay[Responder] /\ tasks'[Responder] = tasks[Responder]
      /\ tasks'[Initiator] = tasks[Initiator] \ {t}
      /\ relay'[Initiator].phase = i.phase /\ relay'[Initiator].epoch = i.epoch
      /\ relay'[Initiator].key = k /\ relay'[Initiator].crypto = i.crypto
      /\ relay'[Initiator].exposed = i.exposed /\ relay'[Initiator].generation = i.generation
  <2>1. i \in Entry /\ relay'[Initiator] = [i EXCEPT !.key = k, !.armed = TRUE]
    BY <1>0, <1>3 DEF VoiceTypeOK
  <2> QED
    BY <1>0, <1>3, <2>1 DEF VoiceTypeOK, Entry
<1>7. /\ k \notin Made(Initiator) /\ k # Nil /\ k \in Made(Initiator)'
      /\ \A q \in End : Made(q) \subseteq Made(q)'
  BY <1>0, <1>3, <1>k, Anew
<1> HIDE DEF i
<1>8. Sources'
  <2>1. ASSUME NEW q \in End
        PROVE  /\ relay'[q].epoch \in Made(Initiator)' \cup {Nil}
               /\ relay'[q].key \in Made(q)' \cup {Nil}
    BY <1>0, <1>6, <1>7 DEF Sources, i
  <2>2. ASSUME NEW q \in End
        PROVE  /\ In(keyed'[q]) \subseteq Made(q)'
               /\ \A s \in In(signals'[q]) :
                    /\ s.kind = "offer" => s.tag \in Made(Initiator)' /\ s.key # Nil
                    /\ s.kind = "answer" => s.key # Nil
    <3>1. t.tag \in Made(Initiator)
      BY <1>0, <1>1 DEF Sources
    <3> QED
      BY <1>0, <1>3, <1>4, <1>5, <1>7, <3>1 DEF Sources
  <2>3. ASSUME NEW q \in End, NEW u \in tasks'[q]
        PROVE  /\ u.kind \in {"offer", "answer"} => u.tag \in Made(Initiator)'
               /\ u.kind \in {"answer", "session"} => u.key # Nil
    BY <1>0, <1>6, <1>7 DEF Sources
  <2>4. /\ \A u \in tasks'[Initiator] : u.kind # "answer"
        /\ \A u \in tasks'[Responder] : u.kind \notin {"offer", "session"}
    BY <1>6 DEF Sources
  <2> QED
    BY <2>1, <2>2, <2>3, <2>4 DEF Sources
<1>9. Turns'
  <2>1. SUFFICES ASSUME NEW q \in End, NEW u \in tasks'[q]
                 PROVE  /\ u.generation <= relay'[q].generation
                        /\ u.generation = relay'[q].generation => Turn(q, u)'
                        /\ \A s \in tasks'[q] :
                             Opens(s) /\ Opens(u) /\ s.generation = u.generation => s = u
    BY DEF Turns
  <2>2. /\ u \in tasks[q] /\ u.generation <= relay[q].generation
        /\ u.generation = relay[q].generation => Turn(q, u)
        /\ \A s \in tasks[q] :
             Opens(s) /\ Opens(u) /\ s.generation = u.generation => s = u
    BY <1>0, <1>6 DEF Turns
  <2>3. CASE q = Responder
    <3>1. u.kind # "offer"
      BY <2>2, <2>3 DEF Sources
    <3> QED
      BY <1>6, <2>2, <2>3, <3>1 DEF Turn
  <2>4. CASE q = Initiator
    <3>1. u.kind = "offer" /\ u.generation = i.generation => u = t
      BY <1>1, <2>2, <2>4 DEF Opens, i
    <3>2. u # t
      BY <1>6, <2>4
    <3>3. u.kind # "answer"
      BY <2>2, <2>4 DEF Sources
    <3>4. u.generation = i.generation => u.kind # "activate"
      BY <1>2, <2>2, <2>4 DEF Turn, i
    <3>5. u.generation = relay'[q].generation => Turn(q, u)'
      BY <1>6, <1>7, <2>4, <3>1, <3>2, <3>3, <3>4 DEF Turn
    <3> QED
      BY <1>6, <2>2, <2>4, <3>5 DEF i
  <2> QED
    BY <1>0, <2>3, <2>4
<1>10. Up'
  <2>1. SUFFICES ASSUME NEW q \in End
                 PROVE  LET r == relay'[q]
                        IN /\ r.phase = "active" => r.key # Nil /\ r.crypto # Nil /\ r.epoch # Nil
                           /\ r.phase = "offering" => r.epoch # Nil
                           /\ r.exposed => r.phase = "active"
    BY DEF Up
  <2> QED
    BY <1>0, <1>2, <1>6 DEF Up, i
<1>11. Epochs'
  <2>1. \A s \in In(signals'[Responder]) : s.kind = "offer" /\ s.tag = i.epoch => s.key = k
    BY <1>2, <1>4, <1>5 DEF Unsent
  <2>2. \A u \in tasks'[Responder] : u.kind = "answer" => u.tag # i.epoch
    BY <1>2, <1>6 DEF Unsent
  <2>3. relay'[Responder].epoch # i.epoch
    BY <1>2, <1>6 DEF Unsent
  <2> QED
    BY <1>6, <2>1, <2>2, <2>3 DEF Epochs
<1>12. Unused' /\ KeysServeOneSession'
  BY <1>0, <1>3, <1>6, <1>7 DEF Unused, KeysServeOneSession, Sources
<1>13. Agree'
  <2>1. ~relay'[Initiator].exposed /\ relay'[Initiator].crypto = Nil
    BY <1>0, <1>2, <1>6 DEF Up, i
  <2> QED
    BY <1>0, <2>1 DEF Agree
<1> QED
  BY <1>8, <1>9, <1>10, <1>11, <1>12, <1>13

(* A list with one more element that it did not have.                      *)
LEMMA Distinct ==
  ASSUME NEW S, NEW q \in Seq(S), NEW x \in S, x \notin In(q),
         \A i, j \in DOMAIN q : i # j => q[i] # q[j]
  PROVE  \A i, j \in DOMAIN Append(q, x) : i # j => Append(q, x)[i] # Append(q, x)[j]
<1>1. /\ Len(q) \in Nat /\ DOMAIN q = 1 .. Len(q) /\ DOMAIN Append(q, x) = 1 .. (Len(q) + 1)
      /\ \A i \in 1 .. Len(q) : Append(q, x)[i] = q[i]
      /\ Append(q, x)[Len(q) + 1] = x
  OBVIOUS
<1>2. SUFFICES ASSUME NEW i \in 1 .. (Len(q) + 1), NEW j \in 1 .. (Len(q) + 1), i # j
               PROVE  Append(q, x)[i] # Append(q, x)[j]
  BY <1>1
<1>3. \A n \in 1 .. (Len(q) + 1) : n \in 1 .. Len(q) \/ n = Len(q) + 1
  BY <1>1
<1>4. \A n \in 1 .. Len(q) : q[n] # x
  BY <1>1 DEF In
<1> QED
  BY <1>1, <1>2, <1>3, <1>4

(* The responder answers the offer of its epoch, with a key of its own.    *)
LEMMA Answering ==
  ASSUME VoiceAssumption, VoiceTypeOK, VoiceTypeOK', Sessions, NEW p \in End, NEW t \in tasks[p],
         AnswerMade(p, t), CurrentTask(p, t)
  PROVE  Sessions'
<1> USE DEF Sessions
<1>0. /\ Initiator \in End /\ Responder \in End /\ Initiator # Responder
      /\ \A q \in End : q = Initiator \/ q = Responder
      /\ Other(Initiator) = Responder /\ Other(Responder) = Initiator
  BY TheEnds
<1>1. /\ t.kind = "answer" /\ p = Responder /\ t.generation = relay[Responder].generation
      /\ t \in tasks[Responder]
  BY <1>0 DEF AnswerMade, Sources, CurrentTask
<1>k. PICK k : k = New(Responder)
  OBVIOUS
<1> DEFINE r == relay[Responder]
           a == Signal("answer", t.tag, k)
           u0 == [t EXCEPT !.kind = "activate"]
<1>2. /\ r.epoch = t.tag /\ r.phase = "answering" /\ r.crypto = Nil /\ ~r.exposed
      /\ t.tag # Nil /\ t.key # Nil
  BY <1>0, <1>1, Anew DEF Turns, Turn, Up, Sources
<1>3. /\ relay' = [relay EXCEPT ![Responder] = [r EXCEPT !.key = k, !.crypto = t.key]]
      /\ tasks' = [tasks EXCEPT ![Responder] = (tasks[Responder] \ {t}) \cup {u0}]
      /\ signals' = Send(signals, Responder, a) /\ Make(Responder)
      /\ keyed' = [keyed EXCEPT ![Responder] = Append(keyed[Responder], k)]
  BY <1>1, <1>k DEF AnswerMade, CurrentTask
<1>4. a \in SignalSet /\ a.kind = "answer" /\ a.key = k
  <2>1. t.tag \in Id /\ k \in Id /\ "answer" \in SignalKind
    BY <1>0, <1>1, <1>k, Generations, EntryTyped DEF TaskSet, SignalKind, VoiceTypeOK
  <2> QED
    BY <2>1, SignalTyped DEF Signal
<1>u. u0.kind = "activate" /\ u0.generation = t.generation
  BY <1>0, <1>1, Generations DEF TaskSet
<1> HIDE DEF a, u0
<1>5. /\ In(signals'[Initiator]) = In(signals[Initiator]) \cup {a}
      /\ In(signals'[Responder]) = In(signals[Responder])
  <2>1. signals \in [End -> Seq(SignalSet)]
    BY DEF VoiceTypeOK
  <2>2. \A q \in End :
          In(Send(signals, Responder, a)[q]) = IF q = Other(Responder) THEN In(signals[q]) \cup {a}
                                                                       ELSE In(signals[q])
    BY <1>0, <1>4, <2>1, Sent
  <2> QED
    BY <1>0, <1>3, <2>2
<1>6. /\ relay'[Initiator] = relay[Initiator] /\ tasks'[Initiator] = tasks[Initiator]
      /\ tasks'[Responder] = (tasks[Responder] \ {t}) \cup {u0}
      /\ relay'[Responder].phase = r.phase /\ relay'[Responder].epoch = r.epoch
      /\ relay'[Responder].key = k /\ relay'[Responder].crypto = t.key
      /\ relay'[Responder].exposed = r.exposed /\ relay'[Responder].generation = r.generation
  <2>1. r \in Entry /\ relay'[Responder] = [r EXCEPT !.key = k, !.crypto = t.key]
    BY <1>0, <1>3 DEF VoiceTypeOK
  <2> QED
    BY <1>0, <1>3, <2>1 DEF VoiceTypeOK, Entry
<1>7. /\ k \notin Made(Responder) /\ k # Nil /\ k \in Made(Responder)'
      /\ \A q \in End : Made(q) \subseteq Made(q)'
  BY <1>0, <1>3, <1>k, Anew
<1>8. /\ keyed'[Initiator] = keyed[Initiator]
      /\ keyed'[Responder] = Append(keyed[Responder], k) /\ keyed[Responder] \in Seq(Id)
      /\ k \in Id /\ In(keyed'[Responder]) = In(keyed[Responder]) \cup {k}
  <2>1. keyed[Responder] \in Seq(Id) /\ k \in Id
    BY <1>0, <1>k, EntryTyped DEF VoiceTypeOK
  <2>2. In(Append(keyed[Responder], k)) = In(keyed[Responder]) \cup {k}
    BY <2>1, Elements
  <2> QED
    BY <1>0, <1>3, <2>1, <2>2 DEF VoiceTypeOK
<1> HIDE DEF r
<1>9. Sources'
  <2>1. ASSUME NEW q \in End
        PROVE  /\ relay'[q].epoch \in Made(Initiator)' \cup {Nil}
               /\ relay'[q].key \in Made(q)' \cup {Nil}
    BY <1>0, <1>6, <1>7 DEF Sources, r
  <2>2. ASSUME NEW q \in End
        PROVE  /\ In(keyed'[q]) \subseteq Made(q)'
               /\ \A s \in In(signals'[q]) :
                    /\ s.kind = "offer" => s.tag \in Made(Initiator)' /\ s.key # Nil
                    /\ s.kind = "answer" => s.key # Nil
    BY <1>0, <1>4, <1>5, <1>7, <1>8 DEF Sources
  <2>3. ASSUME NEW q \in End, NEW u \in tasks'[q]
        PROVE  /\ u.kind \in {"offer", "answer"} => u.tag \in Made(Initiator)'
               /\ u.kind \in {"answer", "session"} => u.key # Nil
    BY <1>0, <1>6, <1>7, <1>u DEF Sources
  <2>4. /\ \A u \in tasks'[Initiator] : u.kind # "answer"
        /\ \A u \in tasks'[Responder] : u.kind \notin {"offer", "session"}
    BY <1>6, <1>u DEF Sources
  <2> QED
    BY <2>1, <2>2, <2>3, <2>4 DEF Sources
<1>10. \A e : Unsent(e) => Unsent(e)'
  BY <1>5, <1>6, <1>u DEF Unsent, r
<1>11. Turns'
  <2>1. SUFFICES ASSUME NEW q \in End, NEW u \in tasks'[q]
                 PROVE  /\ u.generation <= relay'[q].generation
                        /\ u.generation = relay'[q].generation => Turn(q, u)'
                        /\ \A s \in tasks'[q] :
                             Opens(s) /\ Opens(u) /\ s.generation = u.generation => s = u
    BY DEF Turns
  <2>2. CASE q = Initiator
    <3>1. /\ u.generation <= relay[q].generation
          /\ u.generation = relay[q].generation => Turn(q, u)
          /\ \A s \in tasks[q] :
               Opens(s) /\ Opens(u) /\ s.generation = u.generation => s = u
      BY <1>6, <2>2 DEF Turns
    <3> QED
      BY <1>6, <1>10, <2>2, <3>1 DEF Turn
  <2>3. CASE q = Responder /\ u # u0
    <3>1. /\ u \in tasks[q] /\ u # t /\ u.generation <= relay[q].generation
          /\ u.generation = relay[q].generation => Turn(q, u)
          /\ \A s \in tasks[q] :
               Opens(s) /\ Opens(u) /\ s.generation = u.generation => s = u
      BY <1>6, <2>3 DEF Turns
    <3>2. u.kind \notin {"offer", "session"}
      BY <2>3, <3>1 DEF Sources
    <3>3. u.generation = relay[q].generation => u.kind # "answer"
      BY <1>1, <2>3, <3>1 DEF Opens
    <3>4. u.generation = relay'[q].generation => Turn(q, u)'
      BY <1>2, <1>6, <1>7, <2>3, <3>2, <3>3 DEF Turn, r
    <3> QED
      BY <1>6, <1>u, <2>3, <3>1, <3>4 DEF Opens, r
  <2>4. CASE q = Responder /\ u = u0
    <3>1. t.generation <= relay[Responder].generation
      BY <1>0, <1>1 DEF Turns
    <3>2. Turn(q, u)'
      BY <1>2, <1>6, <1>7, <1>u, <2>4 DEF Turn
    <3> QED
      BY <1>6, <1>u, <2>4, <3>1, <3>2 DEF Opens, r
  <2> QED
    BY <1>0, <2>2, <2>3, <2>4
<1>12. Up'
  <2>1. SUFFICES ASSUME NEW q \in End
                 PROVE  LET o == relay'[q]
                        IN /\ o.phase = "active" => o.key # Nil /\ o.crypto # Nil /\ o.epoch # Nil
                           /\ o.phase = "offering" => o.epoch # Nil
                           /\ o.exposed => o.phase = "active"
    BY DEF Up
  <2> QED
    BY <1>0, <1>2, <1>6 DEF Up
<1>13. Epochs'
  BY <1>2, <1>5, <1>6, <1>u DEF Epochs
<1>14. Unused'
  BY <1>6, <1>8 DEF Unused
<1>15. KeysServeOneSession'
  <2>1. k \notin In(keyed[Responder])
    BY <1>0, <1>7 DEF Sources
  <2>2. \A x, y \in DOMAIN keyed'[Responder] :
          x # y => keyed'[Responder][x] # keyed'[Responder][y]
    <3>1. \A x, y \in DOMAIN keyed[Responder] : x # y => keyed[Responder][x] # keyed[Responder][y]
      BY <1>0 DEF KeysServeOneSession
    <3> QED
      BY <1>8, <2>1, <3>1, Distinct
  <2> QED
    BY <1>0, <1>8, <2>2 DEF KeysServeOneSession
<1>16. Agree'
  <2>1. ASSUME relay[Initiator].exposed, relay[Initiator].epoch = t.tag
        PROVE  t.key = relay[Initiator].key
    <3>1. relay[Initiator].key # Nil
      BY <1>0, <2>1 DEF Up
    <3> QED
      BY <1>1, <2>1, <3>1 DEF Epochs
  <2> QED
    BY <1>0, <1>2, <1>6, <2>1 DEF Agree
<1> QED
  BY <1>9, <1>11, <1>12, <1>13, <1>14, <1>15, <1>16

(* The initiator has its session, with a key that had none.                *)
LEMMA Derived ==
  ASSUME VoiceAssumption, VoiceTypeOK, VoiceTypeOK', Sessions, NEW p \in End, NEW t \in tasks[p],
         SessionMade(p, t), CurrentTask(p, t), relay[p].phase = "offering", relay[p].crypto = Nil
  PROVE  Sessions'
<1> USE DEF Sessions
<1>0. /\ Initiator \in End /\ Responder \in End /\ Initiator # Responder
      /\ \A q \in End : q = Initiator \/ q = Responder
      /\ Other(Initiator) = Responder /\ Other(Responder) = Initiator
  BY TheEnds
<1>1. /\ t.kind = "session" /\ p = Initiator /\ t.generation = relay[Initiator].generation
      /\ t \in tasks[Initiator]
  BY <1>0 DEF SessionMade, Sources, CurrentTask
<1> DEFINE i == relay[Initiator]
           u0 == [t EXCEPT !.kind = "activate"]
<1>2. /\ i.phase = "offering" /\ i.crypto = Nil /\ i.key # Nil /\ i.epoch # Nil /\ ~i.exposed
      /\ t.key # Nil
  BY <1>0, <1>1 DEF Turns, Turn, Up, Sources
<1>3. /\ relay' = [relay EXCEPT ![Initiator].crypto = t.key]
      /\ tasks' = [tasks EXCEPT ![Initiator] = (tasks[Initiator] \ {t}) \cup {u0}]
      /\ UNCHANGED <<signals, fresh>>
      /\ keyed' = [keyed EXCEPT ![Initiator] = Append(keyed[Initiator], relay[Initiator].key)]
  BY <1>1 DEF SessionMade, CurrentTask
<1>u. u0.kind = "activate" /\ u0.generation = t.generation
  BY <1>0, <1>1, Generations DEF TaskSet
<1> HIDE DEF u0
<1>6. /\ relay'[Responder] = relay[Responder] /\ tasks'[Responder] = tasks[Responder]
      /\ tasks'[Initiator] = (tasks[Initiator] \ {t}) \cup {u0}
      /\ relay'[Initiator].phase = i.phase /\ relay'[Initiator].epoch = i.epoch
      /\ relay'[Initiator].key = i.key /\ relay'[Initiator].crypto = t.key
      /\ relay'[Initiator].exposed = i.exposed /\ relay'[Initiator].generation = i.generation
  <2>1. i \in Entry /\ relay'[Initiator] = [i EXCEPT !.crypto = t.key]
    BY <1>0, <1>3 DEF VoiceTypeOK
  <2> QED
    BY <1>0, <1>3, <2>1 DEF VoiceTypeOK, Entry
<1>7. \A q \in End : Made(q) = Made(q)' /\ In(signals'[q]) = In(signals[q])
  BY <1>3 DEF Made
<1>8. /\ keyed'[Responder] = keyed[Responder]
      /\ keyed'[Initiator] = Append(keyed[Initiator], i.key) /\ keyed[Initiator] \in Seq(Id)
      /\ i.key \in Id /\ In(keyed'[Initiator]) = In(keyed[Initiator]) \cup {i.key}
  <2>1. keyed[Initiator] \in Seq(Id) /\ i.key \in Id
    BY <1>0 DEF VoiceTypeOK, Entry
  <2>2. In(Append(keyed[Initiator], i.key)) = In(keyed[Initiator]) \cup {i.key}
    BY <2>1, Elements
  <2> QED
    BY <1>0, <1>3, <2>1, <2>2 DEF VoiceTypeOK
<1> HIDE DEF i
<1>9. Sources'
  <2>1. ASSUME NEW q \in End
        PROVE  /\ relay'[q].epoch \in Made(Initiator)' \cup {Nil}
               /\ relay'[q].key \in Made(q)' \cup {Nil}
    BY <1>0, <1>6, <1>7 DEF Sources, i
  <2>2. ASSUME NEW q \in End
        PROVE  /\ In(keyed'[q]) \subseteq Made(q)'
               /\ \A s \in In(signals'[q]) :
                    /\ s.kind = "offer" => s.tag \in Made(Initiator)' /\ s.key # Nil
                    /\ s.kind = "answer" => s.key # Nil
    BY <1>0, <1>2, <1>7, <1>8 DEF Sources, i
  <2>3. ASSUME NEW q \in End, NEW u \in tasks'[q]
        PROVE  /\ u.kind \in {"offer", "answer"} => u.tag \in Made(Initiator)'
               /\ u.kind \in {"answer", "session"} => u.key # Nil
    BY <1>0, <1>6, <1>7, <1>u DEF Sources
  <2>4. /\ \A u \in tasks'[Initiator] : u.kind # "answer"
        /\ \A u \in tasks'[Responder] : u.kind \notin {"offer", "session"}
    BY <1>6, <1>u DEF Sources
  <2> QED
    BY <2>1, <2>2, <2>3, <2>4 DEF Sources
<1>10. Turns'
  <2>1. SUFFICES ASSUME NEW q \in End, NEW u \in tasks'[q]
                 PROVE  /\ u.generation <= relay'[q].generation
                        /\ u.generation = relay'[q].generation => Turn(q, u)'
                        /\ \A s \in tasks'[q] :
                             Opens(s) /\ Opens(u) /\ s.generation = u.generation => s = u
    BY DEF Turns
  <2>2. CASE q = Responder
    <3>1. /\ u \in tasks[q] /\ u.generation <= relay[q].generation
          /\ u.generation = relay[q].generation => Turn(q, u)
          /\ \A s \in tasks[q] :
               Opens(s) /\ Opens(u) /\ s.generation = u.generation => s = u
      BY <1>6, <2>2 DEF Turns
    <3>2. u.kind # "offer"
      BY <2>2, <3>1 DEF Sources
    <3> QED
      BY <1>6, <2>2, <3>1, <3>2 DEF Turn
  <2>3. CASE q = Initiator /\ u # u0
    <3>1. /\ u \in tasks[q] /\ u # t /\ u.generation <= relay[q].generation
          /\ u.generation = relay[q].generation => Turn(q, u)
          /\ \A s \in tasks[q] :
               Opens(s) /\ Opens(u) /\ s.generation = u.generation => s = u
      BY <1>6, <2>3 DEF Turns
    <3>2. u.kind # "answer"
      BY <2>3, <3>1 DEF Sources
    <3>3. u.generation = relay[q].generation => u.kind # "offer"
      BY <1>2, <2>3, <3>1 DEF Turn, i
    <3>4. u.generation = relay'[q].generation => Turn(q, u)'
      BY <1>2, <1>6, <2>3, <3>2, <3>3 DEF Turn, i
    <3> QED
      BY <1>6, <1>u, <2>3, <3>1, <3>4 DEF Opens, i
  <2>4. CASE q = Initiator /\ u = u0
    <3>1. t.generation <= relay[Initiator].generation
      BY <1>0, <1>1 DEF Turns
    <3>2. Turn(q, u)'
      BY <1>2, <1>6, <1>u, <2>4 DEF Turn
    <3> QED
      BY <1>6, <1>u, <2>4, <3>1, <3>2 DEF Opens, i
  <2> QED
    BY <1>0, <2>2, <2>3, <2>4
<1>11. Up'
  <2>1. SUFFICES ASSUME NEW q \in End
                 PROVE  LET o == relay'[q]
                        IN /\ o.phase = "active" => o.key # Nil /\ o.crypto # Nil /\ o.epoch # Nil
                           /\ o.phase = "offering" => o.epoch # Nil
                           /\ o.exposed => o.phase = "active"
    BY DEF Up
  <2> QED
    BY <1>0, <1>2, <1>6 DEF Up
<1>12. Epochs'
  BY <1>0, <1>2, <1>6, <1>7 DEF Epochs, i
<1>13. Unused'
  BY <1>2, <1>6 DEF Unused
<1>14. KeysServeOneSession'
  <2>1. i.key \notin In(keyed[Initiator])
    BY <1>2 DEF Unused, i
  <2>2. \A x, y \in DOMAIN keyed'[Initiator] :
          x # y => keyed'[Initiator][x] # keyed'[Initiator][y]
    <3>1. \A x, y \in DOMAIN keyed[Initiator] : x # y => keyed[Initiator][x] # keyed[Initiator][y]
      BY <1>0 DEF KeysServeOneSession
    <3> QED
      <4>1. PICK k \in Id : k = i.key
        BY <1>8
      <4>2. k \notin In(keyed[Initiator]) /\ keyed[Initiator] \in Seq(Id)
        BY <1>8, <2>1, <4>1
      <4>3. \A x, y \in DOMAIN Append(keyed[Initiator], k) :
              x # y => Append(keyed[Initiator], k)[x] # Append(keyed[Initiator], k)[y]
        BY <3>1, <4>2, Distinct
      <4> QED
        BY <1>8, <4>1, <4>3
  <2> QED
    BY <1>0, <1>8, <2>2 DEF KeysServeOneSession
<1>15. Agree'
  <2>1. ~(relay[Responder].exposed /\ relay[Responder].epoch = i.epoch)
    BY <1>2 DEF Epochs, i
  <2> QED
    BY <1>0, <1>2, <1>6, <2>1 DEF Agree
<1> QED
  BY <1>9, <1>10, <1>11, <1>12, <1>13, <1>14, <1>15

(* The codecs are up, for the session the task was started with.           *)
LEMMA Activation ==
  ASSUME VoiceAssumption, VoiceTypeOK, VoiceTypeOK', Sessions, NEW p \in End, NEW t \in tasks[p],
         Activated(p, t), CurrentTask(p, t)
  PROVE  Sessions'
<1> USE DEF Sessions
<1>0. /\ Initiator \in End /\ Responder \in End /\ Initiator # Responder
      /\ \A q \in End : q = Initiator \/ q = Responder
      /\ Other(Initiator) = Responder /\ Other(Responder) = Initiator
  BY TheEnds
<1>1. t.kind = "activate" /\ t.generation = relay[p].generation
  BY DEF Activated, CurrentTask
<1>2. relay[p].key # Nil /\ relay[p].crypto # Nil /\ relay[p].epoch # Nil
  BY <1>1 DEF Turns, Turn
<1>3. /\ relay' = [relay EXCEPT ![p] = [relay[p] EXCEPT !.phase = "active", !.armed = TRUE]]
      /\ tasks' = [tasks EXCEPT ![p] = tasks[p] \ {t}] /\ UNCHANGED <<signals, fresh, keyed>>
  BY DEF Activated, CurrentTask
<1>4. \A q \in End :
        /\ tasks'[q] \subseteq tasks[q]
        /\ relay'[q].epoch = relay[q].epoch /\ relay'[q].key = relay[q].key
        /\ relay'[q].crypto = relay[q].crypto /\ relay'[q].exposed = relay[q].exposed
        /\ relay'[q].generation = relay[q].generation
        /\ relay'[q].phase = IF q = p THEN "active" ELSE relay[q].phase
  <2>1. SUFFICES ASSUME NEW q \in End
                 PROVE  /\ tasks'[q] \subseteq tasks[q]
                        /\ relay'[q].epoch = relay[q].epoch /\ relay'[q].key = relay[q].key
                        /\ relay'[q].crypto = relay[q].crypto /\ relay'[q].exposed = relay[q].exposed
                        /\ relay'[q].generation = relay[q].generation
                        /\ relay'[q].phase = IF q = p THEN "active" ELSE relay[q].phase
    OBVIOUS
  <2>2. relay[q] \in Entry /\ DOMAIN relay = End /\ DOMAIN tasks = End
    BY DEF VoiceTypeOK
  <2>3. CASE q = p
    BY <1>3, <2>2, <2>3 DEF Entry
  <2>4. CASE q # p
    BY <1>3, <2>2, <2>4
  <2> QED
    BY <2>3, <2>4
<1>5. \A q \in End : Made(q) = Made(q)' /\ In(signals'[q]) = In(signals[q])
  BY <1>3 DEF Made
<1>6. Sources'
  BY <1>0, <1>3, <1>4, <1>5 DEF Sources
<1>7. \A e : Unsent(e) => Unsent(e)'
  BY <1>0, <1>4, <1>5 DEF Unsent
<1>8. Turns'
  <2>1. SUFFICES ASSUME NEW q \in End, NEW u \in tasks'[q]
                 PROVE  /\ u.generation <= relay'[q].generation
                        /\ u.generation = relay'[q].generation => Turn(q, u)'
                        /\ \A s \in tasks'[q] :
                             Opens(s) /\ Opens(u) /\ s.generation = u.generation => s = u
    BY DEF Turns
  <2>2. /\ u \in tasks[q] /\ u.generation <= relay[q].generation
        /\ u.generation = relay[q].generation => Turn(q, u)
        /\ \A s \in tasks[q] :
             Opens(s) /\ Opens(u) /\ s.generation = u.generation => s = u
    BY <1>4 DEF Turns
  <2>3. ASSUME Turn(q, u)
        PROVE  Turn(q, u)'
    <3>1. CASE q = p
      <4>1. u.kind # "offer" /\ u.kind # "answer"
        BY <1>2, <2>3, <3>1 DEF Turn
      <4> QED
        BY <1>4, <2>3, <4>1 DEF Turn
    <3>2. CASE q # p
      BY <1>4, <1>7, <2>3, <3>2 DEF Turn
    <3> QED
      BY <3>1, <3>2
  <2> QED
    BY <1>4, <2>2, <2>3
<1>9. Up'
  <2>1. SUFFICES ASSUME NEW q \in End
                 PROVE  LET o == relay'[q]
                        IN /\ o.phase = "active" => o.key # Nil /\ o.crypto # Nil /\ o.epoch # Nil
                           /\ o.phase = "offering" => o.epoch # Nil
                           /\ o.exposed => o.phase = "active"
    BY DEF Up
  <2> QED
    BY <1>2, <1>4 DEF Up
<1>10. Epochs'
  <2>1. relay'[Initiator].phase = "offering" => relay[Initiator].phase = "offering"
    BY <1>0, <1>4
  <2> QED
    BY <1>0, <1>4, <1>5, <2>1 DEF Epochs
<1>11. Unused' /\ KeysServeOneSession'
  <2>1. relay'[Initiator].phase = "offering" => relay[Initiator].phase = "offering"
    BY <1>0, <1>4
  <2> QED
    BY <1>0, <1>3, <1>4, <2>1 DEF Unused, KeysServeOneSession
<1>12. Agree'
  BY <1>0, <1>4 DEF Agree
<1> QED
  BY <1>6, <1>8, <1>9, <1>10, <1>11, <1>12

(* A packet authenticates: both ends hold each other's keys.               *)
LEMMA Heard ==
  ASSUME VoiceAssumption, VoiceTypeOK, VoiceTypeOK', Sessions, NEW p \in End, Hear(p), Authentic(p)
  PROVE  Sessions'
<1> USE DEF Sessions
<1>0. /\ Initiator \in End /\ Responder \in End /\ Initiator # Responder
      /\ \A q \in End : q = Initiator \/ q = Responder
      /\ Other(Initiator) = Responder /\ Other(Responder) = Initiator
  BY TheEnds
<1>1. /\ relay[p].phase = "active" /\ relay[p].crypto = relay[Other(p)].key
      /\ relay[Other(p)].crypto = relay[p].key
  BY DEF Hear, CanHear, Authentic
<1>2. relay[p].key # Nil /\ relay[p].crypto # Nil /\ relay[p].epoch # Nil
  BY <1>1 DEF Up
<1>3. /\ relay' = [relay EXCEPT ![p] = [relay[p] EXCEPT !.exposed = TRUE, !.armed = FALSE]]
      /\ UNCHANGED <<tasks, signals, fresh, keyed>>
  BY DEF Hear
<1>4. \A q \in End :
        /\ relay'[q].epoch = relay[q].epoch /\ relay'[q].key = relay[q].key
        /\ relay'[q].crypto = relay[q].crypto /\ relay'[q].phase = relay[q].phase
        /\ relay'[q].generation = relay[q].generation
        /\ relay'[q].exposed = IF q = p THEN TRUE ELSE relay[q].exposed
  <2>1. SUFFICES ASSUME NEW q \in End
                 PROVE  /\ relay'[q].epoch = relay[q].epoch /\ relay'[q].key = relay[q].key
                        /\ relay'[q].crypto = relay[q].crypto /\ relay'[q].phase = relay[q].phase
                        /\ relay'[q].generation = relay[q].generation
                        /\ relay'[q].exposed = IF q = p THEN TRUE ELSE relay[q].exposed
    OBVIOUS
  <2>2. relay[q] \in Entry /\ DOMAIN relay = End
    BY DEF VoiceTypeOK
  <2>3. CASE q = p
    BY <1>3, <2>2, <2>3 DEF Entry
  <2>4. CASE q # p
    BY <1>3, <2>2, <2>4
  <2> QED
    BY <2>3, <2>4
<1>5. Sources'
  BY <1>0, <1>3, <1>4 DEF Sources, Made
<1>6. Turns'
  BY <1>0, <1>3, <1>4 DEF Turns, Turn, Unsent
<1>7. Up'
  <2>1. SUFFICES ASSUME NEW q \in End
                 PROVE  LET o == relay'[q]
                        IN /\ o.phase = "active" => o.key # Nil /\ o.crypto # Nil /\ o.epoch # Nil
                           /\ o.phase = "offering" => o.epoch # Nil
                           /\ o.exposed => o.phase = "active"
    BY DEF Up
  <2> QED
    BY <1>1, <1>4 DEF Up
<1>8. Epochs'
  <2>1. relay'[Responder].exposed => relay[Responder].exposed \/ relay[Initiator].crypto # Nil
    BY <1>0, <1>1, <1>2, <1>4
  <2> QED
    BY <1>0, <1>3, <1>4, <2>1 DEF Epochs
<1>9. Unused' /\ KeysServeOneSession'
  BY <1>0, <1>3, <1>4 DEF Unused, KeysServeOneSession
<1>10. Agree'
  <2>1. SUFFICES ASSUME NEW q \in End, relay'[q].exposed, relay'[Other(q)].crypto # Nil,
                        relay'[q].epoch = relay'[Other(q)].epoch
                 PROVE  relay'[Other(q)].crypto = relay'[q].key
    BY DEF Agree
  <2>2. CASE q = p
    BY <1>0, <1>1, <1>4, <2>1, <2>2
  <2>3. CASE q # p
    BY <1>0, <1>4, <2>1, <2>3 DEF Agree
  <2> QED
    BY <2>2, <2>3
<1> QED
  BY <1>5, <1>6, <1>7, <1>8, <1>9, <1>10

(* A taken signal leaves the others.                                       *)
LEMMA Rest ==
  ASSUME VoiceTypeOK, NEW p \in End, signals[p] # <<>>
  PROVE  /\ Head(signals[p]) \in In(signals[p]) /\ Head(signals[p]) \in SignalSet
         /\ \A q \in End : In(Received(p)[q]) \subseteq In(signals[q])
         /\ Received(p) \in [End -> Seq(SignalSet)]
<1>1. signals \in [End -> Seq(SignalSet)]
  BY DEF VoiceTypeOK
<1>2. \A q \in End : In(Received(p)[q]) \subseteq In(signals[q])
  BY <1>1, Taken DEF Received
<1>3. Head(signals[p]) \in In(signals[p])
  BY <1>1, Taken
<1>4. Head(signals[p]) \in SignalSet /\ Tail(signals[p]) \in Seq(SignalSet)
  BY <1>1
<1>5. Received(p) \in [End -> Seq(SignalSet)]
  BY <1>1, <1>4 DEF Received
<1> QED
  BY <1>2, <1>3, <1>4, <1>5

(* Nothing of an entry changed.                                            *)
LEMMA Itself ==
  ASSUME VoiceTypeOK, NEW p \in End
  PROVE  relay = [relay EXCEPT ![p] = relay[p]] /\ Same(relay[p], relay[p])
BY DEF VoiceTypeOK, Same

(* removePeer ends a session.                                              *)
LEMMA Removing ==
  ASSUME VoiceTypeOK, NEW p \in End
  PROVE  Ended(Removed(relay[p]), relay[p])
<1>1. relay[p].generation \in Nat
  BY Generations
<1> QED
  BY <1>1 DEF Removed, Absent, Ended

(* The same, where neither tasks nor names change.                         *)
LEMMA Kept ==
  ASSUME VoiceAssumption, VoiceTypeOK, VoiceTypeOK', Sessions, NEW p \in End, NEW r,
         relay' = [relay EXCEPT ![p] = r], Same(r, relay[p]) \/ Ended(r, relay[p]),
         UNCHANGED <<tasks, fresh, keyed>>,
         \A q \in End : \A s \in In(signals'[q]) :
           s \in In(signals[q]) \/ s.kind \notin {"offer", "answer"}
  PROVE  Sessions'
<1>1. /\ \A q \in End : tasks'[q] \subseteq tasks[q]
      /\ \A q \in End : fresh[q] <= fresh'[q]
      /\ keyed' = keyed
  BY DEF VoiceTypeOK
<1> QED
  BY <1>1, Undisturbed

(* An offer the responder takes up: its epoch is one whose offer is out.   *)
LEMMA TakenUp ==
  ASSUME VoiceAssumption, VoiceTypeOK, VoiceTypeOK', Sessions, NEW p \in End, OfferReceived(p)
  PROVE  Sessions'
<1> USE DEF Sessions
<1>0. /\ Initiator \in End /\ Responder \in End /\ Initiator # Responder
      /\ \A q \in End : q = Initiator \/ q = Responder
      /\ Other(Initiator) = Responder /\ Other(Responder) = Initiator
  BY TheEnds
<1>1. /\ p = Responder /\ signals[p] # <<>> /\ Head(signals[p]).kind = "offer"
      /\ signals' = Received(p) /\ UNCHANGED <<fresh, keyed>>
  BY DEF OfferReceived, Takes
<1>s. PICK s : s = Head(signals[p])
  OBVIOUS
<1>2. /\ s \in In(signals[Responder]) /\ s.kind = "offer" /\ s \in SignalSet
      /\ \A q \in End : In(signals'[q]) \subseteq In(signals[q])
  BY <1>1, <1>s, Rest
<1>3. s.tag \in Made(Initiator) /\ s.key # Nil /\ s.tag # Nil /\ s.tag \in Id /\ s.key \in Id
  BY <1>0, <1>2, Anew DEF Sources, SignalSet
<1> DEFINE w == Wanted(relay[p])
           r == [ResetMedia(w) EXCEPT !.generation = w.generation + 1,
                                      !.phase = "answering", !.epoch = s.tag]
           t0 == Task("answer", r, s.tag, s.key)
           g == relay[Responder].generation + 1
<1>4. CASE UNCHANGED <<relay, tasks>>
  <2>1. PICK o : o = relay[p]
    OBVIOUS
  <2>2. relay' = [relay EXCEPT ![p] = o] /\ Same(o, relay[p])
    BY <1>4, <2>1, Itself
  <2>3. UNCHANGED <<tasks, fresh, keyed>>
    BY <1>1, <1>4
  <2>4. \A q \in End : \A u \in In(signals'[q]) :
          u \in In(signals[q]) \/ u.kind \notin {"offer", "answer"}
    BY <1>2
  <2> QED
    BY <2>2, <2>3, <2>4, Kept
<1>5. CASE relay' = [relay EXCEPT ![p] = r] /\ tasks' = [tasks EXCEPT ![p] = tasks[p] \cup {t0}]
  <2>1. /\ r.phase = "answering" /\ r.epoch = s.tag /\ r.key = Nil /\ r.crypto = Nil
        /\ r.exposed = FALSE /\ r.generation = g
    <3>1. relay[p] \in Entry /\ p = Responder
      BY <1>1 DEF VoiceTypeOK
    <3> QED
      BY <3>1 DEF ResetMedia, Wanted, Entry
  <2>2. t0.kind = "answer" /\ t0.tag = s.tag /\ t0.key = s.key /\ t0.generation = g
    BY <2>1 DEF Task
  <2>3. /\ relay'[Responder] = r /\ relay'[Initiator] = relay[Initiator]
        /\ tasks'[Responder] = tasks[Responder] \cup {t0} /\ tasks'[Initiator] = tasks[Initiator]
    BY <1>0, <1>1, <1>5 DEF VoiceTypeOK
  <2>4. g > relay[Responder].generation /\ g \in Nat /\ \A t \in tasks[Responder] : t.generation < g
    <3>1. \A t \in tasks[Responder] : t.generation <= relay[Responder].generation
      BY <1>0 DEF Turns
    <3> QED
      BY <1>0, <3>1, Generations
  <2>5. \A q \in End : Made(q) = Made(q)'
    BY <1>1 DEF Made
  <2> HIDE DEF r, t0, g
  <2>6. Sources'
    <3>1. ASSUME NEW q \in End
          PROVE  /\ relay'[q].epoch \in Made(Initiator)' \cup {Nil}
                 /\ relay'[q].key \in Made(q)' \cup {Nil}
      BY <1>0, <1>3, <2>1, <2>3, <2>5 DEF Sources
    <3>2. ASSUME NEW q \in End
          PROVE  /\ In(keyed'[q]) \subseteq Made(q)'
                 /\ \A u \in In(signals'[q]) :
                      /\ u.kind = "offer" => u.tag \in Made(Initiator)' /\ u.key # Nil
                      /\ u.kind = "answer" => u.key # Nil
      BY <1>0, <1>1, <1>2, <2>5 DEF Sources
    <3>3. ASSUME NEW q \in End, NEW t \in tasks'[q]
          PROVE  /\ t.kind \in {"offer", "answer"} => t.tag \in Made(Initiator)'
                 /\ t.kind \in {"answer", "session"} => t.key # Nil
      BY <1>0, <1>3, <2>2, <2>3, <2>5 DEF Sources
    <3>4. /\ \A t \in tasks'[Initiator] : t.kind # "answer"
          /\ \A t \in tasks'[Responder] : t.kind \notin {"offer", "session"}
      BY <2>2, <2>3 DEF Sources
    <3> QED
      BY <3>1, <3>2, <3>3, <3>4 DEF Sources
  <2>7. \A e : Unsent(e) => Unsent(e)'
    <3>1. \A e : Unsent(e) => e # s.tag
      BY <1>2 DEF Unsent
    <3> QED
      BY <1>0, <1>2, <2>1, <2>2, <2>3, <3>1 DEF Unsent
  <2>8. Turns'
    <3>1. SUFFICES ASSUME NEW q \in End, NEW t \in tasks'[q]
                   PROVE  /\ t.generation <= relay'[q].generation
                          /\ t.generation = relay'[q].generation => Turn(q, t)'
                          /\ \A u \in tasks'[q] :
                               Opens(u) /\ Opens(t) /\ u.generation = t.generation => u = t
      BY DEF Turns
    <3>2. CASE q = Initiator
      <4>1. /\ t.generation <= relay[q].generation
            /\ t.generation = relay[q].generation => Turn(q, t)
            /\ \A u \in tasks[q] :
                 Opens(u) /\ Opens(t) /\ u.generation = t.generation => u = t
        BY <2>3, <3>2 DEF Turns
      <4> QED
        BY <2>3, <2>7, <3>2, <4>1 DEF Turn
    <3>3. CASE q = Responder /\ t \in tasks[Responder] /\ t # t0
      <4>1. \A u \in tasks[Responder] :
              Opens(u) /\ Opens(t) /\ u.generation = t.generation => u = t
        BY <1>0, <3>3 DEF Turns
      <4>2. t.generation < g /\ t.generation \in Nat
        BY <1>0, <2>4, <3>3, Generations
      <4> QED
        BY <2>1, <2>2, <2>3, <2>4, <3>3, <4>1, <4>2
    <3>4. CASE q = Responder /\ t = t0
      <4>1. \A u \in tasks[Responder] : u.generation # g
        BY <1>0, <2>4, Generations
      <4>2. Turn(q, t)'
        BY <2>1, <2>2, <2>3, <3>4 DEF Turn
      <4> QED
        BY <2>1, <2>2, <2>3, <2>4, <3>4, <4>1, <4>2
    <3> QED
      BY <1>0, <2>3, <3>2, <3>3, <3>4
  <2>9. Up'
    <3>1. SUFFICES ASSUME NEW q \in End
                   PROVE  LET o == relay'[q]
                          IN /\ o.phase = "active" => o.key # Nil /\ o.crypto # Nil /\ o.epoch # Nil
                             /\ o.phase = "offering" => o.epoch # Nil
                             /\ o.exposed => o.phase = "active"
      BY DEF Up
    <3> QED
      BY <1>0, <2>1, <2>3 DEF Up
  <2>10. Epochs'
    BY <1>0, <1>2, <2>1, <2>2, <2>3 DEF Epochs
  <2>11. Unused' /\ KeysServeOneSession'
    BY <1>1, <2>3 DEF Unused, KeysServeOneSession
  <2>12. Agree'
    BY <1>0, <2>1, <2>3 DEF Agree
  <2> QED
    BY <2>6, <2>8, <2>9, <2>10, <2>11, <2>12
<1> QED
  <2>1. \/ UNCHANGED <<relay, tasks>>
        \/ /\ relay' = [relay EXCEPT ![p] = r]
           /\ tasks' = [tasks EXCEPT ![p] = tasks[p] \cup {t0}]
    BY <1>s DEF OfferReceived
  <2> QED
    BY <1>4, <1>5, <2>1

(* An answer taken: another derivation begins, and nothing else changes.   *)
LEMMA Deriving ==
  ASSUME VoiceAssumption, VoiceTypeOK, VoiceTypeOK', Sessions, NEW p \in End, AnswerReceived(p)
  PROVE  Sessions'
<1> USE DEF Sessions
<1>0. /\ Initiator \in End /\ Responder \in End /\ Initiator # Responder
      /\ \A q \in End : q = Initiator \/ q = Responder
      /\ Other(Initiator) = Responder /\ Other(Responder) = Initiator
  BY TheEnds
<1>1. /\ p = Initiator /\ signals[p] # <<>> /\ Head(signals[p]).kind = "answer"
      /\ signals' = Received(p) /\ UNCHANGED <<fresh, keyed>>
      /\ relay' = [relay EXCEPT ![p] = Wanted(relay[p])]
  BY DEF AnswerReceived, Takes
<1>s. PICK s : s = Head(signals[p])
  OBVIOUS
<1>2. /\ s \in In(signals[Initiator]) /\ s.kind = "answer" /\ s \in SignalSet /\ s.key # Nil
      /\ \A q \in End : In(signals'[q]) \subseteq In(signals[q])
  BY <1>0, <1>1, <1>s, Rest DEF Sources
<1>3. Same(Wanted(relay[p]), relay[p])
  <2>1. relay[p] \in Entry
    BY DEF VoiceTypeOK
  <2> QED
    BY <2>1 DEF Wanted, Same, Entry
<1>4. CASE tasks' = tasks
  <2>1. PICK o : o = Wanted(relay[p])
    OBVIOUS
  <2>2. relay' = [relay EXCEPT ![p] = o] /\ Same(o, relay[p])
    BY <1>1, <1>3, <2>1
  <2>3. UNCHANGED <<tasks, fresh, keyed>>
    BY <1>1, <1>4
  <2>4. \A q \in End : \A u \in In(signals'[q]) :
          u \in In(signals[q]) \/ u.kind \notin {"offer", "answer"}
    BY <1>2
  <2> QED
    BY <2>2, <2>3, <2>4, Kept
<1>5. CASE tasks' # tasks
  <2>1. PICK c \in Nat : c = Cardinality(tasks[p])
    BY FS_CardinalityType DEF VoiceTypeOK
  <2> DEFINE t0 == [Task("session", Wanted(relay[p]), s.tag, s.key) EXCEPT !.copy = c]
  <2>2. /\ tasks' = [tasks EXCEPT ![p] = tasks[p] \cup {t0}]
        /\ Wanted(relay[p]).key # Nil
    BY <1>5, <1>s, <2>1 DEF AnswerReceived
  <2>3. t0.kind = "session" /\ t0.key = s.key /\ t0.generation = relay[Initiator].generation
    <3>1. Wanted(relay[p]).generation = relay[p].generation
      BY <1>3 DEF Same
    <3> QED
      BY <1>1, <3>1 DEF Task
  <2> HIDE DEF t0
  <2>4. tasks'[Initiator] = tasks[Initiator] \cup {t0} /\ tasks'[Responder] = tasks[Responder]
    BY <1>0, <1>1, <2>2 DEF VoiceTypeOK
  <2>5. \A q \in End : Same(relay'[q], relay[q])
    BY <1>1, <1>3 DEF VoiceTypeOK, Same
  <2>6. \A q \in End : Made(q) = Made(q)'
    BY <1>1 DEF Made
  <2>7. Sources'
    <3>1. ASSUME NEW q \in End
          PROVE  /\ relay'[q].epoch \in Made(Initiator)' \cup {Nil}
                 /\ relay'[q].key \in Made(q)' \cup {Nil}
      BY <1>0, <2>5, <2>6 DEF Sources, Same
    <3>2. ASSUME NEW q \in End
          PROVE  /\ In(keyed'[q]) \subseteq Made(q)'
                 /\ \A u \in In(signals'[q]) :
                      /\ u.kind = "offer" => u.tag \in Made(Initiator)' /\ u.key # Nil
                      /\ u.kind = "answer" => u.key # Nil
      BY <1>0, <1>1, <1>2, <2>6 DEF Sources
    <3>3. ASSUME NEW q \in End, NEW t \in tasks'[q]
          PROVE  /\ t.kind \in {"offer", "answer"} => t.tag \in Made(Initiator)'
                 /\ t.kind \in {"answer", "session"} => t.key # Nil
      BY <1>0, <1>2, <2>3, <2>4, <2>6 DEF Sources
    <3>4. /\ \A t \in tasks'[Initiator] : t.kind # "answer"
          /\ \A t \in tasks'[Responder] : t.kind \notin {"offer", "session"}
      BY <2>3, <2>4 DEF Sources
    <3> QED
      BY <3>1, <3>2, <3>3, <3>4 DEF Sources
  <2>8. \A e : Unsent(e) => Unsent(e)'
    BY <1>0, <1>2, <2>4, <2>5 DEF Unsent, Same
  <2>9. Turns'
    <3>1. SUFFICES ASSUME NEW q \in End, NEW t \in tasks'[q]
                   PROVE  /\ t.generation <= relay'[q].generation
                          /\ t.generation = relay'[q].generation => Turn(q, t)'
                          /\ \A u \in tasks'[q] :
                               Opens(u) /\ Opens(t) /\ u.generation = t.generation => u = t
      BY DEF Turns
    <3>2. CASE t \in tasks[q]
      <4>1. /\ t.generation <= relay[q].generation
            /\ t.generation = relay[q].generation => Turn(q, t)
            /\ \A u \in tasks[q] :
                 Opens(u) /\ Opens(t) /\ u.generation = t.generation => u = t
        BY <3>2 DEF Turns
      <4>2. Turn(q, t) => Turn(q, t)'
        BY <2>5, <2>8 DEF Turn, Same
      <4>3. \A u \in tasks'[q] : u \in tasks[q] \/ u.kind = "session"
        BY <1>0, <2>3, <2>4
      <4> QED
        BY <2>5, <4>1, <4>2, <4>3 DEF Same, Opens
    <3>3. CASE t \notin tasks[q]
      <4>1. q = Initiator /\ t = t0
        BY <1>0, <2>4, <3>3
      <4>2. relay'[q].key # Nil
        BY <1>1, <2>2, <4>1 DEF VoiceTypeOK
      <4>3. Turn(q, t)'
        BY <2>3, <4>1, <4>2 DEF Turn
      <4>4. t.generation = relay'[q].generation /\ relay'[q].generation \in Nat
        BY <1>0, <2>3, <2>5, <4>1, Generations DEF Same
      <4> QED
        BY <2>3, <4>1, <4>3, <4>4 DEF Opens
    <3> QED
      BY <3>2, <3>3
  <2>10. Up'
    <3>1. SUFFICES ASSUME NEW q \in End
                   PROVE  LET o == relay'[q]
                          IN /\ o.phase = "active" => o.key # Nil /\ o.crypto # Nil /\ o.epoch # Nil
                             /\ o.phase = "offering" => o.epoch # Nil
                             /\ o.exposed => o.phase = "active"
      BY DEF Up
    <3> QED
      BY <2>5 DEF Up, Same
  <2>11. Epochs'
    BY <1>0, <1>2, <2>4, <2>5 DEF Epochs, Same
  <2>12. Unused' /\ KeysServeOneSession' /\ Agree'
    <3>1. Agree'
      BY <1>0, <2>5 DEF Agree, Same
    <3> QED
      BY <1>0, <1>1, <2>5, <3>1 DEF Unused, KeysServeOneSession, Same
  <2> QED
    BY <2>7, <2>9, <2>10, <2>11, <2>12
<1> QED
  BY <1>4, <1>5

(* A handshake of either end.                                              *)
LEMMA Shaken ==
  ASSUME VoiceAssumption, VoiceTypeOK, VoiceTypeOK', Sessions, NEW p \in End, NEW r \in Entry,
         Same(r, relay[p]), NEW queues \in [End -> Seq(SignalSet)], Handshake(p, r, queues),
         \A q \in End : In(queues[q]) \subseteq In(signals[q]), keyed' = keyed
  PROVE  Sessions'
<1>1. CASE p = Initiator
  <2>1. /\ relay' = [relay EXCEPT ![Initiator] = StartOffer(r)]
        /\ tasks' = [tasks EXCEPT ![Initiator] =
                       tasks[Initiator] \cup {Task("offer", StartOffer(r), StartOffer(r).epoch, Nil)}]
        /\ Make(Initiator) /\ signals' = queues
    BY <1>1 DEF Handshake
  <2>2. r.generation = relay[Initiator].generation
    BY <1>1 DEF Same
  <2> QED
    BY <2>1, <2>2, Started
<1>2. CASE p # Initiator
  <2>1. PICK s \in SignalSet : s = Signal("ready", Nil, Nil)
    BY SignalTyped DEF SignalKind, Id
  <2>2. s.kind = "ready"
    BY <2>1 DEF Signal
  <2>3. PICK o : o = [r EXCEPT !.armed = TRUE]
    OBVIOUS
  <2>4. /\ relay' = [relay EXCEPT ![p] = o] /\ signals' = Send(queues, p, s)
        /\ UNCHANGED <<tasks, fresh, keyed>>
    BY <1>2, <2>1, <2>3 DEF Handshake
  <2>5. Same(o, relay[p])
    BY <2>3 DEF Same, Entry
  <2>6. \A q \in End : \A x \in In(signals'[q]) :
          x \in In(signals[q]) \/ x.kind \notin {"offer", "answer"}
    <3>1. queues \in [End -> Seq(SignalSet)] /\ s \in SignalSet /\ p \in End
      OBVIOUS
    <3>2. \A q \in End : In(Send(queues, p, s)[q]) =
            IF q = Other(p) THEN In(queues[q]) \cup {s} ELSE In(queues[q])
      BY <3>1, Sent, Zenon
    <3>3. \A q \in End : \A x \in In(signals'[q]) : x \in In(signals[q]) \/ x = s
      BY <2>4, <3>2
    <3> QED
      BY <2>2, <3>3
  <2> QED
    BY <2>4, <2>5, <2>6, Kept
<1> QED
  BY <1>1, <1>2

-----------------------------------------------------------------------------
(* What an end receives keeps what is known of sessions.                   *)
LEMMA ReceiveKeeps ==
  ASSUME VoiceAssumption, VoiceTypeOK, VoiceTypeOK', Sessions, NEW p \in End, Receive(p)
  PROVE  Sessions'
<1>0. signals[p] # <<>>
  BY DEF Receive, StopReceived, ReadyReceived, OfferReceived, AnswerReceived, ProbeReceived,
         DirectReadyReceived, UnreadyReceived, Takes
<1>00. /\ \A q \in End : In(Received(p)[q]) \subseteq In(signals[q])
       /\ Received(p) \in [End -> Seq(SignalSet)] /\ Head(signals[p]) \in SignalSet
  BY <1>0, Rest
<1>r. PICK r : r = Removed(relay[p])
  OBVIOUS
<1>o. PICK o : o = relay[p]
  OBVIOUS
<1>e. /\ Ended(r, relay[p]) /\ Same(o, relay[p]) /\ relay = [relay EXCEPT ![p] = o]
  BY <1>r, <1>o, Removing, Itself
<1>1. CASE StopReceived(p)
  <2>1. relay' = [relay EXCEPT ![p] = r] \/ relay' = [relay EXCEPT ![p] = o]
    BY <1>1, <1>r, <1>e DEF StopReceived
  <2>2. UNCHANGED <<tasks, fresh, keyed>> /\ signals' = Received(p)
    BY <1>1 DEF StopReceived
  <2> QED
    BY <1>00, <1>e, <2>1, <2>2, Kept
<1>2. CASE ReadyReceived(p)
  <2>1. PICK w \in Entry : w = Wanted(relay[p])
    BY EntryTyped DEF VoiceTypeOK
  <2>2. Handshake(p, w, Received(p)) /\ keyed' = keyed
    BY <1>2, <2>1 DEF ReadyReceived
  <2>3. Same(w, relay[p])
    BY <2>1 DEF Same, Wanted, Entry, VoiceTypeOK
  <2> QED
    BY <1>00, <2>2, <2>3, Shaken
<1>3. CASE OfferReceived(p)
  BY <1>3, TakenUp
<1>4. CASE AnswerReceived(p)
  BY <1>4, Deriving
<1>5. CASE ProbeReceived(p)
  <2>1. PICK s \in SignalSet : s = Signal("direct-ready", Head(signals[p]).tag, Nil)
    BY <1>00, SignalTyped DEF SignalKind, Id, SignalSet
  <2>2. s.kind = "direct-ready"
    BY <2>1 DEF Signal
  <2>3. UNCHANGED <<relay, tasks, fresh, keyed>>
    BY <1>5 DEF ProbeReceived
  <2>4. signals' = Received(p) \/ signals' = Send(Received(p), p, s)
    BY <1>5, <2>1 DEF ProbeReceived
  <2>5. \A q \in End : In(Send(Received(p), p, s)[q]) \subseteq In(Received(p)[q]) \cup {s}
    <3>1. \A q \in End : In(Send(Received(p), p, s)[q]) =
            IF q = Other(p) THEN In(Received(p)[q]) \cup {s} ELSE In(Received(p)[q])
      BY <1>00, Sent, Zenon
    <3> QED
      BY <3>1
  <2>6. \A q \in End : \A x \in In(signals'[q]) :
          x \in In(signals[q]) \/ x.kind \notin {"offer", "answer"}
    BY <1>00, <2>2, <2>4, <2>5
  <2> QED
    BY <1>e, <2>3, <2>6, Kept
<1>6. CASE DirectReadyReceived(p)
  <2>1. PICK s \in SignalSet : s = Signal("stop", relay[p].epoch, Nil)
    BY SignalTyped DEF SignalKind, Id, SignalSet, Entry, VoiceTypeOK
  <2>2. s.kind = "stop"
    BY <2>1 DEF Signal
  <2>3. UNCHANGED <<tasks, fresh, keyed>>
    BY <1>6 DEF DirectReadyReceived
  <2>4. signals' = Received(p) \/ signals' = Send(Received(p), p, s)
    BY <1>6, <2>1 DEF DirectReadyReceived
  <2>5. relay' = [relay EXCEPT ![p] = r] \/ relay' = [relay EXCEPT ![p] = o]
    BY <1>6, <1>r, <1>e DEF DirectReadyReceived
  <2>6. \A q \in End : In(Send(Received(p), p, s)[q]) \subseteq In(Received(p)[q]) \cup {s}
    <3>1. \A q \in End : In(Send(Received(p), p, s)[q]) =
            IF q = Other(p) THEN In(Received(p)[q]) \cup {s} ELSE In(Received(p)[q])
      BY <1>00, Sent, Zenon
    <3> QED
      BY <3>1
  <2>7. \A q \in End : \A x \in In(signals'[q]) :
          x \in In(signals[q]) \/ x.kind \notin {"offer", "answer"}
    BY <1>00, <2>2, <2>4, <2>6
  <2> QED
    BY <1>e, <2>3, <2>5, <2>7, Kept
<1>7. CASE UnreadyReceived(p)
  <2>1. UNCHANGED <<relay, tasks, fresh, keyed>> /\ signals' = Received(p)
    BY <1>7 DEF UnreadyReceived
  <2> QED
    BY <1>00, <1>e, <2>1, Kept
<1> QED
  BY <1>1, <1>2, <1>3, <1>4, <1>5, <1>6, <1>7 DEF Receive

(* So does every continuation, the ones that come too late included.       *)
LEMMA ContinueKeeps ==
  ASSUME VoiceAssumption, VoiceTypeOK, VoiceTypeOK', Sessions, NEW p \in End, NEW t \in tasks[p],
         Continue(p, t)
  PROVE  Sessions'
<1>1. CASE UNCHANGED <<relay, signals, fresh, keyed>> /\ tasks' = [tasks EXCEPT ![p] = tasks[p] \ {t}]
  <2>1. PICK o : o = relay[p]
    OBVIOUS
  <2>2. relay' = [relay EXCEPT ![p] = o] /\ Same(o, relay[p])
    BY <1>1, <2>1, Itself
  <2>3. /\ keyed' = keyed /\ \A q \in End : tasks'[q] \subseteq tasks[q]
        /\ \A q \in End : fresh[q] <= fresh'[q]
        /\ \A q \in End : \A x \in In(signals'[q]) :
             x \in In(signals[q]) \/ x.kind \notin {"offer", "answer"}
    BY <1>1 DEF VoiceTypeOK
  <2> QED
    BY <2>2, <2>3, Undisturbed
<1>2. CASE OfferMade(p, t)
  BY <1>1, <1>2, Offered DEF OfferMade
<1>3. CASE AnswerMade(p, t)
  BY <1>1, <1>3, Answering DEF AnswerMade
<1>4. CASE SessionMade(p, t)
  BY <1>1, <1>4, Derived DEF SessionMade
<1>5. CASE Activated(p, t)
  BY <1>1, <1>5, Activation DEF Activated
<1> QED
  BY <1>2, <1>3, <1>4, <1>5 DEF Continue

(* And all the rest.                                                       *)
LEMMA SessionsStep ==
  ASSUME VoiceAssumption, VoiceTypeOK, VoiceTypeOK', Sessions, [VoiceNext]_voiceVars
  PROVE  Sessions'
<1>1. CASE UNCHANGED voiceVars
  BY <1>1 DEF voiceVars, Sessions, Sources, Made, Turns, Turn, Unsent, Up, Epochs, Unused,
              KeysServeOneSession, Agree
<1>2. CASE VoiceNext
  <2>0. PICK p \in End :
          \/ Receive(p) \/ (\E t \in tasks[p] : Continue(p, t))
          \/ StartRelay(p) \/ Hear(p) \/ HandshakeTimeout(p)
          \/ SocketLost(p) \/ SocketBack(p) \/ SocketUnavailable(p)
          \/ ConnectionUp(p) \/ ConnectionDown(p) \/ Stable(p) \/ LoseSignal(p)
          \/ RepeatSignal(p)
    BY <1>2 DEF VoiceNext
  <2>r. PICK r : r = Removed(relay[p])
    OBVIOUS
  <2>o. PICK o : o = relay[p]
    OBVIOUS
  <2>e. /\ Ended(r, relay[p]) /\ Same(o, relay[p]) /\ relay = [relay EXCEPT ![p] = o]
    BY <2>r, <2>o, Removing, Itself
  <2>t. relay[p] \in Entry /\ signals \in [End -> Seq(SignalSet)]
    BY DEF VoiceTypeOK
  <2>1. CASE Receive(p) \/ (\E t \in tasks[p] : Continue(p, t))
    BY <2>1, ReceiveKeeps, ContinueKeeps
  <2>2. CASE StartRelay(p)
    <3>1. CASE relay[p].wanted
      BY <2>2, <2>e, <3>1, Kept DEF StartRelay
    <3>2. CASE ~relay[p].wanted
      <4>1. PICK w \in Entry : w = Wanted(relay[p])
        BY <2>t, EntryTyped
      <4>2. Same(w, relay[p])
        BY <2>t, <4>1 DEF Same, Wanted, Entry
      <4>3. Handshake(p, w, signals) /\ keyed' = keyed
        BY <2>2, <3>2, <4>1 DEF StartRelay
      <4> QED
        BY <2>t, <4>2, <4>3, Shaken
    <3> QED
      BY <3>1, <3>2
  <2>3. CASE Hear(p)
    <3>1. CASE Authentic(p)
      BY <2>3, <3>1, Heard
    <3>2. CASE ~Authentic(p)
      <4>1. relay' = [relay EXCEPT ![p] = r] /\ UNCHANGED <<tasks, signals, fresh, keyed>>
        BY <2>3, <2>r, <3>2 DEF Hear
      <4> QED
        BY <2>e, <4>1, Kept
    <3> QED
      BY <3>1, <3>2
  <2>4. CASE HandshakeTimeout(p)
    <3>1. CASE relay[p].phase = "active" \/ relay[p].attempts >= MaxTries
      <4>1. relay' = [relay EXCEPT ![p] = r] /\ UNCHANGED <<tasks, signals, fresh, keyed>>
        BY <2>4, <2>r, <3>1 DEF HandshakeTimeout
      <4> QED
        BY <2>e, <4>1, Kept
    <3>2. CASE ~(relay[p].phase = "active" \/ relay[p].attempts >= MaxTries)
      <4>1. relay[p].attempts + 1 \in 0 .. MaxTries
        BY <2>t, <3>2 DEF Entry, VoiceAssumption
      <4>2. PICK w \in Entry : w = [relay[p] EXCEPT !.attempts = @ + 1, !.armed = FALSE]
        BY <2>t, <4>1 DEF Entry
      <4>3. Same(w, relay[p])
        BY <2>t, <4>2 DEF Same, Entry
      <4>4. Handshake(p, w, signals) /\ keyed' = keyed
        BY <2>4, <3>2, <4>2 DEF HandshakeTimeout
      <4> QED
        BY <2>t, <4>3, <4>4, Shaken
    <3> QED
      BY <3>1, <3>2
  <2>5. CASE SocketLost(p)
    <3>1. PICK w : w = [ResetMedia(relay[p]) EXCEPT !.generation = relay[p].generation + 1,
                                                    !.attempts = 0, !.reconnecting = TRUE]
      OBVIOUS
    <3>2. relay[p].generation \in Nat
      BY Generations
    <3>3. Ended(w, relay[p])
      BY <2>t, <3>1, <3>2 DEF Ended, ResetMedia, Entry
    <3>4. relay' = [relay EXCEPT ![p] = w] /\ UNCHANGED <<tasks, signals, fresh, keyed>>
      BY <2>5, <3>1 DEF SocketLost
    <3> QED
      BY <3>3, <3>4, Kept
  <2>6. CASE SocketBack(p)
    <3>1. PICK w \in Entry : w = [relay[p] EXCEPT !.reconnecting = FALSE]
      BY <2>t DEF Entry
    <3>2. Same(w, relay[p])
      BY <2>t, <3>1 DEF Same, Entry
    <3>3. Handshake(p, w, signals) /\ keyed' = keyed
      BY <2>6, <3>1 DEF SocketBack
    <3> QED
      BY <2>t, <3>2, <3>3, Shaken
  <2>7. CASE SocketUnavailable(p)
    <3>1. relay' = [relay EXCEPT ![p] = r] /\ UNCHANGED <<tasks, signals, fresh, keyed>>
      BY <2>7, <2>r DEF SocketUnavailable
    <3> QED
      BY <2>e, <3>1, Kept
  <2>8. CASE ConnectionUp(p)
    BY <2>8, <2>e, Kept DEF ConnectionUp
  <2>9. CASE ConnectionDown(p)
    <3>1. PICK s \in SignalSet : s = Signal("direct-unready", Nil, Nil)
      BY SignalTyped DEF SignalKind, Id
    <3>2. s.kind = "direct-unready"
      BY <3>1 DEF Signal
    <3>3. signals' = Send(signals, p, s) /\ UNCHANGED <<relay, tasks, fresh, keyed>>
      BY <2>9, <3>1 DEF ConnectionDown
    <3>4. \A q \in End : In(signals'[q]) \subseteq In(signals[q]) \cup {s}
      <4>1. \A q \in End : In(Send(signals, p, s)[q]) =
              IF q = Other(p) THEN In(signals[q]) \cup {s} ELSE In(signals[q])
        BY <2>t, Sent, Zenon
      <4> QED
        BY <3>3, <4>1
    <3> QED
      BY <2>e, <3>2, <3>3, <3>4, Kept
  <2>10. CASE Stable(p)
    <3>1. PICK s \in SignalSet : s = Signal("direct-probe", New(p), Nil)
      BY <2>t, EntryTyped, SignalTyped DEF SignalKind, Id
    <3>2. s.kind = "direct-probe"
      BY <3>1 DEF Signal
    <3>3. signals' = Send(signals, p, s) /\ UNCHANGED <<relay, tasks, keyed>> /\ Make(p)
      BY <2>10, <3>1 DEF Stable
    <3>4. \A q \in End : In(signals'[q]) \subseteq In(signals[q]) \cup {s}
      <4>1. \A q \in End : In(Send(signals, p, s)[q]) =
              IF q = Other(p) THEN In(signals[q]) \cup {s} ELSE In(signals[q])
        BY <2>t, Sent, Zenon
      <4> QED
        BY <3>3, <4>1
    <3>5. /\ \A q \in End : fresh[q] <= fresh'[q]
          /\ \A q \in End : tasks'[q] \subseteq tasks[q]
      BY <3>3 DEF Make, VoiceTypeOK
    <3>6. \A q \in End : \A x \in In(signals'[q]) :
            x \in In(signals[q]) \/ x.kind \notin {"offer", "answer"}
      BY <3>2, <3>4
    <3>7. relay' = [relay EXCEPT ![p] = o] /\ keyed' = keyed
      BY <2>e, <3>3
    <3> QED
      BY <2>e, <3>5, <3>6, <3>7, Undisturbed
  <2>11. CASE LoseSignal(p)
    <3>1. \A q \in End : In(signals'[q]) \subseteq In(signals[q])
      BY <2>11, Rest DEF LoseSignal
    <3>2. UNCHANGED <<relay, tasks, fresh, keyed>>
      BY <2>11 DEF LoseSignal
    <3> QED
      BY <2>e, <3>1, <3>2, Kept
  <2>12. CASE RepeatSignal(p)
    <3>1. \A q \in End : In(signals'[q]) \subseteq In(signals[q])
      BY <2>12, <2>t, Taken DEF RepeatSignal
    <3>2. UNCHANGED <<relay, tasks, fresh, keyed>>
      BY <2>12 DEF RepeatSignal
    <3> QED
      BY <2>e, <3>1, <3>2, Kept
  <2> QED
    BY <2>0, <2>1, <2>2, <2>3, <2>4, <2>5, <2>6, <2>7, <2>8, <2>9, <2>10, <2>11, <2>12
<1> QED
  BY <1>1, <1>2

(* At first nothing is made, sent or known.                                *)
LEMMA SessionsInit ==
  ASSUME VoiceAssumption, VoiceInit
  PROVE  Sessions
<1>1. \A p \in End : In(signals[p]) = {} /\ tasks[p] = {} /\ In(keyed[p]) = {} /\ relay[p] = Absent
  <2>1. In(<<>>) = {}
    BY DEF In
  <2> QED
    BY <2>1 DEF VoiceInit
<1>2. /\ Initiator \in End /\ Responder \in End /\ \A q \in End : Other(q) \in End
  BY Ends
<1>3. \A p \in End : keyed[p] = <<>>
  BY DEF VoiceInit
<1>4. Sources /\ Turns /\ Up
  BY <1>1, <1>2 DEF Sources, Turns, Up, Absent
<1>5. Epochs /\ Unused /\ Agree
  BY <1>1, <1>2 DEF Epochs, Unused, Agree, Absent
<1>6. KeysServeOneSession
  BY <1>3 DEF KeysServeOneSession
<1> QED
  BY <1>4, <1>5, <1>6 DEF Sessions

(* Sessions hold throughout.                                               *)
LEMMA SessionsHold ==
  ASSUME VoiceAssumption
  PROVE  VoiceSpec => []Sessions
<1>1. VoiceInit => VoiceTypeOK /\ Sessions
  BY TypeInit, SessionsInit
<1>2. VoiceTypeOK /\ Sessions /\ [VoiceNext]_voiceVars => VoiceTypeOK' /\ Sessions'
  BY TypeStep, SessionsStep
<1> QED
  BY <1>1, <1>2, PTL DEF VoiceSpec

(* A key encrypts for one session: no answer that comes twice or late, no  *)
(* offer that is repeated and no restart starts the nonces of a key again  *)
(* (VoiceRelay.offer, handleSignalUnsafe).                                 *)
THEOREM OneSessionPerKey ==
  ASSUME VoiceAssumption
  PROVE  VoiceSpec => []KeysServeOneSession
<1>1. Sessions => KeysServeOneSession
  BY DEF Sessions
<1> QED
  BY <1>1, SessionsHold, PTL

-----------------------------------------------------------------------------
(* A step keeps what an end agreed on, drops it all, or is one of the four *)
(* that make it: an offer, an answer, a session, the first packet.         *)
SameKeys(r, o) ==
  r.epoch = o.epoch /\ r.key = o.key /\ r.crypto = o.crypto /\ r.exposed = o.exposed
NoKeys(r) == r.key = Nil /\ r.crypto = Nil /\ ~r.exposed

LeavesKeys ==
  /\ keyed' = keyed
  /\ \A q \in End : SameKeys(relay'[q], relay[q]) \/ NoKeys(relay'[q])

LEMMA HandshakeLeaves ==
  ASSUME VoiceAssumption, VoiceTypeOK, NEW p \in End, NEW w, NEW queues, Handshake(p, w, queues),
         SameKeys(w, relay[p]), w \in Entry, keyed' = keyed
  PROVE  LeavesKeys
<1>1. relay \in [End -> Entry]
  BY DEF VoiceTypeOK
<1>2. CASE p = Initiator
  <2>1. PICK o : o = StartOffer(w)
    OBVIOUS
  <2>2. relay' = [relay EXCEPT ![p] = o]
    BY <1>2, <2>1 DEF Handshake
  <2>3. NoKeys(o)
    BY <2>1 DEF StartOffer, ResetMedia, NoKeys, Entry
  <2> QED
    BY <1>1, <2>2, <2>3 DEF LeavesKeys, SameKeys
<1>3. CASE p # Initiator
  <2>1. PICK o : o = [w EXCEPT !.armed = TRUE]
    OBVIOUS
  <2>2. relay' = [relay EXCEPT ![p] = o]
    BY <1>3, <2>1 DEF Handshake
  <2>3. SameKeys(o, relay[p])
    BY <2>1 DEF SameKeys, Entry
  <2> QED
    BY <1>1, <2>2, <2>3 DEF LeavesKeys, SameKeys
<1> QED
  BY <1>2, <1>3

(* One entry changes, in a way that keeps or drops what was agreed.        *)
LEMMA EntryLeaves ==
  ASSUME VoiceTypeOK, NEW p \in End, NEW r, relay' = [relay EXCEPT ![p] = r],
         SameKeys(r, relay[p]) \/ NoKeys(r), keyed' = keyed
  PROVE  LeavesKeys
BY DEF LeavesKeys, SameKeys, VoiceTypeOK

LEMMA ReceiveLeaves ==
  ASSUME VoiceAssumption, VoiceTypeOK, NEW p \in End, Receive(p)
  PROVE  LeavesKeys
<1>0. /\ relay[p] \in Entry /\ Wanted(relay[p]) \in Entry
      /\ NoKeys(Removed(relay[p])) /\ SameKeys(relay[p], relay[p])
      /\ SameKeys(Wanted(relay[p]), relay[p])
  <2>1. relay[p] \in Entry /\ Wanted(relay[p]) \in Entry
    BY EntryTyped DEF VoiceTypeOK
  <2>2. NoKeys(Removed(relay[p]))
    BY DEF Removed, Absent, NoKeys
  <2>3. SameKeys(Wanted(relay[p]), relay[p])
    BY <2>1 DEF Wanted, SameKeys, Entry
  <2> QED
    BY <2>1, <2>2, <2>3 DEF SameKeys
<1>1. CASE keyed' = keyed /\ (relay' = relay \/ relay' = [relay EXCEPT ![p] = Removed(relay[p])])
  <2>1. CASE relay' = relay
    BY <1>1, <2>1 DEF LeavesKeys, SameKeys
  <2>2. CASE relay' = [relay EXCEPT ![p] = Removed(relay[p])]
    BY <1>0, <1>1, <2>2, EntryLeaves
  <2> QED
    BY <1>1, <2>1, <2>2
<1>2. CASE StopReceived(p)
  BY <1>1, <1>2 DEF StopReceived
<1>3. CASE ReadyReceived(p)
  <2>1. Handshake(p, Wanted(relay[p]), Received(p)) /\ keyed' = keyed
    BY <1>3 DEF ReadyReceived
  <2> QED
    BY <1>0, <2>1, HandshakeLeaves
<1>4. CASE OfferReceived(p)
  <2>1. PICK w \in Entry : w = Wanted(relay[p])
    BY <1>0
  <2>2. PICK o : o = [ResetMedia(w) EXCEPT !.generation = w.generation + 1,
                                           !.phase = "answering", !.epoch = Head(signals[p]).tag]
    OBVIOUS
  <2>3. NoKeys(o)
    BY <2>1, <2>2 DEF ResetMedia, NoKeys, Entry
  <2>4. keyed' = keyed /\ (relay' = relay \/ relay' = [relay EXCEPT ![p] = o])
    BY <1>4, <2>1, <2>2 DEF OfferReceived
  <2> QED
    BY <1>1, <2>3, <2>4, EntryLeaves
<1>5. CASE AnswerReceived(p)
  <2>1. keyed' = keyed /\ relay' = [relay EXCEPT ![p] = Wanted(relay[p])]
    BY <1>5 DEF AnswerReceived
  <2> QED
    BY <1>0, <2>1, EntryLeaves
<1>6. CASE ProbeReceived(p) \/ UnreadyReceived(p)
  BY <1>1, <1>6 DEF ProbeReceived, UnreadyReceived
<1>7. CASE DirectReadyReceived(p)
  BY <1>1, <1>7 DEF DirectReadyReceived
<1> QED
  BY <1>2, <1>3, <1>4, <1>5, <1>6, <1>7 DEF Receive

(* Every step that is none of the four leaves the keys as they are.        *)
Makes ==
  \/ \E t \in tasks[Initiator] : OfferMade(Initiator, t) /\ CurrentTask(Initiator, t)
  \/ \E t \in tasks[Responder] : AnswerMade(Responder, t) /\ CurrentTask(Responder, t)
  \/ \E t \in tasks[Initiator] : SessionMade(Initiator, t) /\ relay[Initiator].phase = "offering"
  \/ \E p \in End : Hear(p) /\ Authentic(p)

LEMMA OthersLeave ==
  ASSUME VoiceAssumption, VoiceTypeOK, Sources, [VoiceNext]_voiceVars, ~Makes
  PROVE  LeavesKeys
<1>1. CASE UNCHANGED <<relay, keyed>>
  BY <1>1 DEF LeavesKeys, SameKeys
<1>2. CASE VoiceNext
  <2>0. PICK p \in End :
          \/ Receive(p) \/ (\E t \in tasks[p] : Continue(p, t))
          \/ StartRelay(p) \/ Hear(p) \/ HandshakeTimeout(p)
          \/ SocketLost(p) \/ SocketBack(p) \/ SocketUnavailable(p)
          \/ ConnectionUp(p) \/ ConnectionDown(p) \/ Stable(p) \/ LoseSignal(p)
          \/ RepeatSignal(p)
    BY <1>2 DEF VoiceNext
  <2>t. relay[p] \in Entry /\ NoKeys(Removed(relay[p])) /\ (p = Initiator \/ p = Responder)
    BY TheEnds DEF VoiceTypeOK, Removed, Absent, NoKeys
  <2>1. CASE Receive(p)
    BY <2>1, ReceiveLeaves
  <2>2. ASSUME NEW t \in tasks[p], Continue(p, t)
        PROVE  LeavesKeys
    <3>0. \/ p = Initiator /\ t.kind # "answer"
          \/ p = Responder /\ t.kind \notin {"offer", "session"}
      BY <2>t DEF Sources
    <3>1. CASE OfferMade(p, t)
      BY <1>1, <3>0, <3>1 DEF OfferMade, Makes
    <3>2. CASE AnswerMade(p, t)
      BY <1>1, <3>0, <3>2 DEF AnswerMade, Makes
    <3>3. CASE SessionMade(p, t)
      BY <1>1, <3>0, <3>3 DEF SessionMade, Makes
    <3>4. CASE Activated(p, t)
      <4>1. PICK o : o = [relay[p] EXCEPT !.phase = "active", !.armed = TRUE]
        OBVIOUS
      <4>2. SameKeys(o, relay[p])
        BY <2>t, <4>1 DEF SameKeys, Entry
      <4>3. keyed' = keyed /\ (relay' = relay \/ relay' = [relay EXCEPT ![p] = o])
        BY <3>4, <4>1 DEF Activated
      <4> QED
        BY <1>1, <4>2, <4>3, EntryLeaves
    <3> QED
      BY <2>2, <3>1, <3>2, <3>3, <3>4 DEF Continue
  <2>3. CASE StartRelay(p)
    <3>1. SameKeys(Wanted(relay[p]), relay[p]) /\ Wanted(relay[p]) \in Entry
      BY <2>t, EntryTyped DEF Wanted, SameKeys, Entry
    <3>2. keyed' = keyed /\ (relay' = relay \/ Handshake(p, Wanted(relay[p]), signals))
      BY <2>3 DEF StartRelay
    <3> QED
      BY <1>1, <3>1, <3>2, HandshakeLeaves
  <2>4. CASE Hear(p)
    <3>1. keyed' = keyed /\ relay' = [relay EXCEPT ![p] = Removed(relay[p])]
      BY <2>4 DEF Hear, Makes
    <3> QED
      BY <2>t, <3>1, EntryLeaves
  <2>5. CASE HandshakeTimeout(p)
    <3>1. CASE relay[p].phase = "active" \/ relay[p].attempts >= MaxTries
      <4>1. keyed' = keyed /\ relay' = [relay EXCEPT ![p] = Removed(relay[p])]
        BY <2>5, <3>1 DEF HandshakeTimeout
      <4> QED
        BY <2>t, <4>1, EntryLeaves
    <3>2. CASE ~(relay[p].phase = "active" \/ relay[p].attempts >= MaxTries)
      <4>1. relay[p].attempts + 1 \in 0 .. MaxTries
        BY <2>t, <3>2 DEF Entry, VoiceAssumption
      <4>2. PICK w \in Entry : w = [relay[p] EXCEPT !.attempts = @ + 1, !.armed = FALSE]
        BY <2>t, <4>1 DEF Entry
      <4>3. SameKeys(w, relay[p])
        BY <2>t, <4>2 DEF SameKeys, Entry
      <4>4. Handshake(p, w, signals) /\ keyed' = keyed
        BY <2>5, <3>2, <4>2 DEF HandshakeTimeout
      <4> QED
        BY <4>3, <4>4, HandshakeLeaves
    <3> QED
      BY <3>1, <3>2
  <2>6. CASE SocketLost(p)
    <3>1. PICK w : w = [ResetMedia(relay[p]) EXCEPT !.generation = relay[p].generation + 1,
                                                    !.attempts = 0, !.reconnecting = TRUE]
      OBVIOUS
    <3>2. NoKeys(w)
      BY <2>t, <3>1 DEF ResetMedia, NoKeys, Entry
    <3>3. relay' = [relay EXCEPT ![p] = w] /\ keyed' = keyed
      BY <2>6, <3>1 DEF SocketLost
    <3> QED
      BY <3>2, <3>3, EntryLeaves
  <2>7. CASE SocketBack(p)
    <3>1. PICK w \in Entry : w = [relay[p] EXCEPT !.reconnecting = FALSE]
      BY <2>t DEF Entry
    <3>2. SameKeys(w, relay[p])
      BY <2>t, <3>1 DEF SameKeys, Entry
    <3>3. Handshake(p, w, signals) /\ keyed' = keyed
      BY <2>7, <3>1 DEF SocketBack
    <3> QED
      BY <3>2, <3>3, HandshakeLeaves
  <2>8. CASE SocketUnavailable(p)
    <3>1. keyed' = keyed /\ relay' = [relay EXCEPT ![p] = Removed(relay[p])]
      BY <2>8 DEF SocketUnavailable
    <3> QED
      BY <2>t, <3>1, EntryLeaves
  <2>9. CASE ConnectionUp(p) \/ ConnectionDown(p) \/ Stable(p) \/ LoseSignal(p) \/ RepeatSignal(p)
    BY <1>1, <2>9 DEF ConnectionUp, ConnectionDown, Stable, LoseSignal, RepeatSignal
  <2> QED
    BY <2>0, <2>1, <2>2, <2>3, <2>4, <2>5, <2>6, <2>7, <2>8, <2>9
<1> QED
  BY <1>1, <1>2 DEF voiceVars

(* What was answered is kept track of.                                     *)
LEMMA AnswersStep ==
  ASSUME VoiceAssumption, VoiceTypeOK, Sessions, Answers, [VoiceNext]_voiceVars
  PROVE  Answers'
<1>0. /\ Initiator \in End /\ Responder \in End /\ Initiator # Responder
      /\ \A q \in End : q = Initiator \/ q = Responder
      /\ relay \in [End -> Entry] /\ keyed \in [End -> Seq(Id)]
      /\ \A q \in End : relay[q] \in Entry /\ keyed[q] \in Seq(Id)
  BY TheEnds DEF VoiceTypeOK
<1>1. CASE ~Makes
  <2>1. LeavesKeys
    BY <1>1, OthersLeave DEF Sessions
  <2> QED
    BY <1>0, <2>1 DEF LeavesKeys, SameKeys, NoKeys, Answers
<1>2. ASSUME NEW t \in tasks[Initiator], OfferMade(Initiator, t), CurrentTask(Initiator, t)
      PROVE  Answers'
  <2>1. t.tag = relay[Initiator].epoch /\ Unsent(t.tag)
    BY <1>0, <1>2 DEF Sessions, Turns, Turn, OfferMade, CurrentTask
  <2>2. relay' = [relay EXCEPT ![Initiator] =
                    [relay[Initiator] EXCEPT !.key = New(Initiator), !.armed = TRUE]]
    BY <1>2 DEF OfferMade
  <2>3. /\ relay'[Responder] = relay[Responder] /\ keyed' = keyed
        /\ relay'[Initiator].epoch = relay[Initiator].epoch
        /\ relay'[Initiator].crypto = relay[Initiator].crypto
        /\ relay'[Initiator].exposed = relay[Initiator].exposed
    BY <1>0, <1>2, <2>2 DEF OfferMade, Entry
  <2>4. relay[Responder].epoch # relay[Initiator].epoch
    BY <2>1 DEF Unsent
  <2>5. relay'[Initiator].key # Nil
    BY <1>0, <2>2, Anew DEF Entry
  <2> QED
    BY <2>3, <2>4, <2>5 DEF Answers
<1>3. ASSUME NEW t \in tasks[Responder], AnswerMade(Responder, t), CurrentTask(Responder, t)
      PROVE  Answers'
  <2>1. t.tag = relay[Responder].epoch /\ t.kind = "answer"
    BY <1>0, <1>3 DEF Sessions, Turns, Turn, AnswerMade, CurrentTask
  <2>2. /\ relay' = [relay EXCEPT ![Responder] =
                       [relay[Responder] EXCEPT !.key = New(Responder), !.crypto = t.key]]
        /\ keyed' = [keyed EXCEPT ![Responder] = Append(keyed[Responder], New(Responder))]
    BY <1>3 DEF AnswerMade
  <2>3. /\ relay'[Initiator] = relay[Initiator]
        /\ relay'[Responder].epoch = relay[Responder].epoch
        /\ relay'[Responder].key = New(Responder) /\ relay'[Responder].crypto = t.key
        /\ keyed'[Responder] = Append(keyed[Responder], New(Responder))
    BY <1>0, <2>2 DEF Entry
  <2>4. relay[Initiator].key # Nil /\ t.tag = relay[Initiator].epoch => t.key = relay[Initiator].key
    BY <2>1 DEF Sessions, Epochs
  <2>5. /\ keyed'[Responder] # <<>> /\ keyed'[Responder][Len(keyed'[Responder])] = New(Responder)
        /\ In(keyed[Responder]) \subseteq In(keyed'[Responder])
    <3>1. New(Responder) \in Id
      BY <1>0, EntryTyped DEF VoiceTypeOK
    <3> QED
      BY <1>0, <2>3, <3>1 DEF In
  <2> QED
    BY <2>1, <2>3, <2>4, <2>5 DEF Answers
<1>4. ASSUME NEW t \in tasks[Initiator], SessionMade(Initiator, t),
             relay[Initiator].phase = "offering"
      PROVE  Answers'
  <2>1. ~relay[Initiator].exposed
    BY <1>0, <1>4 DEF Sessions, Up
  <2>2. \/ relay' = [relay EXCEPT ![Initiator].crypto = t.key]
        \/ relay' = relay
    BY <1>4 DEF SessionMade
  <2>3. /\ relay'[Responder] = relay[Responder]
        /\ relay'[Initiator].epoch = relay[Initiator].epoch
        /\ relay'[Initiator].key = relay[Initiator].key
        /\ ~relay'[Initiator].exposed
    BY <1>0, <2>1, <2>2 DEF Entry
  <2>4. keyed'[Responder] = keyed[Responder]
    BY <1>0, <1>4 DEF SessionMade
  <2>5. relay'[Initiator].crypto # Nil => relay[Initiator].key # Nil
    <3>1. CASE CurrentTask(Initiator, t)
      BY <1>0, <1>4, <3>1 DEF Sessions, Turns, Turn, SessionMade, CurrentTask
    <3>2. CASE ~CurrentTask(Initiator, t)
      BY <1>4, <3>2 DEF SessionMade, Answers
    <3> QED
      BY <3>1, <3>2
  <2> QED
    BY <2>3, <2>4, <2>5 DEF Answers
<1>5. ASSUME NEW p \in End, Hear(p), Authentic(p)
      PROVE  Answers'
  <2>1. relay' = [relay EXCEPT ![p] = [relay[p] EXCEPT !.exposed = TRUE, !.armed = FALSE]]
    BY <1>5 DEF Hear
  <2>2. \A q \in End : /\ relay'[q].epoch = relay[q].epoch /\ relay'[q].key = relay[q].key
                       /\ relay'[q].crypto = relay[q].crypto
    BY <1>0, <2>1 DEF Entry
  <2>3. keyed' = keyed
    BY <1>5 DEF Hear
  <2>4. CASE p = Initiator
    <3>1. relay[Initiator].crypto = relay[Responder].key /\ relay[Responder].phase = "active"
      BY <1>5, <2>4, TheEnds DEF Authentic, Hear, CanHear
    <3>2. relay[Responder].crypto # Nil
      BY <1>0, <3>1 DEF Sessions, Up
    <3>3. relay[Initiator].crypto \in In(keyed[Responder])
      BY <1>0, <3>1, <3>2 DEF Answers, In
    <3> QED
      BY <1>0, <2>2, <2>3, <3>3 DEF Answers
  <2>5. CASE p # Initiator
    <3>1. relay'[Initiator].exposed = relay[Initiator].exposed
      BY <1>0, <2>1, <2>5
    <3> QED
      BY <1>0, <2>2, <2>3, <3>1 DEF Answers
  <2> QED
    BY <2>4, <2>5
<1> QED
  BY <1>1, <1>2, <1>3, <1>4, <1>5 DEF Makes

(* While one end hears the other and the other has a session in that       *)
(* epoch, the other's session is derived from this end's key, and this     *)
(* end's from the other's; only an initiator may hold an answer that the   *)
(* responder has replaced since, after it lost its socket and the offer    *)
(* came again (receivePacket, handleSignalUnsafe).                         *)
THEOREM EpochsHoldTheirKeys ==
  ASSUME VoiceAssumption
  PROVE  VoiceSpec => []EpochsAgree
<1>1. VoiceInit => VoiceTypeOK /\ Sessions /\ Answers
  <2>1. VoiceInit => Answers
    BY TheEnds DEF VoiceInit, Answers, Absent
  <2> QED
    BY <2>1, TypeInit, SessionsInit
<1>2. VoiceTypeOK /\ Sessions /\ Answers /\ [VoiceNext]_voiceVars =>
        VoiceTypeOK' /\ Sessions' /\ Answers'
  BY TypeStep, SessionsStep, AnswersStep
<1>3. VoiceTypeOK /\ Sessions /\ Answers => EpochsAgree
  <2>1. SUFFICES ASSUME VoiceTypeOK, Sessions, Answers, NEW p \in End, relay[p].exposed,
                        relay[Other(p)].crypto # Nil, relay[p].epoch = relay[Other(p)].epoch
                 PROVE  /\ relay[Other(p)].crypto = relay[p].key
                        /\ relay[p].crypto = relay[Other(p)].key \/ (p = Initiator /\ AnsweredAgain)
    BY DEF EpochsAgree
  <2>2. relay[Other(p)].crypto = relay[p].key
    BY <2>1 DEF Sessions, Agree
  <2>3. relay[p].key # Nil /\ relay[p].crypto # Nil
    BY <2>1 DEF Sessions, Up
  <2>4. CASE p = Initiator
    <3> DEFINE answers == keyed[Responder]
    <3>1. /\ relay[Responder].key = answers[Len(answers)] /\ answers # <<>>
          /\ relay[Initiator].crypto \in In(answers) /\ answers \in Seq(Id)
      BY <2>1, <2>4, TheEnds DEF Answers, VoiceTypeOK
    <3>2. PICK i \in DOMAIN answers : answers[i] = relay[Initiator].crypto
      BY <3>1 DEF In
    <3>3. i = Len(answers) \/ (i < Len(answers) /\ Len(answers) \in DOMAIN answers)
      BY <3>1
    <3>4. CASE i = Len(answers)
      BY <2>2, <2>4, <3>1, <3>2, <3>4, TheEnds
    <3>5. CASE i < Len(answers) /\ Len(answers) \in DOMAIN answers
      <4>1. AnsweredAgain
        BY <3>1, <3>2, <3>5 DEF AnsweredAgain
      <4> QED
        BY <2>2, <2>4, <4>1
    <3> QED
      BY <3>3, <3>4, <3>5
  <2>5. CASE p = Responder
    <3>1. relay[Initiator].key # Nil
      BY <2>1, <2>5, TheEnds DEF Answers
    <3> QED
      BY <2>1, <2>2, <2>3, <2>5, <3>1, TheEnds DEF Answers
  <2> QED
    BY <2>2, <2>4, <2>5, TheEnds
<1> QED
  BY <1>1, <1>2, <1>3, PTL DEF VoiceSpec

-----------------------------------------------------------------------------
(* A signal of a kind that no probe is answered with is queued at most.    *)
Plain(p) ==
  \/ signals' = signals
  \/ signals[p] # <<>> /\ signals' = Received(p)
  \/ \E s \in SignalSet :
       /\ s.kind # "direct-ready"
       /\ \/ signals' = Send(signals, p, s)
          \/ signals[p] # <<>> /\ signals' = Send(Received(p), p, s)

LEMMA PlainSignals ==
  ASSUME VoiceAssumption, VoiceTypeOK, NEW p \in End, Plain(p)
  PROVE  \A q \in End : \A x \in In(signals'[q]) :
           x \in In(signals[q]) \/ x.kind # "direct-ready"
<1>1. signals \in [End -> Seq(SignalSet)]
  BY DEF VoiceTypeOK
<1>2. CASE signals' = signals
  BY <1>2
<1>3. CASE signals[p] # <<>> /\ signals' = Received(p)
  BY <1>3, Rest
<1>4. CASE \E s \in SignalSet :
             /\ s.kind # "direct-ready"
             /\ \/ signals' = Send(signals, p, s)
                \/ signals[p] # <<>> /\ signals' = Send(Received(p), p, s)
  <2>1. PICK s \in SignalSet :
          /\ s.kind # "direct-ready"
          /\ \/ signals' = Send(signals, p, s)
             \/ signals[p] # <<>> /\ signals' = Send(Received(p), p, s)
    BY <1>4
  <2>2. CASE signals' = Send(signals, p, s)
    <3>1. \A q \in End : In(Send(signals, p, s)[q]) =
            IF q = Other(p) THEN In(signals[q]) \cup {s} ELSE In(signals[q])
      BY <1>1, Sent, Zenon
    <3> QED
      BY <2>1, <2>2, <3>1
  <2>3. CASE signals[p] # <<>> /\ signals' = Send(Received(p), p, s)
    <3>1. /\ Received(p) \in [End -> Seq(SignalSet)]
          /\ \A q \in End : In(Received(p)[q]) \subseteq In(signals[q])
      BY <2>3, Rest
    <3>2. \A q \in End : In(Send(Received(p), p, s)[q]) =
            IF q = Other(p) THEN In(Received(p)[q]) \cup {s} ELSE In(Received(p)[q])
      BY <3>1, Sent, Zenon
    <3> QED
      BY <2>1, <2>3, <3>1, <3>2
  <2> QED
    BY <2>1, <2>2, <2>3
<1> QED
  BY <1>2, <1>3, <1>4 DEF Plain

(* Most steps queue such a signal at most, and leave the paths alone.      *)
LEMMA PlainSteps ==
  ASSUME VoiceAssumption, VoiceTypeOK, NEW p \in End,
         \/ StopReceived(p) \/ ReadyReceived(p) \/ OfferReceived(p) \/ AnswerReceived(p)
         \/ DirectReadyReceived(p) \/ UnreadyReceived(p)
         \/ (\E t \in tasks[p] : Continue(p, t))
         \/ StartRelay(p) \/ Hear(p) \/ HandshakeTimeout(p)
         \/ SocketLost(p) \/ SocketBack(p) \/ SocketUnavailable(p) \/ LoseSignal(p)
  PROVE  Plain(p) /\ UNCHANGED <<connected, stableTimer, directReady, acknowledged>>
<1>0. /\ Signal("ready", Nil, Nil) \in SignalSet /\ Signal("ready", Nil, Nil).kind = "ready"
      /\ Signal("stop", relay[p].epoch, Nil) \in SignalSet
      /\ Signal("stop", relay[p].epoch, Nil).kind = "stop"
  <2>1. relay[p].epoch \in Id /\ Nil \in Id
    BY DEF VoiceTypeOK, Entry, Id
  <2> QED
    BY <2>1, SignalTyped DEF SignalKind, Signal
<1>1. ASSUME NEW r, Handshake(p, r, signals)
      PROVE  Plain(p)
  BY <1>0, <1>1 DEF Handshake, Plain
<1>2. CASE StopReceived(p) \/ OfferReceived(p) \/ AnswerReceived(p) \/ UnreadyReceived(p) \/ LoseSignal(p)
  BY <1>2 DEF StopReceived, OfferReceived, AnswerReceived, UnreadyReceived, LoseSignal, Takes, Plain,
              routeVars
<1>3. CASE ReadyReceived(p)
  <2>1. signals[p] # <<>> /\ signals' = Received(p)
    BY <1>3 DEF ReadyReceived, Handshake, Takes
  <2> QED
    BY <1>3, <2>1 DEF ReadyReceived, Plain, routeVars
<1>4. CASE DirectReadyReceived(p)
  <2>1. PICK s \in SignalSet : s = Signal("stop", relay[p].epoch, Nil) /\ s.kind = "stop"
    BY <1>0
  <2>2. signals[p] # <<>> /\ (signals' = Received(p) \/ signals' = Send(Received(p), p, s))
    BY <1>4, <2>1 DEF DirectReadyReceived, Takes
  <2> QED
    BY <1>4, <2>1, <2>2 DEF DirectReadyReceived, Plain
<1>5. CASE \E t \in tasks[p] : Continue(p, t)
  <2>1. PICK t \in tasks[p] : Continue(p, t)
    BY <1>5
  <2>2. t.tag \in Id /\ New(p) \in Id
    <3>1. relay[p] \in Entry /\ t \in TaskSet
      BY DEF VoiceTypeOK
    <3> QED
      BY <3>1, EntryTyped DEF TaskSet
  <2>3. PICK s \in SignalSet : s = Signal("offer", t.tag, New(p)) /\ s.kind = "offer"
    BY <2>2, SignalTyped DEF SignalKind, Signal
  <2>4. PICK a \in SignalSet : a = Signal("answer", t.tag, New(p)) /\ a.kind = "answer"
    BY <2>2, SignalTyped DEF SignalKind, Signal
  <2>5. signals' = signals \/ signals' = Send(signals, p, s) \/ signals' = Send(signals, p, a)
    BY <2>1, <2>3, <2>4 DEF Continue, OfferMade, AnswerMade, SessionMade, Activated
  <2>6. UNCHANGED <<connected, stableTimer, directReady, acknowledged>>
    BY <2>1 DEF Continue, OfferMade, AnswerMade, SessionMade, Activated, routeVars
  <2> QED
    BY <2>3, <2>4, <2>5, <2>6 DEF Plain
<1>6. CASE StartRelay(p)
  BY <1>1, <1>6 DEF StartRelay, Plain
<1>7. CASE HandshakeTimeout(p)
  BY <1>1, <1>7 DEF HandshakeTimeout, Plain, routeVars
<1>8. CASE SocketBack(p)
  BY <1>1, <1>8 DEF SocketBack, routeVars
<1>9. CASE Hear(p) \/ SocketLost(p) \/ SocketUnavailable(p)
  BY <1>9 DEF Hear, SocketLost, SocketUnavailable, Plain, routeVars
<1> QED
  BY <1>2, <1>3, <1>4, <1>5, <1>6, <1>7, <1>8, <1>9

(* What is known of the paths stays so.                                    *)
LEMMA PathsStep ==
  ASSUME VoiceAssumption, VoiceTypeOK, Paths, [VoiceNext]_voiceVars
  PROVE  Paths'
<1>0. signals \in [End -> Seq(SignalSet)]
  BY DEF VoiceTypeOK
<1>1. CASE UNCHANGED voiceVars
  BY <1>1 DEF voiceVars, routeVars, Paths
<1>2. CASE VoiceNext
  <2>0. PICK p \in End :
          \/ Receive(p) \/ (\E t \in tasks[p] : Continue(p, t))
          \/ StartRelay(p) \/ Hear(p) \/ HandshakeTimeout(p)
          \/ SocketLost(p) \/ SocketBack(p) \/ SocketUnavailable(p)
          \/ ConnectionUp(p) \/ ConnectionDown(p) \/ Stable(p) \/ LoseSignal(p)
          \/ RepeatSignal(p)
    BY <1>2 DEF VoiceNext
  <2>1. CASE /\ UNCHANGED <<connected, stableTimer, directReady, acknowledged>>
             /\ Plain(p)
    <3>1. \A q \in End : \A x \in In(signals'[q]) :
            x \in In(signals[q]) \/ x.kind # "direct-ready"
      BY <2>1, PlainSignals
    <3> QED
      BY <2>1, <3>1 DEF Paths
  <2>2. CASE ProbeReceived(p)
    <3>1. Head(signals[p]) \in SignalSet /\ signals[p] # <<>>
      BY <2>2, Rest DEF ProbeReceived, Takes
    <3>2. PICK s \in SignalSet : s = Signal("direct-ready", Head(signals[p]).tag, Nil)
      BY <3>1, SignalTyped DEF SignalKind, Id, SignalSet
    <3>3. s.tag = Head(signals[p]).tag
      BY <3>2 DEF Signal
    <3>4. /\ \A q \in End : In(Received(p)[q]) \subseteq In(signals[q])
          /\ Received(p) \in [End -> Seq(SignalSet)]
      BY <3>1, Rest
    <3>5. \A q \in End : In(Send(Received(p), p, s)[q]) =
            IF q = Other(p) THEN In(Received(p)[q]) \cup {s} ELSE In(Received(p)[q])
      BY <3>4, Sent, Zenon
    <3>6. /\ acknowledged \subseteq acknowledged'
          /\ \A q \in End : \A x \in In(signals'[q]) :
               x \in In(signals[q]) \/ (x = s /\ s.tag \in acknowledged')
      <4>1. CASE directReady[p]
        <5>1. /\ signals' = Send(Received(p), p, s)
              /\ acknowledged' = acknowledged \cup {s.tag}
          BY <2>2, <3>2, <3>3, <4>1 DEF ProbeReceived
        <5> QED
          BY <3>4, <3>5, <5>1
      <4>2. CASE ~directReady[p]
        <5>1. signals' = Received(p) /\ acknowledged' = acknowledged
          BY <2>2, <4>2 DEF ProbeReceived
        <5>2. \A q \in End : \A x \in In(signals'[q]) : x \in In(signals[q])
          BY <3>4, <5>1
        <5>3. acknowledged \subseteq acknowledged'
          BY <5>1
        <5> QED
          BY <5>2, <5>3, Zenon
      <4> QED
        BY <4>1, <4>2
    <3> QED
      BY <2>2, <3>6 DEF ProbeReceived, routeVars, Paths
  <2>3. CASE ConnectionUp(p)
    <3>1. \A q \in End : stableTimer'[q] \/ directReady'[q] => connected'[q]
      BY <2>3 DEF ConnectionUp, Paths, VoiceTypeOK
    <3> QED
      BY <2>3, <3>1 DEF ConnectionUp, Paths
  <2>4. CASE ConnectionDown(p)
    <3>1. \A q \in End : stableTimer'[q] \/ directReady'[q] => connected'[q]
      BY <2>4 DEF ConnectionDown, Paths, VoiceTypeOK
    <3>2. PICK s \in SignalSet : s = Signal("direct-unready", Nil, Nil) /\ s.kind # "direct-ready"
      <4>1. Signal("direct-unready", Nil, Nil) \in SignalSet
        BY SignalTyped DEF SignalKind, Id
      <4> QED
        BY <4>1 DEF Signal
    <3>3. Plain(p)
      BY <2>4, <3>2 DEF ConnectionDown, Plain
    <3>4. \A q \in End : \A x \in In(signals'[q]) :
            x \in In(signals[q]) \/ x.kind # "direct-ready"
      BY <3>3, PlainSignals
    <3> QED
      BY <2>4, <3>1, <3>4 DEF ConnectionDown, Paths
  <2>5. CASE Stable(p)
    <3>1. \A q \in End : stableTimer'[q] \/ directReady'[q] => connected'[q]
      BY <2>5 DEF Stable, Paths, VoiceTypeOK
    <3>2. PICK s \in SignalSet : s = Signal("direct-probe", New(p), Nil) /\ s.kind # "direct-ready"
      <4>1. relay[p] \in Entry
        BY DEF VoiceTypeOK
      <4>2. New(p) \in Id
        BY <4>1, EntryTyped
      <4>3. Signal("direct-probe", New(p), Nil) \in SignalSet
        BY <4>2, SignalTyped DEF SignalKind, Id
      <4> QED
        BY <4>3 DEF Signal
    <3>3. Plain(p)
      BY <2>5, <3>2 DEF Stable, Plain
    <3>4. \A q \in End : \A x \in In(signals'[q]) :
            x \in In(signals[q]) \/ x.kind # "direct-ready"
      BY <3>3, PlainSignals
    <3> QED
      BY <2>5, <3>1, <3>4 DEF Stable, Paths
  <2>6. CASE RepeatSignal(p)
    <3>1. \A q \in End : In(signals'[q]) \subseteq In(signals[q])
      BY <1>0, <2>6, Taken DEF RepeatSignal
    <3> QED
      BY <2>6, <3>1 DEF RepeatSignal, routeVars, Paths
  <2> QED
    BY <2>0, <2>1, <2>2, <2>3, <2>4, <2>5, <2>6, PlainSteps DEF Receive
<1> QED
  BY <1>1, <1>2

(* Both ends have seen a stable direct path before either stops the        *)
(* fallback: who sends stop is ready, and so was the end that answered its *)
(* probe (restoreDirectVoice, handleSignal).                               *)
THEOREM StopsAreAgreed ==
  ASSUME VoiceAssumption
  PROVE  VoiceSpec => RestoredTogether
<1>1. VoiceInit => Paths
  <2>1. In(<<>>) = {}
    BY DEF In
  <2> QED
    BY <2>1 DEF VoiceInit, Paths
<1>2. ASSUME VoiceTypeOK, Paths, [VoiceNext]_voiceVars
      PROVE  [\A p \in End :
                relay[p].wanted /\ ~relay'[p].wanted
                  /\ Len(signals'[Other(p)]) > Len(signals[Other(p)]) =>
                  connected[p] /\ directReady[p] /\ directProbe[p] \in acknowledged]_voiceVars
  <2>1. SUFFICES ASSUME VoiceNext, NEW p \in End, relay[p].wanted, ~relay'[p].wanted,
                        Len(signals'[Other(p)]) > Len(signals[Other(p)])
                 PROVE  connected[p] /\ directReady[p] /\ directProbe[p] \in acknowledged
    BY <1>2
  <2>2. /\ Other(p) \in End /\ Other(p) # p /\ DOMAIN relay = End /\ DOMAIN signals = End
        /\ relay[p] \in Entry /\ Len(signals[Other(p)]) \in Nat
    BY <1>2, Ends DEF VoiceTypeOK
  <2>3. signals' # signals /\ signals' # Received(p)
    BY <2>1, <2>2 DEF Received
  <2>4. ASSUME NEW q \in End, NEW r, NEW queues, Handshake(q, r, queues),
               r.wanted, r \in Entry
        PROVE  FALSE
    <3>1. CASE q # p
      <4>1. relay'[p] = relay[p]
        BY <2>2, <2>4, <3>1 DEF Handshake
      <4> QED
        BY <2>1, <4>1
    <3>2. CASE q = p
      <4>1. relay'[p] = StartOffer(r) \/ relay'[p] = [r EXCEPT !.armed = TRUE]
        BY <2>2, <2>4, <3>2 DEF Handshake
      <4>2. relay'[p].wanted
        BY <2>4, <4>1 DEF StartOffer, ResetMedia, Entry
      <4> QED
        BY <2>1, <4>2
    <3> QED
      BY <3>1, <3>2
  <2>5. PICK q \in End :
          \/ Receive(q) \/ (\E t \in tasks[q] : Continue(q, t))
          \/ StartRelay(q) \/ Hear(q) \/ HandshakeTimeout(q)
          \/ SocketLost(q) \/ SocketBack(q) \/ SocketUnavailable(q)
          \/ ConnectionUp(q) \/ ConnectionDown(q) \/ Stable(q) \/ LoseSignal(q)
          \/ RepeatSignal(q)
    BY <2>1 DEF VoiceNext
  <2>6. relay' # relay /\ (\A x : q # p => relay' # [relay EXCEPT ![q] = x])
    BY <2>1, <2>2
  <2>7. relay[q] \in Entry /\ Wanted(relay[q]) \in Entry /\ Wanted(relay[q]).wanted
    <3>1. relay[q] \in Entry
      BY <1>2 DEF VoiceTypeOK
    <3> QED
      BY <1>2, <3>1, EntryTyped DEF Wanted, Entry
  <2>8. CASE DirectReadyReceived(q)
    <3>1. q = p /\ directProbe[p] = Head(signals[p]).tag /\ directReady[p]
      BY <2>6, <2>8 DEF DirectReadyReceived
    <3>2. /\ signals[p] # <<>> /\ Head(signals[p]).kind = "direct-ready"
      BY <2>8, <3>1 DEF DirectReadyReceived, Takes
    <3>3. Head(signals[p]) \in In(signals[p])
      BY <1>2, <3>2, Rest
    <3> QED
      BY <1>2, <3>1, <3>2, <3>3 DEF Paths
  <2>9. CASE StopReceived(q) \/ Hear(q) \/ SocketUnavailable(q) \/ SocketLost(q)
    <3>1. signals' = signals \/ (q = p /\ signals' = Received(p))
      BY <2>6, <2>9 DEF StopReceived, Hear, SocketUnavailable, SocketLost
    <3> QED
      BY <2>3, <3>1
  <2>10. CASE ReadyReceived(q)
    BY <2>4, <2>7, <2>10 DEF ReadyReceived
  <2>11. CASE OfferReceived(q) \/ AnswerReceived(q)
    <3>1. q = p /\ signals' = Received(p)
      BY <2>6, <2>11 DEF OfferReceived, AnswerReceived
    <3> QED
      BY <2>3, <3>1
  <2>12. CASE ProbeReceived(q) \/ UnreadyReceived(q) \/ ConnectionUp(q) \/ ConnectionDown(q)
              \/ Stable(q) \/ LoseSignal(q) \/ RepeatSignal(q)
    BY <2>6, <2>12 DEF ProbeReceived, UnreadyReceived, ConnectionUp, ConnectionDown, Stable,
                       LoseSignal, RepeatSignal
  <2>13. CASE \E t \in tasks[q] : Continue(q, t)
    <3>1. PICK t \in tasks[q] : Continue(q, t)
      BY <2>13
    <3>2. q = p
      BY <2>6, <3>1 DEF Continue, OfferMade, AnswerMade, SessionMade, Activated
    <3>3. relay'[p].wanted = relay[p].wanted
      <4>1. PICK o \in Entry : o = relay[p]
        BY <2>2
      <4>2. PICK k, c : k = New(p) /\ c = t.key
        OBVIOUS
      <4>3. \/ relay'[p] = o
            \/ relay'[p] = [o EXCEPT !.key = k, !.armed = TRUE]
            \/ relay'[p] = [o EXCEPT !.key = k, !.crypto = c]
            \/ relay'[p] = [o EXCEPT !.crypto = c]
            \/ relay'[p] = [o EXCEPT !.phase = "active", !.armed = TRUE]
        BY <2>2, <3>1, <3>2, <4>1, <4>2
           DEF Continue, OfferMade, AnswerMade, SessionMade, Activated
      <4>4. DOMAIN o = DOMAIN [wanted |-> 0, phase |-> 0, epoch |-> 0, key |-> 0, crypto |-> 0,
                               exposed |-> 0, attempts |-> 0, armed |-> 0, generation |-> 0,
                               reconnecting |-> 0]
        BY <4>1 DEF Entry
      <4>5. relay'[p].wanted = o.wanted
        BY <4>3, <4>4
      <4> QED
        BY <4>1, <4>5
    <3> QED
      BY <2>1, <3>3
  <2>14. CASE StartRelay(q)
    BY <2>4, <2>6, <2>7, <2>14 DEF StartRelay
  <2>15. CASE HandshakeTimeout(q)
    <3>1. CASE relay[q].phase = "active" \/ relay[q].attempts >= MaxTries
      BY <2>3, <2>15, <3>1 DEF HandshakeTimeout
    <3>2. CASE ~(relay[q].phase = "active" \/ relay[q].attempts >= MaxTries)
      <4>1. PICK r : r = [relay[q] EXCEPT !.attempts = @ + 1, !.armed = FALSE]
        OBVIOUS
      <4>2. Handshake(q, r, signals)
        BY <2>15, <3>2, <4>1 DEF HandshakeTimeout
      <4>3. q = p
        BY <2>6, <4>2 DEF Handshake
      <4>4. relay[q].attempts + 1 \in 0 .. MaxTries
        BY <2>7, <3>2 DEF Entry, VoiceAssumption
      <4>5. r \in Entry /\ r.wanted
        BY <2>1, <2>7, <4>1, <4>3, <4>4 DEF Entry
      <4> QED
        BY <2>4, <4>2, <4>5
    <3> QED
      BY <3>1, <3>2
  <2>16. CASE SocketBack(q)
    <3>1. PICK r : r = [relay[q] EXCEPT !.reconnecting = FALSE]
      OBVIOUS
    <3>2. Handshake(q, r, signals)
      BY <2>16, <3>1 DEF SocketBack
    <3>3. q = p
      BY <2>6, <3>2 DEF Handshake
    <3>4. r \in Entry /\ r.wanted
      BY <2>1, <2>7, <3>1, <3>3 DEF Entry
    <3> QED
      BY <2>4, <3>2, <3>4
  <2> QED
    BY <2>5, <2>8, <2>9, <2>10, <2>11, <2>12, <2>13, <2>14, <2>15, <2>16 DEF Receive
<1>3. VoiceInit => VoiceTypeOK
  BY TypeInit
<1>4. VoiceTypeOK /\ Paths /\ [VoiceNext]_voiceVars => VoiceTypeOK' /\ Paths'
  BY TypeStep, PathsStep
<1> QED
  BY <1>1, <1>2, <1>3, <1>4, PTL DEF VoiceSpec, RestoredTogether
=============================================================================
