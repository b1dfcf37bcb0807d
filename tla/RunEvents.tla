------------------------------ MODULE RunEvents ------------------------------
(***************************************************************************)
(* The events of one Run (roboagent/runtime/event.py): a RunEventEmitter   *)
(* numbers them, keeps the latest for replay and copies each into the      *)
(* bounded queue of every subscription, where a slow reader loses the      *)
(* oldest ordinary ones.  Nothing in emit() awaits: it is one step.        *)
(***************************************************************************)
EXTENDS Integers, Sequences, FiniteSets, SequencesExt

CONSTANTS
    Subscribers,
    ReplayLimit,   \* replay_limit of the emitter
    QueueSize,     \* max_queue_size of every subscription
    MaxEvents      \* bound: ordinary events emitted

ASSUME RunEventsAssumption ==
    /\ IsFiniteSet(Subscribers)
    /\ ReplayLimit \in Nat \ {0} /\ QueueSize \in Nat \ {0} /\ MaxEvents \in Nat

VARIABLES
    emitted,    \* the sequence number of the last event; an event is its number
    ended,      \* the number of the terminal event, or NotYet
    history,    \* _history
    dropped,    \* dropped_events
    sub         \* per subscription: registered with the emitter, its queue, its reader

eventVars == <<emitted, ended, history, dropped, sub>>

NotYet == 0
End == 0                        \* _END, in a queue
Subscription(registered, queue, reader, got) ==
    [registered |-> registered, queue |-> queue, reader |-> reader, got |-> got]

EventsInit ==
    /\ emitted = 0 /\ ended = NotYet
    /\ history = <<>> /\ dropped = 0
    /\ sub = [s \in Subscribers |-> Subscription(FALSE, <<>>, "none", <<>>)]

-----------------------------------------------------------------------------
\* The first event that is not the terminal one goes, else the first.
WithoutOne(q, last) ==
    LET i == SelectInSeq(q, LAMBDA e : e # last) IN RemoveAt(q, IF i = 0 THEN 1 ELSE i)

\* _retain.
Retain(h, e, last) ==
    Append(IF Len(h) >= ReplayLimit THEN WithoutOne(h, last) ELSE h, e)

\* Variant: the place for _END is used as well.
CrowdedLater(q) == Len(q) > QueueSize

\* _enqueue: one place of the queue is left for _END.
Crowded(q) == Len(q) >= QueueSize

\* Variant: a full queue takes nothing more.
EnqueueIfRoom(q, e, last) == IF Crowded(q) THEN q ELSE Append(q, e)

Enqueue(q, e, last) == Append(IF Crowded(q) THEN WithoutOne(q, last) ELSE q, e)

\* _enqueue_end.
EnqueueEnd(q) == Append(IF Len(q) > QueueSize THEN Tail(q) ELSE q, End)

\* emit, by the Run or one nested in it.
Emit(terminal) ==
    LET e == emitted + 1
        last == IF terminal THEN e ELSE ended
        Delivered(r) == LET q == Enqueue(r.queue, e, last)
                        IN [r EXCEPT !.queue = IF terminal THEN EnqueueEnd(q) ELSE q]
        full == {s \in Subscribers : sub[s].registered /\ Crowded(sub[s].queue)} IN
    /\ ended = NotYet /\ (terminal \/ emitted < MaxEvents)
    /\ emitted' = e
    /\ ended' = last
    /\ history' = Retain(history, e, last)
    /\ sub' = [s \in Subscribers |-> IF sub[s].registered THEN Delivered(sub[s]) ELSE sub[s]]
    /\ dropped' = dropped + Cardinality(full)

\* The queue of a new subscription after its events were enqueued one by one.
Replayed(events) ==
    LET queue[i \in 0..Len(events)] ==
          IF i = 0 THEN <<>> ELSE Enqueue(queue[i - 1], events[i], ended)
    IN queue[Len(events)]

\* subscribe: the latest events are replayed, and the end if it has come.
Subscribe(s, replay) ==
    LET retained == SubSeq(history, IF replay < Len(history) THEN Len(history) - replay + 1
                                    ELSE 1, Len(history))
        q == Replayed(retained) IN
    /\ sub[s].reader = "none"
    /\ sub' = [sub EXCEPT ![s] =
                 Subscription(ended = NotYet, IF ended = NotYet THEN q ELSE EnqueueEnd(q),
                              "reading", <<>>)]
    /\ dropped' = dropped + Len(retained) - Len(q)
    /\ UNCHANGED <<emitted, ended, history>>

\* _remove: what is left of a queue, of which a registered subscription keeps nothing.
Removed(r, queue, reader) ==
    Subscription(FALSE, IF r.registered THEN <<>> ELSE queue, reader, r.got)

\* _iterate: the next event, or the end of the iteration, which closes.
Read(s) ==
    LET r == sub[s]  q == sub[s].queue IN
    /\ r.reader \in {"reading", "closed"} /\ q # <<>>
    /\ sub' = [sub EXCEPT ![s] =
                 IF Head(q) = End THEN Removed(r, Tail(q), "ended")
                 ELSE Subscription(r.registered, Tail(q), r.reader, Append(r.got, Head(q)))]
    /\ UNCHANGED <<emitted, ended, history, dropped>>

\* close() by another task, while the iterator may be waiting on the queue.
Close(s) ==
    /\ sub[s].reader = "reading"
    /\ sub' = [sub EXCEPT ![s] = Removed(sub[s], sub[s].queue, "closed")]
    /\ UNCHANGED <<emitted, ended, history, dropped>>

EventsNext ==
    \/ \E terminal \in BOOLEAN : Emit(terminal)
    \/ \E s \in Subscribers :
         \/ \E replay \in 1..ReplayLimit : Subscribe(s, replay)
         \/ Read(s)
         \/ Close(s)

EventsSpec == EventsInit /\ [][EventsNext]_eventVars

-----------------------------------------------------------------------------
\* What waits in a queue for its reader, without the mark of the end.
Waiting(q) == IF q # <<>> /\ q[Len(q)] = End THEN Front(q) ELSE q

\* What a reader has received, and what waits for it.
Stream(s) == sub[s].got \o Waiting(sub[s].queue)

\* The bounds of _retain and _enqueue: a queue has one place more than its limit, and
\* only the mark of the end takes it.
EventsTypeOK ==
    /\ emitted \in 0..MaxEvents + 1 /\ ended \in 0..emitted /\ dropped \in Nat
    /\ Len(history) <= ReplayLimit
    /\ \A s \in Subscribers : Len(Waiting(sub[s].queue)) <= QueueSize

\* What emit, subscribe and the eviction of old events keep: however slow a reader
\* is and whenever it subscribed, it sees events in the order of their numbers, and
\* every event missing between two it sees is counted in dropped_events.
GapsCounted ==
    /\ EventsTypeOK
    /\ \A s \in Subscribers :
         LET seen == Stream(s) IN
         /\ \A i \in 1..Len(seen) - 1 : seen[i] < seen[i + 1]
         /\ seen # <<>> => seen[Len(seen)] - seen[1] + 1 - Len(seen) <= dropped

\* _enqueue and _retain never give up the terminal event: after it, it is the last
\* event of the history, and every subscription nobody closed has it, or has it in
\* its queue, followed by the end of the iteration.
TerminalDelivered ==
    ended # NotYet =>
      /\ ended = emitted /\ history[Len(history)] = ended
      /\ \A s \in Subscribers :
           /\ sub[s].reader \in {"reading", "ended"} =>
                Stream(s) # <<>> /\ Stream(s)[Len(Stream(s))] = ended
           /\ sub[s].reader = "reading" => sub[s].queue[Len(sub[s].queue)] = End

=============================================================================
