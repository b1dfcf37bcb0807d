---------------------------- MODULE SessionProofs ----------------------------
(* Theorems about Session, for every set of handles and tasks and every bound. *)
EXTENDS SessionInvariant, SequenceTheorems, TLAPS

\* Appending a queued input adds its identity and no other.
LEMMA AppendIds ==
    ASSUME NEW m \in Seq(Nat), NEW p \in Seq(PendingItem), NEW item \in PendingItem
    PROVE  /\ Append(p, item) \in Seq(PendingItem)
           /\ IdsIn(m, Append(p, item)) = IdsIn(m, p) \cup {item.id}
<1> DEFINE q == Append(p, item)
<1>1. /\ q \in Seq(PendingItem) /\ Len(q) = Len(p) + 1
      /\ \A i \in 1..Len(p) : q[i] = p[i]
      /\ q[Len(p) + 1] = item
  BY AppendProperties
<1>2. /\ DOMAIN q = 1..(Len(p) + 1) /\ DOMAIN p = 1..Len(p) /\ Len(p) \in Nat
  BY <1>1, LenProperties
<1> HIDE DEF q
<1>3. {q[i].id : i \in DOMAIN q} = {p[i].id : i \in DOMAIN p} \cup {item.id}
  BY <1>1, <1>2
<1> QED BY <1>1, <1>3 DEF IdsIn, q

\* new is transcript m with the first n queued inputs of p and the facts behind it,
\* and rest is what remains of the queue.
Spliced(m, p, n, facts, new, rest) ==
    /\ new \in Seq(Nat) /\ Len(new) = (Len(m) + n) + Len(facts)
    /\ \A i \in 1..Len(m) : new[i] = m[i]
    /\ \A i \in 1..n : new[Len(m) + i] = p[i].id
    /\ \A i \in 1..Len(facts) : new[(Len(m) + n) + i] = facts[i]
    /\ rest \in Seq(PendingItem) /\ Len(rest) = Len(p) - n
    /\ \A i \in 1..(Len(p) - n) : rest[i] = p[n + i]

LEMMA SpliceParts ==
    ASSUME NEW m \in Seq(Nat), NEW p \in Seq(PendingItem),
           NEW n \in 0..Len(p), NEW facts \in Seq(Nat)
    PROVE  Spliced(m, p, n, facts, m \o PendingMessages(SubSeq(p, 1, n)) \o facts,
                   SubSeq(p, n + 1, Len(p)))
<1> DEFINE front == SubSeq(p, 1, n)
           moved == PendingMessages(front)
           rest  == SubSeq(p, n + 1, Len(p))
           half  == m \o moved
           new   == half \o facts
<1>1. /\ Len(p) \in Nat /\ DOMAIN p = 1..Len(p) /\ n \in Nat /\ n <= Len(p)
      /\ \A i \in 1..Len(p) : p[i] \in PendingItem
  BY LenProperties, ElementOfSeq
<1>2. /\ front \in Seq(PendingItem) /\ Len(front) = n
      /\ \A i \in 1..n : front[i] = p[i]
  <2>1. /\ 1 \in Int /\ n \in Int
        /\ \A i \in 1..n : p[i] \in PendingItem
    BY <1>1
  <2>2. /\ SubSeq(p, 1, n) \in Seq(PendingItem)
        /\ Len(SubSeq(p, 1, n)) = IF 1 <= n THEN n - 1 + 1 ELSE 0
        /\ \A i \in 1..(n - 1 + 1) : SubSeq(p, 1, n)[i] = p[1 + i - 1]
    BY <2>1, SubSeqProperties
  <2> QED BY <2>2, <1>1
<1>3. /\ rest \in Seq(PendingItem) /\ Len(rest) = Len(p) - n
      /\ \A i \in 1..(Len(p) - n) : rest[i] = p[n + i]
  <2>1. /\ n + 1 \in Int /\ Len(p) \in Int
        /\ \A i \in (n + 1)..Len(p) : p[i] \in PendingItem
    BY <1>1
  <2>2. /\ rest \in Seq(PendingItem)
        /\ Len(rest) = IF n + 1 <= Len(p) THEN Len(p) - (n + 1) + 1 ELSE 0
        /\ \A i \in 1..(Len(p) - (n + 1) + 1) : rest[i] = p[n + 1 + i - 1]
    BY <2>1, SubSeqProperties
  <2>3. Len(p) - (n + 1) + 1 = Len(p) - n
    BY <1>1
  <2>4. \A i \in 1..(Len(p) - n) : rest[i] = p[n + i]
    <3> TAKE i \in 1..(Len(p) - n)
    <3>1. n + 1 + i - 1 = n + i
      BY <1>1
    <3> QED BY <2>2, <2>3, <3>1
  <2>5. Len(rest) = Len(p) - n
    BY <2>2, <2>3, <1>1
  <2> QED BY <2>2, <2>4, <2>5
<1>4. moved = [i \in DOMAIN front |-> front[i].id]
  BY DEF PendingMessages
<1> HIDE DEF front, rest, moved
<1>5. /\ moved \in Seq(Nat) /\ Len(moved) = n
      /\ \A i \in 1..n : moved[i] = p[i].id
  <2>1. DOMAIN front = 1..n
    BY <1>2, LenProperties
  <2>2. moved = [i \in 1..n |-> front[i].id] /\ \A i \in 1..n : front[i].id \in Nat
    BY <1>1, <1>2, <1>4, <2>1 DEF PendingItem
  <2>3. moved \in [1..n -> Nat]
    BY <2>2
  <2>4. moved \in Seq(Nat)
    BY <2>3, <1>1, SeqDef
  <2> QED BY <1>1, <1>2, <2>2, <2>3, <2>4
<1>6. /\ half \in Seq(Nat) /\ Len(half) = Len(m) + n
      /\ \A i \in 1..(Len(m) + n) :
            half[i] = IF i <= Len(m) THEN m[i] ELSE moved[i - Len(m)]
  BY <1>5, ConcatProperties
<1> HIDE DEF half
<1>7. /\ new \in Seq(Nat) /\ Len(new) = Len(half) + Len(facts)
      /\ \A i \in 1..(Len(half) + Len(facts)) :
            new[i] = IF i <= Len(half) THEN half[i] ELSE facts[i - Len(half)]
  BY <1>6, ConcatProperties
<1> HIDE DEF new
<1>8. Len(new) = (Len(m) + n) + Len(facts) /\ Len(m) \in Nat /\ Len(facts) \in Nat
  BY <1>6, <1>7, LenProperties
<1>9. ASSUME NEW i \in 1..Len(m)
      PROVE  new[i] = m[i]
  <2>1. /\ i \in 1..(Len(m) + n) /\ i <= Len(m)
        /\ i \in 1..(Len(half) + Len(facts)) /\ i <= Len(half)
    BY SMTT(30), <1>1, <1>6, <1>8
  <2> QED BY <2>1, <1>6, <1>7
<1>10. ASSUME NEW i \in 1..n
       PROVE  new[Len(m) + i] = p[i].id
  <2>1. /\ Len(m) + i \in 1..(Len(m) + n) /\ ~(Len(m) + i <= Len(m))
        /\ (Len(m) + i) - Len(m) = i
        /\ Len(m) + i \in 1..(Len(half) + Len(facts)) /\ Len(m) + i <= Len(half)
    BY <1>1, <1>6, <1>8
  <2> QED BY <2>1, <1>5, <1>6, <1>7
<1>11. ASSUME NEW i \in 1..Len(facts)
       PROVE  new[(Len(m) + n) + i] = facts[i]
  <2>1. /\ (Len(m) + n) + i \in 1..(Len(half) + Len(facts))
        /\ ~((Len(m) + n) + i <= Len(half)) /\ ((Len(m) + n) + i) - Len(half) = i
    BY <1>1, <1>6, <1>8
  <2> QED BY <2>1, <1>7
<1>12. Spliced(m, p, n, facts, new, rest)
  BY <1>3, <1>7, <1>8, <1>9, <1>10, <1>11 DEF Spliced
<1> USE DEF half, moved, front, new, rest
<1> QED BY ONLY <1>12

\* It loses no identity and extends the transcript at its end.
LEMMA SpliceIds ==
    ASSUME NEW m \in Seq(Nat), NEW p \in Seq(PendingItem),
           NEW n \in 0..Len(p), NEW facts \in Seq(Nat)
    PROVE  LET new  == m \o PendingMessages(SubSeq(p, 1, n)) \o facts
               rest == SubSeq(p, n + 1, Len(p))
           IN  /\ new \in Seq(Nat) /\ rest \in Seq(PendingItem)
               /\ IsPrefix(m, new)
               /\ IdsIn(m, p) \subseteq IdsIn(new, rest)
<1> DEFINE new  == m \o PendingMessages(SubSeq(p, 1, n)) \o facts
           rest == SubSeq(p, n + 1, Len(p))
<1>1. Spliced(m, p, n, facts, new, rest)
  BY SpliceParts
<1> HIDE DEF new, rest
<1>2. /\ Len(p) \in Nat /\ n \in Nat /\ n <= Len(p) /\ Len(m) \in Nat /\ Len(facts) \in Nat
      /\ DOMAIN p = 1..Len(p) /\ DOMAIN m = 1..Len(m)
      /\ DOMAIN new = 1..Len(new) /\ DOMAIN rest = 1..Len(rest)
  BY <1>1, LenProperties DEF Spliced
<1>3. IsPrefix(m, new)
  BY <1>1, <1>2 DEF IsPrefix, Spliced
<1>4. ASSUME NEW x \in IdsIn(m, p)
      PROVE  x \in IdsIn(new, rest)
  <2>1. CASE \E i \in DOMAIN m : x = m[i]
    <3>1. PICK i \in 1..Len(m) : x = m[i]
      BY <2>1, <1>2
    <3>2. i \in DOMAIN new /\ new[i] = x
      BY <3>1, <1>1, <1>2 DEF Spliced
    <3> QED BY <3>2 DEF IdsIn
  <2>2. CASE \E i \in DOMAIN p : x = p[i].id
    <3>1. PICK i \in 1..Len(p) : x = p[i].id
      BY <2>2, <1>2
    <3>2. CASE i <= n
      <4>1. Len(m) + i \in DOMAIN new /\ new[Len(m) + i] = x
        BY SMTT(30), <3>1, <3>2, <1>1, <1>2 DEF Spliced
      <4> QED BY <4>1 DEF IdsIn
    <3>3. CASE i > n
      <4>1. i - n \in 1..(Len(p) - n) /\ n + (i - n) = i
        BY <3>3, <1>2
      <4>2. i - n \in DOMAIN rest /\ rest[i - n].id = x
        BY <3>1, <4>1, <1>1, <1>2 DEF Spliced
      <4> QED BY <4>2 DEF IdsIn
    <3> QED BY <3>2, <3>3, <1>2
  <2> QED BY <2>1, <2>2 DEF IdsIn
<1>5. /\ new \in Seq(Nat) /\ rest \in Seq(PendingItem)
      /\ IsPrefix(m, new)
      /\ IdsIn(m, p) \subseteq IdsIn(new, rest)
  BY <1>1, <1>3, <1>4 DEF Spliced
<1> USE DEF new, rest
<1> QED BY ONLY <1>5

-----------------------------------------------------------------------------
\* The new states of a handle.

\* What each mutation of a handle keeps: the type, the next revision, and a
\* state that holds everything the old one did, apart from the inputs in gone.
Successor(old, new, gone) ==
    /\ new \in Snapshot
    /\ new.revision = old.revision + 1
    /\ Descends(old, new, gone)

\* Queueing an input adds its identity.
LEMMA QueuedState ==
    ASSUME NEW s \in Snapshot, NEW id \in Nat, NEW gone
    PROVE  Successor(s, Queued(s, id), gone) /\ id \in Ids(Queued(s, id))
<1> DEFINE item == [id |-> id, sequence |-> s.sequence + 1]
           q == Append(s.pending, item)
<1>1. /\ s.revision \in Int /\ s.sequence \in Nat
      /\ s.messages \in Seq(Nat) /\ s.pending \in Seq(PendingItem)
  BY DEF Snapshot
<1>2. item \in PendingItem
  BY <1>1 DEF PendingItem
<1>3. q \in Seq(PendingItem) /\ IdsIn(s.messages, q) = IdsIn(s.messages, s.pending) \cup {id}
  BY <1>1, <1>2, AppendIds
<1>4. Queued(s, id) = [revision |-> s.revision + 1, sequence |-> s.sequence + 1,
                       messages |-> s.messages, pending |-> q]
  BY DEF Queued
<1> HIDE DEF q, item
<1>5. Queued(s, id) \in Snapshot /\ Queued(s, id).revision = s.revision + 1
  BY <1>1, <1>3, <1>4 DEF Snapshot
<1>6. Ids(Queued(s, id)) = Ids(s) \cup {id}
  BY <1>3, <1>4 DEF Ids
<1>7. IsPrefix(s.messages, Queued(s, id).messages)
  BY <1>1, <1>4, LenProperties DEF IsPrefix
<1> QED BY <1>5, <1>6, <1>7 DEF Successor, Descends

\* Emptying the queue loses its inputs and nothing else.
LEMMA EmptiedState ==
    ASSUME NEW s \in Snapshot, NEW gone, PendingIds(s) \subseteq gone
    PROVE  Successor(s, Emptied(s), gone)
<1>1. /\ s.revision \in Int /\ s.sequence \in Nat
      /\ s.messages \in Seq(Nat) /\ s.pending \in Seq(PendingItem)
  BY DEF Snapshot
<1>2. Emptied(s) \in Snapshot /\ Emptied(s).revision = s.revision + 1
  BY <1>1, EmptySeq DEF Emptied, Snapshot
<1>3. Ids(s) \subseteq Ids(Emptied(s)) \cup gone
  BY DEF Ids, IdsIn, Emptied, PendingIds
<1>4. IsPrefix(s.messages, Emptied(s).messages)
  BY <1>1, LenProperties DEF IsPrefix, Emptied
<1> QED BY <1>2, <1>3, <1>4 DEF Successor, Descends

\* A change the properties do not look into keeps everything.
LEMMA TouchedState ==
    ASSUME NEW s \in Snapshot, NEW gone
    PROVE  Successor(s, Touched(s), gone)
<1>1. /\ s.revision \in Int /\ s.sequence \in Nat
      /\ s.messages \in Seq(Nat) /\ s.pending \in Seq(PendingItem)
  BY DEF Snapshot
<1>2. Touched(s) \in Snapshot /\ Touched(s).revision = s.revision + 1
  BY <1>1 DEF Touched, Snapshot
<1>3. Ids(s) \subseteq Ids(Touched(s)) \cup gone
  BY DEF Ids, Touched
<1>4. IsPrefix(s.messages, Touched(s).messages)
  BY <1>1, LenProperties DEF IsPrefix, Touched
<1> QED BY <1>2, <1>3, <1>4 DEF Successor, Descends

\* Committing queued inputs and facts to the transcript keeps everything.
LEMMA CommittedState ==
    ASSUME NEW s \in Snapshot, NEW n \in 0..Len(s.pending), NEW facts \in Seq(Nat),
           NEW gone
    PROVE  Successor(s, Committed(s, n, facts), gone)
<1> DEFINE new  == s.messages \o PendingMessages(SubSeq(s.pending, 1, n)) \o facts
           rest == SubSeq(s.pending, n + 1, Len(s.pending))
<1>1. /\ s.revision \in Int /\ s.sequence \in Nat
      /\ s.messages \in Seq(Nat) /\ s.pending \in Seq(PendingItem)
  BY DEF Snapshot
<1>2. /\ new \in Seq(Nat) /\ rest \in Seq(PendingItem)
      /\ IsPrefix(s.messages, new)
      /\ IdsIn(s.messages, s.pending) \subseteq IdsIn(new, rest)
  BY <1>1, SpliceIds
<1>3. Committed(s, n, facts) = [revision |-> s.revision + 1, sequence |-> s.sequence,
                                messages |-> new, pending |-> rest]
  BY DEF Committed
<1> HIDE DEF new, rest
<1>4. Committed(s, n, facts) \in Snapshot /\ Committed(s, n, facts).revision = s.revision + 1
  BY <1>1, <1>2, <1>3 DEF Snapshot
<1>5. Ids(s) \subseteq Ids(Committed(s, n, facts)) \cup gone
  BY <1>2, <1>3 DEF Ids
<1>6. IsPrefix(s.messages, Committed(s, n, facts).messages)
  BY <1>2, <1>3
<1> QED BY <1>4, <1>5, <1>6 DEF Successor, Descends

\* A handle's queue gains new inputs only, those numbered from next on.
Grown(old, new, next) ==
    \A x \in PendingIds(new) : x \in PendingIds(old) \/ next <= x

LEMMA GrownStates ==
    ASSUME NEW s \in Snapshot, NEW id \in Nat
    PROVE  /\ Grown(s, s, id) /\ Grown(s, Queued(s, id), id)
           /\ Grown(s, Touched(s), id) /\ Grown(s, Emptied(s), id)
           /\ PendingIds(Emptied(s)) = {}
           /\ \A n \in 0..Len(s.pending), facts \in Seq(Nat) : Grown(s, Committed(s, n, facts), id)
<1>1. /\ s.messages \in Seq(Nat) /\ s.pending \in Seq(PendingItem) /\ s.sequence \in Nat
      /\ Len(s.pending) \in Nat /\ DOMAIN s.pending = 1..Len(s.pending)
  BY LenProperties DEF Snapshot
<1>2. Grown(s, s, id) /\ Grown(s, Touched(s), id)
  BY DEF Grown, Touched, PendingIds
<1>3. PendingIds(Emptied(s)) = {} /\ Grown(s, Emptied(s), id)
  <2>1. DOMAIN <<>> = {}
    OBVIOUS
  <2>2. PendingIds(Emptied(s)) = {}
    BY <2>1 DEF PendingIds, Emptied
  <2> QED BY <2>2 DEF Grown
<1>4. Grown(s, Queued(s, id), id)
  <2> DEFINE item == [id |-> id, sequence |-> s.sequence + 1]
             q == Append(s.pending, item)
  <2>1. item \in PendingItem /\ item.id = id
    BY <1>1 DEF PendingItem
  <2> HIDE DEF item
  <2>2. /\ q \in Seq(PendingItem) /\ Len(q) = Len(s.pending) + 1
        /\ \A i \in 1..Len(s.pending) : q[i] = s.pending[i]
        /\ q[Len(s.pending) + 1] = item
    BY <1>1, <2>1, AppendProperties
  <2>3. DOMAIN q = 1..(Len(s.pending) + 1)
    BY <2>2, LenProperties
  <2>4. Queued(s, id).pending = q
    BY DEF Queued, item
  <2> HIDE DEF q
  <2>5. \A i \in DOMAIN q : q[i].id = id \/ (i \in DOMAIN s.pending /\ q[i] = s.pending[i])
    BY SMTT(30), <1>1, <2>1, <2>2, <2>3
  <2>6. \A x \in PendingIds(Queued(s, id)) : x \in PendingIds(s) \/ x = id
    BY <2>4, <2>5 DEF PendingIds
  <2> QED BY <2>6 DEF Grown
<1>5. ASSUME NEW n \in 0..Len(s.pending), NEW facts \in Seq(Nat)
      PROVE  Grown(s, Committed(s, n, facts), id)
  <2> DEFINE new  == s.messages \o PendingMessages(SubSeq(s.pending, 1, n)) \o facts
             rest == SubSeq(s.pending, n + 1, Len(s.pending))
  <2>1. Spliced(s.messages, s.pending, n, facts, new, rest)
    BY <1>1, SpliceParts
  <2>2. Committed(s, n, facts).pending = rest
    BY DEF Committed
  <2> HIDE DEF new, rest
  <2>3. /\ DOMAIN rest = 1..(Len(s.pending) - n)
        /\ \A i \in 1..(Len(s.pending) - n) : rest[i] = s.pending[n + i]
    BY <2>1, LenProperties DEF Spliced
  <2>4. \A i \in 1..(Len(s.pending) - n) : n + i \in DOMAIN s.pending
    BY <1>1
  <2>5. \A x \in PendingIds(Committed(s, n, facts)) : x \in PendingIds(s)
    BY <2>2, <2>3, <2>4 DEF PendingIds
  <2> QED BY <2>5 DEF Grown
<1> QED BY <1>2, <1>3, <1>4, <1>5

-----------------------------------------------------------------------------
\* Type correctness.

LEMMA IdleTaskType ==
    /\ IdleTask \in TaskState /\ ShapeOf(IdleTask)
    /\ Absent \in Snapshot /\ Fresh \in Snapshot
<1>1. Absent \in Snapshot /\ Fresh \in Snapshot
  BY EmptySeq DEF Absent, Fresh, Snapshot, None
<1>2. IdleTask \in TaskState
  BY <1>1, EmptySeq DEF IdleTask, TaskState, None, Pcs
<1>3. ShapeOf(IdleTask)
  BY DEF ShapeOf, IdleTask
<1> QED BY <1>1, <1>2, <1>3

\* One task moves to d; the lock is kept, released, or taken by that task.
LEMMA TaskStep ==
    ASSUME TypeInv, NEW t \in Tasks, NEW d \in TaskState, ShapeOf(d),
           task' = [task EXCEPT ![t] = d],
           run' = run, task[t].op = "run" => d.op = "run" /\ d.h = task[t].h,
           holder' \in [Handles -> Tasks \cup {NoTask}],
           \A h \in Handles : holder'[h] = t => SavesOn(d, h),
           \A h \in Handles : holder'[h] # t => holder'[h] \in {holder[h], NoTask}
    PROVE  task' \in [Tasks -> TaskState] /\ HoldersSave' /\ OwnersRun' /\ TaskShape'
<1>1. task \in [Tasks -> TaskState] /\ HoldersSave /\ OwnersRun /\ TaskShape
  BY DEF TypeInv, TypeOK, Types
<1>2. task' \in [Tasks -> TaskState]
  BY <1>1
<1>3. \A u \in Tasks : task'[u] = IF u = t THEN d ELSE task[u]
  BY <1>1
<1>4. TaskShape'
  BY <1>1, <1>3 DEF TaskShape, ShapeOf
<1>5. HoldersSave'
  <2> SUFFICES ASSUME NEW h \in Handles, holder'[h] # NoTask
               PROVE  SavesOn(task'[holder'[h]], h)
    BY DEF HoldersSave, SavesOn
  <2>1. CASE holder'[h] = t
    BY <2>1, <1>3
  <2>2. CASE holder'[h] # t
    <3>1. holder'[h] = holder[h] /\ holder[h] # NoTask /\ holder'[h] \in Tasks
      BY <2>2
    <3>2. task'[holder'[h]] = task[holder[h]]
      BY <2>2, <3>1, <1>3
    <3> QED BY <3>1, <3>2, <1>1 DEF HoldersSave
  <2> QED BY <2>1, <2>2
<1>6. OwnersRun'
  <2> SUFFICES ASSUME NEW h \in Handles, run[h] # NoTask
               PROVE  task'[run[h]].h = h /\ task'[run[h]].op = "run"
    BY DEF OwnersRun
  <2>1. run[h] \in Tasks /\ task[run[h]].h = h /\ task[run[h]].op = "run"
    BY <1>1 DEF OwnersRun, TypeInv, TypeOK, Types
  <2> QED BY <2>1, <1>3
<1> QED BY <1>2, <1>4, <1>5, <1>6

\* The parts of TypeInv the tasks and the lock are in.
TasksInv == /\ task \in [Tasks -> TaskState] /\ holder \in [Handles -> Tasks \cup {NoTask}]
            /\ HoldersSave /\ OwnersRun /\ TaskShape

\* A call that may start or go on to mutate its handle.
Mutator(t, c) ==
    /\ c \in TaskState /\ c.h \in Handles /\ c.op # "delete"
    /\ task[t].pc \in {"idle", "initial", "turn"}
    /\ task[t].op = "run" => c.op = "run" /\ c.h = task[t].h

LEMMA MutateType ==
    ASSUME TypeInv, SessionAssumption, NEW t \in Tasks, NEW c, Mutator(t, c),
           NEW s \in Snapshot, MutateAndPersist(t, c, s), run' = run
    PROVE  /\ TasksInv' /\ mem' \in [Handles -> Snapshot]
           /\ UNCHANGED <<record, status, durable, orphans>>
<1>1. /\ c \in TaskState /\ c.h \in Handles /\ c.op # "delete"
      /\ durable \in [Handles -> Int] /\ mem \in [Handles -> Snapshot]
      /\ holder \in [Handles -> Tasks \cup {NoTask}]
      /\ s.revision \in Int /\ t # NoTask
  BY DEF Mutator, TypeInv, TypeOK, Types, Snapshot, SessionAssumption
<1> DEFINE need == [c EXCEPT !.need = s.revision]
           fast == Save(need, s)
           slow == [need EXCEPT !.pc = "waiting"]
<1>2. mem' \in [Handles -> Snapshot] /\ UNCHANGED <<record, status, durable, orphans>>
  BY <1>1 DEF MutateAndPersist
<1>3. need \in TaskState /\ need.h = c.h /\ need.op = c.op
  BY <1>1 DEF TaskState
<1>4. fast \in TaskState /\ ShapeOf(fast) /\ fast.pc = "saving" /\ fast.op = c.op /\ fast.h = c.h
  BY <1>1, <1>3 DEF Save, TaskState, ShapeOf, Pcs
<1>5. slow \in TaskState /\ ShapeOf(slow) /\ slow.op = c.op /\ slow.h = c.h
  BY <1>1, <1>3 DEF TaskState, ShapeOf, Pcs
<1>6. \A h \in Handles : holder[h] # t
  BY <1>1 DEF Mutator, TypeInv, TypeOK, HoldersSave, SavesOn
<1>7. task[t].op = "run" => c.op = "run" /\ c.h = task[t].h
  BY DEF Mutator
<1>8. \/ /\ holder' = [holder EXCEPT ![c.h] = t]
         /\ task' = [task EXCEPT ![t] = fast]
      \/ /\ task' = [task EXCEPT ![t] = slow]
         /\ holder' = holder
  BY <1>3 DEF MutateAndPersist
<1> HIDE DEF need, fast, slow
<1>9. CASE holder' = [holder EXCEPT ![c.h] = t] /\ task' = [task EXCEPT ![t] = fast]
  <2>1. holder' \in [Handles -> Tasks \cup {NoTask}]
    BY <1>9, <1>1
  <2>2. \A h \in Handles : holder'[h] = t => SavesOn(fast, h)
    BY <1>9, <1>1, <1>4, <1>6 DEF SavesOn
  <2>3. \A h \in Handles : holder'[h] # t => holder'[h] \in {holder[h], NoTask}
    BY <1>9, <1>1
  <2>4. task[t].op = "run" => fast.op = "run" /\ fast.h = task[t].h
    BY <1>4, <1>7
  <2> QED BY <1>2, <1>4, <1>9, <2>1, <2>2, <2>3, <2>4, TaskStep DEF TasksInv
<1>10. CASE holder' = holder /\ task' = [task EXCEPT ![t] = slow]
  <2>1. holder' \in [Handles -> Tasks \cup {NoTask}]
    BY <1>10, <1>1
  <2>2. \A h \in Handles : holder'[h] = t => SavesOn(slow, h)
    BY <1>10, <1>6
  <2>3. \A h \in Handles : holder'[h] # t => holder'[h] \in {holder[h], NoTask}
    BY <1>10
  <2>4. task[t].op = "run" => slow.op = "run" /\ slow.h = task[t].h
    BY <1>5, <1>7
  <2> QED BY <1>2, <1>5, <1>10, <2>1, <2>2, <2>3, <2>4, TaskStep DEF TasksInv
<1> QED BY <1>8, <1>9, <1>10

\* The parts of TypeInv that are data.
DataInv ==
    /\ record \in Snapshot
    /\ status \in [Handles -> {"none", "open", "closed"}]
    /\ mem \in [Handles -> Snapshot]
    /\ durable \in [Handles -> Int]
    /\ run \in [Handles -> Tasks \cup {NoTask}]
    /\ orphans \subseteq TaskState
    /\ nextId \in Nat \ {0}
    /\ acked \subseteq Nat /\ cleared \subseteq Nat
    /\ purged \subseteq Nat /\ dropped \subseteq Nat
    /\ buried \in BOOLEAN

LEMMA TypeInvParts == TypeInv <=> DataInv /\ TasksInv
BY DEF TypeInv, TypeOK, Types, DataInv, TasksInv

\* A busy task is on a handle, and its call is well typed.
LEMMA BusyTask ==
    ASSUME TypeInv, NEW t \in Tasks, task[t].pc # "idle"
    PROVE  /\ task[t] \in TaskState /\ ShapeOf(task[t]) /\ task[t].h \in Handles
           /\ mem[task[t].h] \in Snapshot /\ durable[task[t].h] \in Int
           /\ \A h \in Handles : holder[h] = t => SavesOn(task[t], h)
<1>1. t # NoTask => \A h \in Handles : holder[h] = t => SavesOn(task[t], h)
  BY DEF TypeInv, TypeOK, HoldersSave
<1>2. task[t] \in TaskState /\ ShapeOf(task[t])
  BY DEF TypeInv, TypeOK, Types, TaskShape
<1>3. task[t].h \in Handles
  BY <1>2 DEF ShapeOf
<1> QED BY <1>1, <1>2, <1>3, SessionAssumption DEF SessionAssumption, TypeInv, TypeOK, Types

\* An idle task holds no lock.
LEMMA IdleHoldsNothing ==
    ASSUME TypeInv, NEW t \in Tasks,
           task[t].pc \notin {"saving", "saved", "refused", "failed"} \/ task[t].op = "delete"
    PROVE  \A h \in Handles : holder[h] # t
BY SessionAssumption DEF SessionAssumption, TypeInv, TypeOK, HoldersSave, SavesOn

\* The calls that a host begins.
LEMMA CallMutates ==
    ASSUME TypeInv, NEW t \in Tasks, Idle(t), NEW h \in Handles, NEW ids \in SUBSET Nat,
           NEW op \in {"steer", "clear", "metadata", "persist", "run"}
    PROVE  /\ Mutator(t, Call(op, h, ids)) /\ Call(op, h, ids).op = op
           /\ Call(op, h, ids).h = h /\ Call(op, h, ids).ids = ids
<1>1. task[t] = IdleTask
  BY DEF TypeInv, TaskShape, ShapeOf, Idle
<1>2. Call(op, h, ids) \in TaskState
  BY IdleTaskType DEF Call, IdleTask, TaskState, AllOps
<1>3. Call(op, h, ids).op = op /\ Call(op, h, ids).h = h /\ Call(op, h, ids).ids = ids
  BY DEF Call, IdleTask
<1>4. IdleTask.pc = "idle" /\ IdleTask.op = "none"
  BY DEF IdleTask
<1> QED BY <1>1, <1>2, <1>3, <1>4 DEF Mutator

\* A Run in its initial commit or in a turn mutates its handle.
LEMMA RunMutates ==
    ASSUME TypeInv, NEW t \in Tasks, task[t].pc \in {"initial", "turn"}
    PROVE  Mutator(t, task[t]) /\ task[t].op = "run"
BY BusyTask DEF Mutator, ShapeOf

-----------------------------------------------------------------------------
\* The seven actions that mutate a handle, as instances of one step.

Mutates(t, c, s) ==
    /\ Mutator(t, c) /\ MutateAndPersist(t, c, s)
    /\ Successor(mem[c.h], s, cleared')
    /\ Grown(mem[c.h], s, nextId)
    /\ c.op = "steer" => c.ids \subseteq Ids(s)
    /\ c.op = "clear" => c.ids = PendingIds(mem[c.h]) /\ PendingIds(s) = {}
    /\ task[t].pc = "idle" => Live(c.h)
    /\ task[t].pc # "idle" => c = task[t]
    /\ nextId' \in Nat \ {0} /\ nextId <= nextId'
    /\ cleared' \in SUBSET Nat /\ cleared \subseteq cleared'
    /\ UNCHANGED <<run, acked, purged, dropped, buried>>

LEMMA EnqueueMutates ==
    ASSUME TypeInv, NEW t \in Tasks, NEW h \in Handles, Enqueue(t, h)
    PROVE  \E c \in TaskState, s \in Snapshot : Mutates(t, c, s)
<1> DEFINE c == Call("steer", h, {nextId})
           s == Queued(mem[h], nextId)
<1>1. mem[h] \in Snapshot /\ nextId \in Nat \ {0} /\ cleared \in SUBSET Nat
  BY DEF TypeInv, TypeOK, Types
<1>2. /\ Idle(t) /\ Live(h) /\ MutateAndPersist(t, c, s)
      /\ nextId' = nextId + 1 /\ cleared' = cleared
      /\ UNCHANGED <<run, acked, purged, dropped, buried>>
  BY DEF Enqueue, Live, history
<1>3. Mutator(t, c) /\ c.op = "steer" /\ c.h = h /\ c.ids = {nextId}
  BY <1>1, <1>2, CallMutates
<1>4. Successor(mem[h], s, cleared') /\ nextId \in Ids(s) /\ Grown(mem[h], s, nextId)
  BY <1>1, QueuedState, GrownStates
<1> HIDE DEF c, s
<1>5. c \in TaskState /\ s \in Snapshot
  BY <1>3, <1>4 DEF Mutator, Successor
<1>6. Mutates(t, c, s)
  BY <1>1, <1>2, <1>3, <1>4 DEF Mutates, Idle
<1> QED BY <1>5, <1>6

LEMMA ClearMutates ==
    ASSUME TypeInv, NEW t \in Tasks, NEW h \in Handles, ClearPending(t, h)
    PROVE  \E c \in TaskState, s \in Snapshot : Mutates(t, c, s)
<1> DEFINE ids == PendingIds(mem[h])
           c == Call("clear", h, ids)
           s == Emptied(mem[h])
<1>1. mem[h] \in Snapshot /\ nextId \in Nat \ {0} /\ cleared \in SUBSET Nat
  BY DEF TypeInv, TypeOK, Types
<1>2. ids \in SUBSET Nat
  <2>1. mem[h].pending \in Seq(PendingItem)
    BY <1>1 DEF Snapshot
  <2>2. \A i \in DOMAIN mem[h].pending : mem[h].pending[i] \in PendingItem
    BY <2>1, ElementOfSeq, LenProperties
  <2> QED BY <2>2 DEF PendingIds, PendingItem
<1>3. /\ Idle(t) /\ Live(h) /\ MutateAndPersist(t, c, s)
      /\ nextId' = nextId /\ cleared' = cleared \cup ids
      /\ UNCHANGED <<run, acked, purged, dropped, buried>>
  BY DEF ClearPending
<1>4. Mutator(t, c) /\ c.op = "clear" /\ c.h = h /\ c.ids = ids
  BY <1>1, <1>2, <1>3, CallMutates
<1>5. Successor(mem[h], s, cleared') /\ Grown(mem[h], s, nextId) /\ PendingIds(s) = {}
  BY <1>1, <1>3, EmptiedState, GrownStates
<1> HIDE DEF c, s, ids
<1>6. c \in TaskState /\ s \in Snapshot
  BY <1>4, <1>5 DEF Mutator, Successor
<1>7. nextId' \in Nat \ {0} /\ nextId <= nextId' /\ cleared' \in SUBSET Nat /\ cleared \subseteq cleared'
  BY <1>1, <1>2, <1>3
<1>8. Mutates(t, c, s)
  BY <1>3, <1>4, <1>5, <1>7 DEF Mutates, Idle, ids
<1> QED BY <1>6, <1>8

LEMMA MetadataMutates ==
    ASSUME TypeInv, NEW t \in Tasks, NEW h \in Handles, SetMetadata(t, h)
    PROVE  \E c \in TaskState, s \in Snapshot : Mutates(t, c, s)
<1> DEFINE c == Call("metadata", h, {})
           s == Touched(mem[h])
<1>1. mem[h] \in Snapshot /\ nextId \in Nat \ {0} /\ cleared \in SUBSET Nat
  BY DEF TypeInv, TypeOK, Types
<1>2. /\ Idle(t) /\ Live(h) /\ MutateAndPersist(t, c, s)
      /\ nextId' = nextId /\ cleared' = cleared
      /\ UNCHANGED <<run, acked, purged, dropped, buried>>
  BY DEF SetMetadata, history
<1>3. Mutator(t, c) /\ c.op = "metadata" /\ c.h = h
  BY <1>1, <1>2, CallMutates
<1>4. Successor(mem[h], s, cleared') /\ Grown(mem[h], s, nextId)
  BY <1>1, TouchedState, GrownStates
<1> HIDE DEF c, s
<1>5. c \in TaskState /\ s \in Snapshot
  BY <1>3, <1>4 DEF Mutator, Successor
<1>6. Mutates(t, c, s)
  BY <1>1, <1>2, <1>3, <1>4 DEF Mutates, Idle
<1> QED BY <1>5, <1>6

\* The three steps of a Run's turn.
LEMMA TurnMutates ==
    ASSUME TypeInv, NEW t \in Tasks,
           ConsumePending(t) \/ CommitFacts(t) \/ CommitCompaction(t)
    PROVE  \E c \in TaskState, s \in Snapshot : Mutates(t, c, s)
<1> DEFINE c == task[t]
           s == mem[c.h]
<1>1. /\ c.pc = "turn" /\ nextId' = nextId /\ cleared' = cleared
      /\ UNCHANGED <<run, acked, purged, dropped, buried>>
      /\ \/ MutateAndPersist(t, c, Committed(s, Len(s.pending), <<>>))
         \/ MutateAndPersist(t, c, Committed(s, 0, <<Reply>>))
         \/ MutateAndPersist(t, c, Touched(s))
  BY DEF ConsumePending, CommitFacts, CommitCompaction, history
<1>2. c \in TaskState /\ s \in Snapshot
  BY <1>1, BusyTask
<1>3. nextId \in Nat \ {0} /\ cleared \in SUBSET Nat
  BY DEF TypeInv, TypeOK, Types
<1>4. Mutator(t, c) /\ c.op = "run"
  BY <1>1, RunMutates
<1>5. <<>> \in Seq(Nat) /\ <<Reply>> \in Seq(Nat) /\ Len(s.pending) \in 0..Len(s.pending)
      /\ 0 \in 0..Len(s.pending)
  <2>1. s.pending \in Seq(PendingItem)
    BY <1>2 DEF Snapshot
  <2>2. Len(s.pending) \in Nat
    BY <2>1, LenProperties
  <2> QED BY <2>2, EmptySeq DEF Reply
<1>6. /\ Successor(s, Committed(s, Len(s.pending), <<>>), cleared')
      /\ Successor(s, Committed(s, 0, <<Reply>>), cleared')
      /\ Successor(s, Touched(s), cleared')
      /\ Grown(s, Committed(s, Len(s.pending), <<>>), nextId)
      /\ Grown(s, Committed(s, 0, <<Reply>>), nextId) /\ Grown(s, Touched(s), nextId)
  BY <1>2, <1>3, <1>5, CommittedState, TouchedState, GrownStates
<1> HIDE DEF c, s
<1>7. ASSUME NEW new, MutateAndPersist(t, c, new), Successor(s, new, cleared'),
             Grown(s, new, nextId)
      PROVE  new \in Snapshot /\ Mutates(t, c, new)
  BY <1>1, <1>3, <1>4, <1>7 DEF Mutates, Successor, c, s
<1> QED BY <1>1, <1>2, <1>6, <1>7

\* The initial commit of a Run, when it has something to commit.
LEMMA InitialMutates ==
    ASSUME TypeInv, NEW t \in Tasks, CommitInitial(t)
    PROVE  \/ \E c \in TaskState, s \in Snapshot : Mutates(t, c, s)
           \/ /\ task[t].pc = "initial" /\ task' = [task EXCEPT ![t].pc = "turn"]
              /\ UNCHANGED <<record, handleVars, orphans, nextId, history>>
<1> DEFINE c == task[t]
           s == mem[c.h]
<1>1. /\ c.pc = "initial" /\ nextId' = nextId /\ cleared' = cleared
      /\ UNCHANGED <<run, history>>
  BY DEF CommitInitial, history
<1>2. PICK count \in 0..Len(s.pending) :
         \/ MutateAndPersist(t, c, Committed(s, count, c.own))
         \/ /\ task' = [task EXCEPT ![t].pc = "turn"]
            /\ UNCHANGED <<record, status, mem, durable, holder, orphans>>
  BY DEF CommitInitial
<1>3. c \in TaskState /\ s \in Snapshot
  BY <1>1, BusyTask
<1>4. nextId \in Nat \ {0} /\ cleared \in SUBSET Nat
  BY DEF TypeInv, TypeOK, Types
<1>5. Mutator(t, c) /\ c.op = "run"
  BY <1>1, RunMutates
<1>6. /\ Successor(s, Committed(s, count, c.own), cleared')
      /\ Grown(s, Committed(s, count, c.own), nextId)
  <2>1. c.own \in Seq(Nat)
    BY <1>3 DEF TaskState
  <2> QED BY <1>3, <1>4, <2>1, CommittedState, GrownStates
<1>7. CASE MutateAndPersist(t, c, Committed(s, count, c.own))
  <2>1. Committed(s, count, c.own) \in Snapshot
    BY <1>6 DEF Successor
  <2>2. Mutates(t, c, Committed(s, count, c.own))
    BY <1>1, <1>4, <1>5, <1>6, <1>7 DEF Mutates, history
  <2> QED BY <1>3, <2>1, <2>2
<1>8. CASE /\ task' = [task EXCEPT ![t].pc = "turn"]
           /\ UNCHANGED <<record, status, mem, durable, holder, orphans>>
  BY <1>1, <1>8 DEF handleVars
<1> QED BY <1>2, <1>7, <1>8

-----------------------------------------------------------------------------
\* Every step keeps TypeInv: the steps of a call.

LEMMA MutationType ==
    ASSUME SessionAssumption, TypeInv, NEW t \in Tasks,
           NEW c \in TaskState, NEW s \in Snapshot, Mutates(t, c, s)
    PROVE  TypeInv'
<1>1. TasksInv' /\ mem' \in [Handles -> Snapshot] /\ UNCHANGED <<record, status, durable, orphans>>
  BY MutateType DEF Mutates
<1>2. DataInv'
  BY <1>1, TypeInvParts DEF DataInv, Mutates
<1>3. DataInv' /\ TasksInv' => TypeInv'
  BY DEF TypeInv, TypeOK, Types, DataInv, TasksInv
<1> QED BY <1>1, <1>2, <1>3

\* A step of one task that neither mutates its handle nor touches the run.
LEMMA CallStepType ==
    ASSUME SessionAssumption, TypeInv, NEW t \in Tasks, DataInv', run' = run,
           NEW d \in TaskState, ShapeOf(d), task' = [task EXCEPT ![t] = d],
           task[t].op = "run" => d.op = "run" /\ d.h = task[t].h,
           \/ holder' = holder /\ \A h \in Handles : holder[h] = t => SavesOn(d, h)
           \/ /\ holder' = [holder EXCEPT ![d.h] = t] /\ SavesOn(d, d.h)
              /\ \A h \in Handles : holder[h] # t
           \/ \E h \in Handles : /\ holder' = [holder EXCEPT ![h] = NoTask]
                                 /\ \A k \in Handles : holder[k] = t => k = h
    PROVE  TypeInv'
<1>1. holder \in [Handles -> Tasks \cup {NoTask}] /\ t # NoTask
  BY DEF TypeInv, TypeOK, Types, SessionAssumption
<1>2. holder' \in [Handles -> Tasks \cup {NoTask}]
  BY <1>1
<1>3. \A h \in Handles : holder'[h] = t => SavesOn(d, h)
  BY <1>1
<1>4. \A h \in Handles : holder'[h] # t => holder'[h] \in {holder[h], NoTask}
  BY <1>1
<1>5. TasksInv'
  BY <1>2, <1>3, <1>4, TaskStep DEF TasksInv
<1>6. DataInv' /\ TasksInv' => TypeInv'
  BY DEF TypeInv, TypeOK, Types, DataInv, TasksInv
<1> QED BY <1>5, <1>6

LEMMA ReturnedType ==
    ASSUME NEW c \in TaskState, c.h \in Handles
    PROVE  /\ Returned(c) \in TaskState /\ ShapeOf(Returned(c))
           /\ Raised(c) \in TaskState /\ ShapeOf(Raised(c))
           /\ c.op = "run" => /\ Returned(c).op = "run" /\ Returned(c).h = c.h
                              /\ Raised(c).op = "run" /\ Raised(c).h = c.h
BY ZenonT(40), IdleTaskType DEF Returned, Raised, TaskState, ShapeOf, Pcs

LEMMA ConfirmType ==
    ASSUME NEW c \in TaskState, Confirm(c), DataInv
    PROVE  /\ acked' \subseteq Nat /\ cleared' \subseteq Nat
           /\ purged' \subseteq Nat /\ dropped' \subseteq Nat /\ buried' \in BOOLEAN
BY DEF Confirm, TaskState, DataInv

\* The call that a save belongs to goes on as it was.
LEMMA SaveType ==
    ASSUME NEW c \in TaskState, c.h \in Handles, c.op # "delete", NEW s \in Snapshot,
           durable \in [Handles -> Int]
    PROVE  /\ Save(c, s) \in TaskState /\ ShapeOf(Save(c, s)) /\ SavesOn(Save(c, s), c.h)
           /\ Save(c, s).op = c.op /\ Save(c, s).h = c.h
BY DEF Save, TaskState, ShapeOf, SavesOn, Pcs

LEMMA GrantType ==
    ASSUME SessionAssumption, TypeInv, NEW t \in Tasks, Grant(t)
    PROVE  TypeInv'
<1> DEFINE c == task[t]
<1>1. /\ c.pc = "waiting" /\ c \in TaskState /\ c.h \in Handles /\ c.op # "delete"
      /\ mem[c.h] \in Snapshot /\ durable \in [Handles -> Int] /\ DataInv
  BY BusyTask, TypeInvParts DEF Grant, ShapeOf, DataInv
<1>2. \A h \in Handles : holder[h] # t
  BY <1>1, IdleHoldsNothing
<1>3. run' = run
  BY DEF Grant
<1>4. DataInv'
  BY <1>1, ConfirmType DEF Grant, DataInv, history
<1>5. CASE task' = [task EXCEPT ![t] = Returned(c)] /\ holder' = holder
  <2> HIDE DEF c
  <2>1. /\ Returned(c) \in TaskState /\ ShapeOf(Returned(c))
        /\ c.op = "run" => Returned(c).op = "run" /\ Returned(c).h = c.h
    BY <1>1, ReturnedType
  <2> USE DEF c
  <2> QED BY <1>2, <1>3, <1>4, <1>5, <2>1, CallStepType
<1>6. CASE task' = [task EXCEPT ![t] = Save(c, mem[c.h])]
           /\ holder' = [holder EXCEPT ![c.h] = t]
  <2> DEFINE d == Save(c, mem[c.h])
  <2>1. /\ d \in TaskState /\ ShapeOf(d) /\ SavesOn(d, c.h)
        /\ d.op = c.op /\ d.h = c.h
    BY <1>1, SaveType
  <2> HIDE DEF d
  <2>2. SavesOn(d, d.h) /\ holder' = [holder EXCEPT ![d.h] = t]
    BY <1>6, <2>1
  <2>3. task' = [task EXCEPT ![t] = d]
    BY <1>6 DEF d
  <2> QED BY <1>2, <1>3, <1>4, <2>1, <2>2, <2>3, CallStepType
<1> QED BY <1>5, <1>6 DEF Grant

LEMMA WorkerSaveType ==
    ASSUME SessionAssumption, TypeInv, NEW t \in Tasks, WorkerSave(t)
    PROVE  TypeInv'
<1> DEFINE c == task[t]
<1>1. /\ c.pc = "saving" /\ c \in TaskState /\ ShapeOf(c) /\ c.h \in Handles
      /\ c.snap \in Snapshot /\ c.op # "delete" /\ DataInv
      /\ \A h \in Handles : holder[h] = t => SavesOn(c, h)
  BY BusyTask, TypeInvParts DEF WorkerSave, ShapeOf, TaskState
<1>2. PICK pc \in {"saved", "refused", "failed"} :
        task' = [task EXCEPT ![t] = [c EXCEPT !.pc = pc]]
  BY <1>1 DEF WorkerSave
<1>3. /\ run' = run /\ holder' = holder /\ record' \in {record, c.snap}
      /\ UNCHANGED <<status, mem, durable, orphans, nextId, history>>
  BY DEF WorkerSave, handleVars, SaveAccepted, SaveRefused
<1> DEFINE d == [c EXCEPT !.pc = pc]
<1> HIDE DEF c
<1>4. /\ d \in TaskState /\ d.h = c.h /\ d.op = c.op /\ ShapeOf(d)
      /\ \A h \in Handles : SavesOn(c, h) => SavesOn(d, h)
  BY <1>1 DEF TaskState, ShapeOf, SavesOn, Pcs
<1>5. DataInv'
  BY <1>1, <1>3 DEF DataInv, history
<1> HIDE DEF d
<1>6. task' = [task EXCEPT ![t] = d]
  BY <1>2 DEF d
<1> QED BY <1>1, <1>3, <1>4, <1>5, <1>6, CallStepType DEF c

\* The end of a save: the lock is released and the call goes on.
LEMMA SaveEndsType ==
    ASSUME SessionAssumption, TypeInv, NEW t \in Tasks, SaveReturns(t) \/ SaveRaises(t)
    PROVE  TypeInv'
<1> DEFINE c == task[t]
<1>1. /\ c.pc \in {"saved", "refused", "failed"} /\ c \in TaskState /\ ShapeOf(c) /\ c.h \in Handles
      /\ c.snap \in Snapshot /\ DataInv
      /\ \A h \in Handles : holder[h] = t => SavesOn(c, h)
  BY BusyTask, TypeInvParts DEF SaveReturns, SaveRaises, TaskState
<1>2. \A k \in Handles : holder[k] = t => k = c.h
  BY <1>1 DEF SavesOn
<1>3. /\ run' = run /\ holder' = [holder EXCEPT ![c.h] = NoTask]
      /\ task' = [task EXCEPT ![t] = Returned(c)] \/ task' = [task EXCEPT ![t] = Raised(c)]
  BY DEF SaveReturns, SaveRaises
<1>4. DataInv'
  <2>1. CASE SaveReturns(t)
    <3>1. durable' \in [Handles -> Int]
      BY <2>1, <1>1 DEF SaveReturns, DataInv, Snapshot
    <3> QED BY <2>1, <3>1, <1>1, ConfirmType DEF SaveReturns, DataInv
  <2>2. CASE SaveRaises(t)
    BY <2>2, <1>1 DEF SaveRaises, DataInv, history
  <2> QED BY <2>1, <2>2
<1>5. /\ Returned(c) \in TaskState /\ ShapeOf(Returned(c))
      /\ Raised(c) \in TaskState /\ ShapeOf(Raised(c))
      /\ c.op = "run" => /\ Returned(c).op = "run" /\ Returned(c).h = c.h
                         /\ Raised(c).op = "run" /\ Raised(c).h = c.h
  BY <1>1, ReturnedType
<1>6. CASE task' = [task EXCEPT ![t] = Returned(c)]
  BY <1>1, <1>2, <1>3, <1>4, <1>5, <1>6, CallStepType
<1>7. CASE task' = [task EXCEPT ![t] = Raised(c)]
  BY <1>1, <1>2, <1>3, <1>4, <1>5, <1>7, CallStepType
<1> QED BY <1>3, <1>6, <1>7

LEMMA PersistType ==
    ASSUME SessionAssumption, TypeInv, NEW t \in Tasks, NEW h \in Handles, Persist(t, h)
    PROVE  TypeInv'
<1> DEFINE c == [Call("persist", h, {}) EXCEPT !.need = mem[h].revision]
           slow == [c EXCEPT !.pc = "waiting"]
           fast == Save(c, mem[h])
<1>1. /\ Idle(t) /\ mem[h] \in Snapshot /\ mem[h].revision \in Int
      /\ durable \in [Handles -> Int] /\ DataInv
  BY TypeInvParts DEF Persist, DataInv, Snapshot
<1>2. task[t] = IdleTask /\ IdleTask.op = "none" /\ IdleTask.pc = "idle"
  BY <1>1 DEF TypeInv, TaskShape, ShapeOf, Idle, IdleTask
<1>3. \A k \in Handles : holder[k] # t
  BY <1>2, IdleHoldsNothing
<1>4. c \in TaskState /\ c.op = "persist" /\ c.h = h
  <2>1. Call("persist", h, {}) \in TaskState /\ Call("persist", h, {}).op = "persist"
        /\ Call("persist", h, {}).h = h
    BY <1>1, CallMutates DEF Mutator
  <2> QED BY <1>1, <2>1 DEF TaskState
<1>5. /\ UNCHANGED <<record, status, mem, durable, run, orphans, nextId, history>>
      /\ \/ holder' = holder /\ task' = [task EXCEPT ![t] = slow]
         \/ holder' = [holder EXCEPT ![h] = t] /\ task' = [task EXCEPT ![t] = fast]
  BY DEF Persist
<1>6. DataInv' /\ run' = run
  BY <1>1, <1>5 DEF DataInv, history
<1> HIDE DEF c
<1>7. slow \in TaskState /\ ShapeOf(slow)
  BY <1>4 DEF TaskState, ShapeOf, Pcs
<1>8. fast \in TaskState /\ ShapeOf(fast) /\ SavesOn(fast, h) /\ fast.h = h
  BY <1>1, <1>4, SaveType
<1> HIDE DEF slow, fast
<1>9. CASE holder' = holder /\ task' = [task EXCEPT ![t] = slow]
  BY <1>2, <1>3, <1>6, <1>7, <1>9, CallStepType
<1>10. CASE holder' = [holder EXCEPT ![h] = t] /\ task' = [task EXCEPT ![t] = fast]
  BY <1>2, <1>3, <1>6, <1>8, <1>10, CallStepType
<1> QED BY <1>5, <1>9, <1>10

\* A delete in one of its phases: no lock, no Run, the handle it began on.
LEMMA DeletePhase ==
    ASSUME SessionAssumption, TypeInv, NEW t \in Tasks,
           \/ task[t].pc = "idle" /\ task'[t].op = "delete"
           \/ task[t].op = "delete",
           DataInv', run' = run, holder' = holder,
           NEW d \in TaskState, ShapeOf(d), task' = [task EXCEPT ![t] = d]
    PROVE  TypeInv'
<1>1. task[t].op # "run"
  BY DEF TypeInv, TaskShape, ShapeOf, IdleTask
<1>2. \A h \in Handles : holder[h] # t
  BY IdleHoldsNothing
<1> QED BY <1>1, <1>2, CallStepType

LEMMA DeleteType ==
    ASSUME SessionAssumption, TypeInv, NEW t \in Tasks, NEW h \in Handles, Delete(t, h)
    PROVE  TypeInv'
<1> DEFINE c == Call("delete", h, {})
           d1 == [c EXCEPT !.pc = "loading"]
           d2 == [c EXCEPT !.pc = "deleting", !.expected = durable[h]]
<1>1. /\ task[t].pc = "idle" /\ durable[h] \in Int /\ DataInv
      /\ task \in [Tasks -> TaskState]
  BY TypeInvParts DEF Delete, Idle, DataInv, TasksInv
<1>2. c \in TaskState /\ c.op = "delete" /\ c.h = h
  BY IdleTaskType DEF Call, IdleTask, TaskState, AllOps
<1>3. /\ run' = run /\ holder' = holder
      /\ status' = status \/ status' = [status EXCEPT ![h] = "closed"]
      /\ UNCHANGED <<record, mem, durable, orphans, nextId, history>>
      /\ task' = [task EXCEPT ![t] = d1] \/ task' = [task EXCEPT ![t] = d2]
  BY DEF Delete
<1>4. DataInv'
  BY <1>1, <1>3 DEF DataInv, history
<1> HIDE DEF c
<1>5. /\ d1 \in TaskState /\ ShapeOf(d1) /\ d1.op = "delete"
      /\ d2 \in TaskState /\ ShapeOf(d2) /\ d2.op = "delete"
  BY <1>1, <1>2 DEF TaskState, ShapeOf, Pcs
<1> HIDE DEF d1, d2
<1>6. CASE task' = [task EXCEPT ![t] = d1]
  BY <1>1, <1>3, <1>4, <1>5, <1>6, DeletePhase
<1>7. CASE task' = [task EXCEPT ![t] = d2]
  BY <1>1, <1>3, <1>4, <1>5, <1>7, DeletePhase
<1> QED BY <1>3, <1>6, <1>7

\* The later phases of a delete.
LEMMA DeletingType ==
    ASSUME SessionAssumption, TypeInv, NEW t \in Tasks,
           \/ WorkerLoad(t) \/ DeleteLoaded(t) \/ WorkerDelete(t)
           \/ DeleteReturns(t) \/ DeleteRaises(t)
    PROVE  TypeInv'
<1> DEFINE c == task[t]
<1>1. c.pc \in {"loading", "loaded", "deleting", "deleted", "refused", "failed"}
  BY DEF WorkerLoad, DeleteLoaded, WorkerDelete, DeleteReturns, DeleteRaises
<1>2. c \in TaskState /\ ShapeOf(c) /\ c.h \in Handles /\ DataInv
  BY <1>1, BusyTask, TypeInvParts
<1>3. c.op = "delete"
  BY <1>2 DEF WorkerLoad, DeleteLoaded, WorkerDelete, DeleteReturns, DeleteRaises, ShapeOf
<1>4. run' = run /\ holder' = holder
  BY DEF WorkerLoad, DeleteLoaded, WorkerDelete, DeleteReturns, DeleteRaises, handleVars
<1>5. DataInv'
  <2>1. CASE WorkerLoad(t)
    BY <2>1, <1>2 DEF WorkerLoad, DataInv, handleVars, history
  <2>2. CASE DeleteLoaded(t)
    BY <2>2, <1>2 DEF DeleteLoaded, DataInv
  <2>3. CASE WorkerDelete(t)
    BY <2>3, <1>2, IdleTaskType DEF WorkerDelete, DataInv, handleVars, DeleteAccepted, DeleteRefused
  <2>4. CASE DeleteReturns(t)
    BY <2>4, <1>2 DEF DeleteReturns, DataInv, None
  <2>5. CASE DeleteRaises(t)
    BY <2>5, <1>2 DEF DeleteRaises, DataInv, handleVars, history
  <2> QED BY <2>1, <2>2, <2>3, <2>4, <2>5
<1>6. \/ task' = [task EXCEPT ![t] = IdleTask]
      \/ \E pc \in {"deleting", "deleted", "refused", "failed"} :
            task' = [task EXCEPT ![t] = [c EXCEPT !.pc = pc]]
      \/ task' = [task EXCEPT ![t] = [c EXCEPT !.pc = "loaded", !.expected = record.revision]]
  BY <1>2 DEF WorkerLoad, DeleteLoaded, WorkerDelete, DeleteReturns, DeleteRaises, TypeInv, TypeOK, Types
<1>7. record.revision \in Int
  BY <1>2 DEF DataInv, Snapshot
<1>8. PICK d \in TaskState : ShapeOf(d) /\ task' = [task EXCEPT ![t] = d]
  <2> HIDE DEF c
  <2>1. \A pc \in {"deleting", "deleted", "refused", "failed"} :
           [c EXCEPT !.pc = pc] \in TaskState /\ ShapeOf([c EXCEPT !.pc = pc])
    BY <1>2, <1>3 DEF TaskState, ShapeOf, Pcs
  <2>2. /\ [c EXCEPT !.pc = "loaded", !.expected = record.revision] \in TaskState
        /\ ShapeOf([c EXCEPT !.pc = "loaded", !.expected = record.revision])
    BY <1>2, <1>3, <1>7 DEF TaskState, ShapeOf, Pcs
  <2> QED BY <1>6, <2>1, <2>2, IdleTaskType
<1> QED BY <1>3, <1>4, <1>5, <1>8, DeletePhase

LEMMA CancelType ==
    ASSUME SessionAssumption, TypeInv, NEW t \in Tasks, Cancel(t)
    PROVE  TypeInv'
<1> DEFINE c == task[t]
<1>1. c.op \notin {"none", "run"} /\ c.pc # "idle"
  BY DEF Cancel, TypeInv, TaskShape, ShapeOf, IdleTask
<1>2. /\ c \in TaskState /\ c.h \in Handles /\ DataInv
      /\ \A h \in Handles : holder[h] = t => SavesOn(c, h)
  BY <1>1, BusyTask, TypeInvParts
<1>3. Request(c) \in TaskState
  BY <1>2, IdleTaskType DEF Request, TaskState, IdleTask
<1>4. DataInv' /\ run' = run /\ task' = [task EXCEPT ![t] = IdleTask]
  BY <1>2, <1>3 DEF Cancel, DataInv, history
<1>5. CASE holder[c.h] = t
  <2>1. holder' = [holder EXCEPT ![c.h] = NoTask] /\ \A k \in Handles : holder[k] = t => k = c.h
    BY <1>2, <1>5 DEF Cancel, SavesOn
  <2> QED BY <1>1, <1>2, <1>4, <2>1, IdleTaskType, CallStepType
<1>6. CASE holder[c.h] # t
  <2>1. holder' = holder /\ \A k \in Handles : holder[k] # t
    BY <1>2, <1>6 DEF Cancel, SavesOn
  <2> QED BY <1>1, <1>4, <2>1, IdleTaskType, CallStepType
<1> QED BY <1>5, <1>6

\* A Run with nothing to commit goes on to its first turn.
LEMMA SkipInitialType ==
    ASSUME SessionAssumption, TypeInv, NEW t \in Tasks, task[t].pc = "initial",
           task' = [task EXCEPT ![t].pc = "turn"],
           UNCHANGED <<record, handleVars, orphans, nextId, history>>
    PROVE  TypeInv'
<1> DEFINE c == task[t]
           d == [c EXCEPT !.pc = "turn"]
<1>1. c \in TaskState /\ ShapeOf(c) /\ c.h \in Handles /\ DataInv
  BY BusyTask, TypeInvParts
<1>2. DataInv' /\ run' = run /\ holder' = holder
  BY <1>1 DEF DataInv, handleVars, history
<1>3. \A h \in Handles : holder[h] # t
  BY IdleHoldsNothing
<1>4. task' = [task EXCEPT ![t] = d]
  BY DEF TypeInv, TypeOK, Types
<1> HIDE DEF c
<1>5. d \in TaskState /\ ShapeOf(d) /\ d.op = c.op /\ d.h = c.h
  BY <1>1 DEF TaskState, ShapeOf, Pcs, c
<1> HIDE DEF d
<1> QED BY <1>2, <1>3, <1>4, <1>5, CallStepType DEF c

-----------------------------------------------------------------------------
\* Every step keeps TypeInv: the beginning and the end of a Run.

LEMMA StartRunType ==
    ASSUME SessionAssumption, TypeInv, NEW t \in Tasks, NEW h \in Handles, StartRun(t, h)
    PROVE  TypeInv'
<1>1. /\ task[t] = IdleTask /\ IdleTask.op = "none" /\ IdleTask.pc = "idle"
      /\ mem[h] \in Snapshot /\ mem[h].sequence \in Nat /\ nextId \in Nat \ {0}
      /\ DataInv /\ TasksInv
  BY TypeInvParts DEF StartRun, TypeInv, TypeOK, Types, TaskShape, ShapeOf, Idle, IdleTask, Snapshot
<1>2. PICK own \in {<<>>, <<nextId>>} :
        /\ nextId' = nextId + Len(own)
        /\ task' = [task EXCEPT ![t] = [Call("run", h, {}) EXCEPT
                       !.pc = "initial", !.own = own, !.through = mem[h].sequence]]
  BY DEF StartRun
<1> DEFINE d == [Call("run", h, {}) EXCEPT
                    !.pc = "initial", !.own = own, !.through = mem[h].sequence]
<1>3. own \in Seq(Nat) /\ Len(own) \in Nat
  <2>1. <<>> \in Seq(Nat) /\ <<nextId>> \in Seq(Nat)
    BY <1>1
  <2>2. own \in Seq(Nat)
    BY <2>1
  <2> QED BY <2>2, LenProperties
<1>4. d \in TaskState /\ ShapeOf(d) /\ d.op = "run" /\ d.h = h
  BY <1>1, <1>3, IdleTaskType DEF Call, IdleTask, TaskState, ShapeOf, AllOps, Pcs
<1> HIDE DEF d
<1>5. /\ task' = [task EXCEPT ![t] = d] /\ run' = [run EXCEPT ![h] = t]
      /\ UNCHANGED <<record, status, mem, durable, holder, orphans, history>>
  BY <1>2 DEF StartRun, d
<1>6. DataInv'
  BY <1>1, <1>2, <1>3, <1>5 DEF DataInv, history
<1>7. \A k \in Handles : holder[k] # t
  BY <1>1, IdleHoldsNothing
<1>8. \A u \in Tasks : task'[u] = IF u = t THEN d ELSE task[u]
  BY <1>1, <1>5 DEF TasksInv
<1>9. task' \in [Tasks -> TaskState] /\ TaskShape'
  BY <1>1, <1>4, <1>5, <1>8 DEF TasksInv, TaskShape, ShapeOf
<1>10. HoldersSave'
  BY <1>1, <1>5, <1>7, <1>8 DEF TasksInv, HoldersSave, SavesOn
<1>11. OwnersRun'
  <2> SUFFICES ASSUME NEW k \in Handles, run'[k] # NoTask
               PROVE  task'[run'[k]].h = k /\ task'[run'[k]].op = "run"
    BY DEF OwnersRun
  <2>1. run'[k] = IF k = h THEN t ELSE run[k]
    BY <1>1, <1>5 DEF DataInv
  <2>2. k # h => run[k] \in Tasks /\ task[run[k]].h = k /\ task[run[k]].op = "run"
    BY <2>1, <1>1 DEF DataInv, TasksInv, OwnersRun
  <2> QED BY <1>1, <1>4, <1>8, <2>1, <2>2
<1> QED BY <1>1, <1>5, <1>6, <1>9, <1>10, <1>11 DEF TypeInv, TypeOK, Types, DataInv, TasksInv

LEMMA ReleaseRunType ==
    ASSUME SessionAssumption, TypeInv, NEW t \in Tasks, ReleaseRun(t)
    PROVE  TypeInv'
<1> DEFINE c == task[t]
<1>1. /\ c.pc \in {"initial", "turn", "ending"} /\ c.h \in Handles /\ DataInv /\ TasksInv
      /\ run' = [run EXCEPT ![c.h] = NoTask] /\ task' = [task EXCEPT ![t] = IdleTask]
      /\ UNCHANGED <<record, status, mem, durable, holder, orphans, nextId, history>>
  BY BusyTask, TypeInvParts DEF ReleaseRun
<1>2. DataInv'
  BY <1>1 DEF DataInv, history
<1>3. \A k \in Handles : holder[k] # t
  BY <1>1, IdleHoldsNothing
<1>4. \A u \in Tasks : task'[u] = IF u = t THEN IdleTask ELSE task[u]
  BY <1>1 DEF TasksInv
<1>5. task' \in [Tasks -> TaskState] /\ TaskShape'
  BY <1>1, <1>4, IdleTaskType DEF TasksInv, TaskShape, ShapeOf
<1>6. HoldersSave'
  BY <1>1, <1>3, <1>4 DEF TasksInv, HoldersSave, SavesOn
<1>7. OwnersRun'
  <2> SUFFICES ASSUME NEW k \in Handles, run'[k] # NoTask
               PROVE  task'[run'[k]].h = k /\ task'[run'[k]].op = "run"
    BY DEF OwnersRun
  <2>1. k # c.h /\ run'[k] = run[k] /\ run[k] \in Tasks
    BY <1>1 DEF DataInv
  <2>2. task[run[k]].h = k /\ task[run[k]].op = "run"
    BY <2>1, <1>1 DEF TasksInv, OwnersRun
  <2> QED BY <1>4, <2>1, <2>2
<1> QED BY <1>1, <1>2, <1>5, <1>6, <1>7 DEF TypeInv, TypeOK, Types, DataInv, TasksInv

-----------------------------------------------------------------------------
\* Every step keeps TypeInv: the environment.

\* Steps that leave every call, the lock and the runs alone.
LEMMA DataStepType ==
    ASSUME TypeInv, DataInv', UNCHANGED <<task, holder, run>>
    PROVE  TypeInv'
BY DEF TypeInv, TypeOK, Types, DataInv, TaskShape, ShapeOf, HoldersSave, OwnersRun, SavesOn

LEMMA EnvironmentType ==
    ASSUME SessionAssumption, TypeInv,
           \/ \E c \in orphans : WorkerOrphan(c)
           \/ \E h \in Handles : Close(h) \/ New(h) \/ Open(h)
           \/ Quiescent
           \/ UNCHANGED vars
    PROVE  TypeInv'
<1>1. DataInv
  BY TypeInvParts
<1>2. CASE \E c \in orphans : WorkerOrphan(c)
  <2>1. PICK c \in orphans : WorkerOrphan(c)
    BY <1>2
  <2>2. c.snap \in Snapshot /\ Absent \in Snapshot
    BY <1>1, IdleTaskType DEF DataInv, TaskState
  <2>3. record' \in {record, c.snap, Absent}
    BY <2>1 DEF WorkerOrphan, SaveAccepted, SaveRefused, DeleteAccepted, DeleteRefused
  <2>4. dropped' \in {dropped, dropped \cup 1..(nextId - 1)}
    BY <2>1 DEF WorkerOrphan
  <2>5. dropped' \subseteq Nat
    BY <1>1, <2>4 DEF DataInv
  <2>6. /\ orphans' \subseteq TaskState
        /\ UNCHANGED <<status, mem, durable, run, holder, task, nextId, acked, cleared, purged, buried>>
    BY <1>1, <2>1 DEF WorkerOrphan, DataInv, handleVars
  <2>7. DataInv'
    BY <1>1, <2>2, <2>3, <2>5, <2>6 DEF DataInv
  <2> QED BY <2>6, <2>7, DataStepType
<1>3. CASE \E h \in Handles : Close(h) \/ New(h) \/ Open(h)
  <2>1. PICK h \in Handles : Close(h) \/ New(h) \/ Open(h)
    BY <1>3
  <2>2. UNCHANGED <<record, task, holder, run, orphans, nextId, acked, cleared, purged, dropped>>
    BY <2>1 DEF Close, New, Open, history
  <2>3. status' \in {[status EXCEPT ![h] = "open"], [status EXCEPT ![h] = "closed"]}
    BY <2>1 DEF Close, New, Open
  <2>4. mem' \in {mem, [mem EXCEPT ![h] = record]}
    BY <2>1 DEF Close, New, Open
  <2>5. durable' \in {durable, [durable EXCEPT ![h] = record.revision]}
    BY <2>1 DEF Close, New, Open
  <2>6. buried' \in BOOLEAN
    <3>1. buried \in BOOLEAN
      BY <1>1 DEF DataInv
    <3>2. buried' = buried \/ buried' = FALSE
      BY <2>1 DEF Close, New, Open, history
    <3> QED BY <3>1, <3>2
  <2>7. record.revision \in Int
    BY <1>1 DEF DataInv, Snapshot
  <2>8. DataInv'
    BY <1>1, <2>2, <2>3, <2>4, <2>5, <2>6, <2>7 DEF DataInv
  <2> QED BY <2>2, <2>8, DataStepType
<1>4. CASE Quiescent \/ UNCHANGED vars
  <2>1. UNCHANGED <<record, handleVars, task, orphans, nextId, history>>
    BY <1>4 DEF Quiescent, vars
  <2>2. DataInv'
    BY <1>1, <2>1 DEF DataInv, handleVars, history
  <2> QED BY <2>1, <2>2, DataStepType DEF handleVars
<1> QED BY <1>2, <1>3, <1>4

LEMMA CrashType ==
    ASSUME SessionAssumption, TypeInv, NEW h \in Handles, Crash(h)
    PROVE  TypeInv'
<1>1. DataInv /\ TasksInv
  BY TypeInvParts
<1>2. /\ run' = [run EXCEPT ![h] = NoTask] /\ holder' = [holder EXCEPT ![h] = NoTask]
      /\ task' = [t \in Tasks |-> IF task[t].h = h THEN IdleTask ELSE task[t]]
      /\ orphans' \subseteq orphans
  BY DEF Crash
<1>3. DataInv'
  <2>1. /\ record' = record /\ status' = [status EXCEPT ![h] = "none"]
        /\ mem' = [mem EXCEPT ![h] = Fresh] /\ durable' = [durable EXCEPT ![h] = None]
        /\ UNCHANGED <<nextId, acked, cleared, purged, dropped, buried>>
    BY DEF Crash, history
  <2>2. mem' \in [Handles -> Snapshot]
    BY <1>1, <2>1, IdleTaskType DEF DataInv
  <2>3. durable' \in [Handles -> Int] /\ status' \in [Handles -> {"none", "open", "closed"}]
    BY <1>1, <2>1 DEF DataInv, None
  <2> QED BY <1>1, <1>2, <2>1, <2>2, <2>3 DEF DataInv
<1>4. \A u \in Tasks : task'[u] = IF task[u].h = h THEN IdleTask ELSE task[u]
  BY <1>2
<1>5. task' \in [Tasks -> TaskState] /\ TaskShape'
  <2>1. task' \in [Tasks -> TaskState]
    BY <1>1, <1>2, IdleTaskType DEF TasksInv
  <2> QED BY <2>1, <1>1, <1>4, IdleTaskType DEF TasksInv, TaskShape, ShapeOf
<1>6. HoldersSave'
  <2> SUFFICES ASSUME NEW k \in Handles, holder'[k] # NoTask
               PROVE  SavesOn(task'[holder'[k]], k)
    BY DEF HoldersSave, SavesOn
  <2>1. k # h /\ holder'[k] = holder[k] /\ holder[k] \in Tasks
    BY <1>1, <1>2 DEF TasksInv
  <2>2. SavesOn(task[holder[k]], k)
    BY <1>1, <2>1 DEF TasksInv, HoldersSave
  <2>3. task[holder[k]].h = k
    BY <2>2 DEF SavesOn
  <2> QED BY <1>4, <2>1, <2>2, <2>3
<1>7. OwnersRun'
  <2> SUFFICES ASSUME NEW k \in Handles, run'[k] # NoTask
               PROVE  task'[run'[k]].h = k /\ task'[run'[k]].op = "run"
    BY DEF OwnersRun
  <2>1. k # h /\ run'[k] = run[k] /\ run[k] \in Tasks
    BY <1>1, <1>2 DEF DataInv
  <2>2. task[run[k]].h = k /\ task[run[k]].op = "run"
    BY <2>1, <1>1 DEF TasksInv, OwnersRun
  <2> QED BY <1>4, <2>1, <2>2
<1>8. holder' \in [Handles -> Tasks \cup {NoTask}]
  BY <1>1, <1>2 DEF TasksInv
<1> QED BY <1>3, <1>5, <1>6, <1>7, <1>8 DEF TypeInv, TypeOK, Types, DataInv, TasksInv

LEMMA InitType == SessionAssumption /\ Init => TypeInv
<1> SUFFICES ASSUME SessionAssumption, Init
             PROVE  TypeInv
  OBVIOUS
<1>1. DataInv
  <2>1. buried \in BOOLEAN
    BY DEF Init
  <2> QED BY <2>1, IdleTaskType DEF Init, DataInv, None
<1>2. TasksInv
  BY IdleTaskType DEF Init, TasksInv, HoldersSave, OwnersRun, TaskShape, ShapeOf
<1> QED BY <1>1, <1>2, TypeInvParts

LEMMA NextType == SessionAssumption /\ TypeInv /\ [Next]_vars => TypeInv'
<1> SUFFICES ASSUME SessionAssumption, TypeInv, [Next]_vars
             PROVE  TypeInv'
  OBVIOUS
<1>1. ASSUME NEW t \in Tasks, HostStep(t)
      PROVE  TypeInv'
  <2>1. PICK h \in Handles :
           \/ Persist(t, h) \/ Enqueue(t, h) \/ ClearPending(t, h)
           \/ SetMetadata(t, h) \/ StartRun(t, h) \/ Delete(t, h)
    BY <1>1 DEF HostStep
  <2> QED BY <2>1, PersistType, EnqueueMutates, ClearMutates, MetadataMutates, MutationType,
             StartRunType, DeleteType
<1>2. ASSUME NEW t \in Tasks, RunStep(t)
      PROVE  TypeInv'
  BY <1>2, InitialMutates, TurnMutates, MutationType, SkipInitialType, ReleaseRunType DEF RunStep
<1>3. ASSUME NEW t \in Tasks, WorkerStep(t) \/ Resume(t) \/ Cancel(t)
      PROVE  TypeInv'
  BY <1>3, WorkerSaveType, GrantType, SaveEndsType, DeletingType, CancelType DEF WorkerStep, Resume
<1>4. ASSUME NEW h \in Handles, Crash(h)
      PROVE  TypeInv'
  BY <1>4, CrashType
<1>5. ASSUME \/ \E c \in orphans : WorkerOrphan(c)
             \/ \E h \in Handles : Close(h) \/ New(h) \/ Open(h)
             \/ Quiescent
             \/ UNCHANGED vars
      PROVE  TypeInv'
  BY <1>5, EnvironmentType
<1> QED BY <1>1, <1>2, <1>3, <1>4, <1>5 DEF Next

\* Type correctness for any number of handles and tasks, any host behaviour and any
\* failures: in particular a failed or cancelled save never leaves the persist lock
\* of a handle with a task that is not saving on it (async with self._persist_lock).
THEOREM TypeCorrect == Spec => []TypeOK
<1>1. TypeInv => TypeOK
  BY DEF TypeInv
<1> QED BY <1>1, InitType, NextType, SessionAssumption, PTL DEF Spec

-----------------------------------------------------------------------------
\* The order in which snapshots descend from one another.

LEMMA SnapshotParts ==
    ASSUME NEW s \in Snapshot
    PROVE  s.revision \in Int /\ s.messages \in Seq(Nat) /\ Len(s.messages) \in Nat
<1>1. s.revision \in Int /\ s.messages \in Seq(Nat)
  BY DEF Snapshot
<1> QED BY <1>1, LenProperties

LEMMA DescendsItself ==
    ASSUME NEW s \in Snapshot, NEW gone
    PROVE  Descends(s, s, gone)
BY SnapshotParts DEF Descends, IsPrefix

LEMMA DescendsFromAbsent ==
    ASSUME NEW s \in Snapshot, NEW gone
    PROVE  Descends(Absent, s, gone)
<1>1. Absent.messages = <<>> /\ Absent.pending = <<>> /\ Len(<<>>) = 0
  BY EmptySeq DEF Absent
<1>2. DOMAIN Absent.messages = {} /\ DOMAIN Absent.pending = {}
  BY <1>1
<1>3. Ids(Absent) = {}
  BY <1>2 DEF Ids, IdsIn
<1>4. IsPrefix(Absent.messages, s.messages)
  BY <1>1, SnapshotParts DEF IsPrefix
<1> QED BY <1>3, <1>4 DEF Descends

LEMMA DescendsThrough ==
    ASSUME NEW a \in Snapshot, NEW b \in Snapshot, NEW c \in Snapshot, NEW g, NEW gone,
           g \subseteq gone, Descends(a, b, g), Descends(b, c, gone)
    PROVE  Descends(a, c, gone)
<1>1. /\ Len(a.messages) \in Nat /\ Len(b.messages) \in Nat /\ Len(c.messages) \in Nat
  BY SnapshotParts
<1>2. IsPrefix(a.messages, b.messages) /\ IsPrefix(b.messages, c.messages)
  BY DEF Descends
<1>3. IsPrefix(a.messages, c.messages)
  BY <1>1, <1>2 DEF IsPrefix
<1> QED BY <1>3 DEF Descends

LEMMA DescendsMore ==
    ASSUME NEW a, NEW b, NEW g, NEW gone, g \subseteq gone, Descends(a, b, g)
    PROVE  Descends(a, b, gone)
BY DEF Descends

-----------------------------------------------------------------------------
\* Every step keeps SafeInv: steps that touch neither a state nor a save.

LEMMA SafeTypes ==
    ASSUME TypeInv
    PROVE  /\ record \in Snapshot /\ record.revision \in Int
           /\ \A h \in Handles : /\ mem[h] \in Snapshot /\ mem[h].revision \in Int
                                 /\ durable[h] \in Int
           /\ \A t \in Tasks : /\ task[t] \in TaskState /\ task[t].need \in Int
                               /\ task[t].snap \in Snapshot /\ task[t].snap.revision \in Int
                               /\ task[t].expected \in Int
                               /\ task[t].pc # "idle" => task[t].h \in Handles
           /\ \A r \in orphans : /\ r \in TaskState /\ r.expected \in Int
                                 /\ r.snap \in Snapshot /\ r.snap.revision \in Int
<1>1. \A s \in Snapshot : s.revision \in Int
  BY SnapshotParts
<1>2. \A c \in TaskState : c.need \in Int /\ c.snap \in Snapshot /\ c.expected \in Int
  BY DEF TaskState
<1>3. /\ record \in Snapshot
      /\ \A h \in Handles : mem[h] \in Snapshot /\ durable[h] \in Int
      /\ \A t \in Tasks : task[t] \in TaskState
      /\ orphans \subseteq TaskState
  BY DEF TypeInv, TypeOK, Types
<1>4. \A t \in Tasks : task[t].pc # "idle" => task[t].h \in Handles
  BY DEF TypeInv, TaskShape, ShapeOf
<1> QED BY <1>1, <1>2, <1>3, <1>4

\* One call goes on as d, or ends, and nothing else that SafeInv is about changes.
LEMMA CallStep ==
    ASSUME SafeInv, TypeInv', NEW t \in Tasks, NEW d, task' = [task EXCEPT ![t] = d],
           TaskSafe(d), d.pc # "idle" => d.h \in Handles,
           \A u \in Tasks : Covers(d, task[u]) /\ Covers(task[u], d),
           UNCHANGED <<record, status, mem, durable, cleared>>,
           acked' \subseteq Ids(record) \cup cleared,
           \A r \in orphans' : r \in orphans \/ OrphanSafe(r)
    PROVE  SafeInv'
<1>1. \A u \in Tasks : task'[u] = IF u = t THEN d ELSE task[u]
  BY DEF SafeInv, TypeInv, TypeOK, Types
<1>2. RecordSafe' /\ (\A h \in Handles : HandleSafe(h)') /\ (acked \subseteq Ids(record) \cup cleared)'
  BY DEF SafeInv, RecordSafe, HandleSafe, Live, Descends
<1>3. \A u \in Tasks : TaskSafe(task[u])'
  <2> SUFFICES ASSUME NEW u \in Tasks
               PROVE  TaskSafe(task[u])'
    OBVIOUS
  <2>1. TaskSafe(task'[u])
    BY <1>1 DEF SafeInv
  <2> QED BY <2>1 DEF TaskSafe, Live, RequestSafe, WriteSafe, WrittenSafe, WaitSafe
<1>4. \A u, v \in Tasks : Covers(task[v], task[u])'
  <2> SUFFICES ASSUME NEW u \in Tasks, NEW v \in Tasks
               PROVE  Covers(task'[v], task'[u])
    BY DEF Covers
  <2>1. Covers(d, d)
    BY DEF Covers
  <2> QED BY <1>1, <2>1 DEF SafeInv
<1>5. \A r \in orphans' : OrphanSafe(r)'
  BY DEF SafeInv, OrphanSafe, RequestSafe, Live
<1> QED BY <1>2, <1>3, <1>4, <1>5 DEF SafeInv

\* A call that ends, or goes on without waiting for a save.
LEMMA QuietCall ==
    ASSUME NEW d, d.pc \notin {"waiting", "saving", "saved"}, d.op # "delete",
           d.pc # "idle" => Live(d.h)
    PROVE  TaskSafe(d) /\ \A c : Covers(d, c) /\ Covers(c, d)
BY DEF TaskSafe, Covers

LEMMA IdleIsQuiet ==
    /\ IdleTask.pc = "idle" /\ IdleTask.op = "none"
    /\ TaskSafe(IdleTask) /\ \A c : Covers(IdleTask, c) /\ Covers(c, IdleTask)
BY DEF IdleTask, TaskSafe, Covers

\* The end of a call, normal or not.
LEMMA EndedIsQuiet ==
    ASSUME NEW c \in TaskState, c.h \in Handles, Live(c.h), c.op # "delete"
    PROVE  /\ TaskSafe(Returned(c)) /\ \A b : Covers(Returned(c), b) /\ Covers(b, Returned(c))
           /\ TaskSafe(Raised(c)) /\ \A b : Covers(Raised(c), b) /\ Covers(b, Raised(c))
           /\ Returned(c).pc # "idle" => Returned(c).h \in Handles
           /\ Raised(c).pc # "idle" => Raised(c).h \in Handles
<1>1. CASE c.op = "run"
  <2>1. /\ Returned(c).pc = "turn" /\ Returned(c).op = c.op /\ Returned(c).h = c.h
        /\ Raised(c).pc = "ending" /\ Raised(c).op = c.op /\ Raised(c).h = c.h
    BY <1>1 DEF Returned, Raised, TaskState
  <2> QED BY <2>1 DEF TaskSafe, Covers
<1>2. CASE c.op # "run"
  BY <1>2, IdleIsQuiet DEF Returned, Raised
<1> QED BY <1>1, <1>2

LEMMA SafeBusy ==
    ASSUME SafeInv, NEW t \in Tasks, task[t].pc # "idle"
    PROVE  /\ task[t] \in TaskState /\ ShapeOf(task[t]) /\ TaskSafe(task[t])
           /\ task[t].h \in Handles /\ Live(task[t].h) /\ HandleSafe(task[t].h)
           /\ task[t].op # "delete"
           /\ \A u \in Tasks : Covers(task[u], task[t]) /\ Covers(task[t], task[u])
<1>1. TypeInv /\ TaskSafe(task[t])
  BY DEF SafeInv
<1>2. task[t] \in TaskState /\ ShapeOf(task[t]) /\ task[t].h \in Handles
  BY <1>1, BusyTask
<1> QED BY <1>1, <1>2 DEF SafeInv, TaskSafe

LEMMA QuietSafe ==
    ASSUME SafeInv, TypeInv', NEW t \in Tasks,
           \/ SaveRaises(t) \/ ReleaseRun(t)
           \/ \E h \in Handles : StartRun(t, h)
           \/ /\ task[t].pc = "initial" /\ task' = [task EXCEPT ![t].pc = "turn"]
              /\ UNCHANGED <<record, handleVars, orphans, nextId, history>>
    PROVE  SafeInv'
<1>1. task \in [Tasks -> TaskState] /\ acked \subseteq Ids(record) \cup cleared
  BY DEF SafeInv, TypeInv, TypeOK, Types
<1>2. CASE SaveRaises(t)
  <2>1. /\ task[t].pc # "idle" /\ task' = [task EXCEPT ![t] = Raised(task[t])]
        /\ UNCHANGED <<record, status, mem, durable, orphans, acked, cleared>>
    BY <1>2 DEF SaveRaises, history
  <2>2. /\ TaskSafe(Raised(task[t]))
        /\ \A b : Covers(Raised(task[t]), b) /\ Covers(b, Raised(task[t]))
        /\ Raised(task[t]).pc # "idle" => Raised(task[t]).h \in Handles
    BY <2>1, SafeBusy, EndedIsQuiet
  <2> QED BY <1>1, <2>1, <2>2, CallStep
<1>3. CASE ReleaseRun(t)
  <2>1. /\ task' = [task EXCEPT ![t] = IdleTask]
        /\ UNCHANGED <<record, status, mem, durable, orphans, acked, cleared>>
    BY <1>3 DEF ReleaseRun, history
  <2> QED BY <1>1, <2>1, IdleIsQuiet, CallStep
<1>4. CASE \E h \in Handles : StartRun(t, h)
  <2>1. PICK h \in Handles : StartRun(t, h)
    BY <1>4
  <2>2. PICK d : /\ task' = [task EXCEPT ![t] = d]
                 /\ d.pc = "initial" /\ d.op = "run" /\ d.h = h
    <3> DEFINE d(own) == [Call("run", h, {}) EXCEPT
                             !.pc = "initial", !.own = own, !.through = mem[h].sequence]
    <3>1. \E own \in {<<>>, <<nextId>>} : task' = [task EXCEPT ![t] = d(own)]
      BY <2>1 DEF StartRun
    <3>2. \A own : d(own).pc = "initial" /\ d(own).op = "run" /\ d(own).h = h
      BY DEF Call, IdleTask
    <3> HIDE DEF d
    <3> QED BY <3>1, <3>2
  <2>3. Live(h) /\ UNCHANGED <<record, status, mem, durable, orphans, acked, cleared>>
    BY <2>1 DEF StartRun, Live, history
  <2>4. TaskSafe(d) /\ \A b : Covers(d, b) /\ Covers(b, d)
    BY <2>2, <2>3, QuietCall
  <2> QED BY <1>1, <2>2, <2>3, <2>4, CallStep
<1>5. CASE /\ task[t].pc = "initial" /\ task' = [task EXCEPT ![t].pc = "turn"]
           /\ UNCHANGED <<record, handleVars, orphans, nextId, history>>
  <2> DEFINE d == [task[t] EXCEPT !.pc = "turn"]
  <2>1. /\ task[t] \in TaskState /\ task[t].h \in Handles /\ Live(task[t].h)
        /\ task[t].op # "delete"
    BY <1>5, SafeBusy
  <2>2. d.pc = "turn" /\ d.h = task[t].h /\ d.op = task[t].op
    BY <2>1 DEF TaskState
  <2>3. task' = [task EXCEPT ![t] = d]
    BY <1>1, <1>5
  <2> HIDE DEF d
  <2>4. TaskSafe(d) /\ \A b : Covers(d, b) /\ Covers(b, d)
    BY <2>1, <2>2, QuietCall
  <2>5. UNCHANGED <<record, status, mem, durable, orphans, acked, cleared>>
    BY <1>5 DEF handleVars, history
  <2> QED BY <1>1, <2>1, <2>2, <2>3, <2>4, <2>5, CallStep
<1> QED BY <1>2, <1>3, <1>4, <1>5

LEMMA CancelSafe ==
    ASSUME SafeInv, TypeInv', NEW t \in Tasks, Cancel(t)
    PROVE  SafeInv'
<1> DEFINE c == task[t]
<1>1. c.pc # "idle"
  BY DEF Cancel, SafeInv, TypeInv, TaskShape, ShapeOf, IdleTask
<1>2. c \in TaskState /\ ShapeOf(c) /\ c.h \in Handles /\ Live(c.h) /\ TaskSafe(c)
  BY <1>1, SafeBusy
<1>3. c.pc = "saving" => OrphanSafe(Request(c))
  <2>1. /\ Request(c).pc = c.pc /\ Request(c).h = c.h
        /\ Request(c).snap = c.snap /\ Request(c).expected = c.expected
    BY DEF Request, IdleTask
  <2> QED BY <1>2, <2>1 DEF OrphanSafe, TaskSafe, RequestSafe
<1>4. c.pc # "deleting"
  BY <1>2 DEF ShapeOf, TaskSafe
<1>5. \A r \in orphans' : r \in orphans \/ OrphanSafe(r)
  BY <1>3, <1>4 DEF Cancel
<1>6. /\ task' = [task EXCEPT ![t] = IdleTask]
      /\ UNCHANGED <<record, status, mem, durable, acked, cleared>>
  BY DEF Cancel, history
<1>7. acked \subseteq Ids(record) \cup cleared
  BY DEF SafeInv
<1> QED BY <1>5, <1>6, <1>7, IdleIsQuiet, CallStep

-----------------------------------------------------------------------------
\* Every step keeps SafeInv: a save begins.

\* A handle's own runtime state may be saved over the revision it knows.
LEMMA OwnStateSafe ==
    ASSUME SafeInv, NEW c \in TaskState, c.h \in Handles, Live(c.h), c.op # "delete",
           durable[c.h] < mem[c.h].revision, c.need <= mem[c.h].revision,
           c.op = "steer" => c.ids \subseteq Ids(mem[c.h]) \cup cleared
    PROVE  /\ TaskSafe(Save(c, mem[c.h])) /\ Save(c, mem[c.h]).h = c.h
           /\ \A b : Covers(b, Save(c, mem[c.h]))
           /\ \A u \in Tasks : Covers(Save(c, mem[c.h]), task[u])
<1> DEFINE s == mem[c.h]
           d == Save(c, s)
<1>1. /\ s \in Snapshot /\ s.revision \in Int /\ durable[c.h] \in Int
      /\ record.revision \in Int /\ HandleSafe(c.h)
  BY SafeTypes DEF SafeInv
<1>2. /\ d.pc = "saving" /\ d.snap = s /\ d.expected = durable[c.h]
      /\ d.h = c.h /\ d.op = c.op /\ d.ids = c.ids /\ d.need = c.need
  BY DEF Save, TaskState
<1> HIDE DEF d
<1>3. RequestSafe(d)
  BY <1>1, <1>2 DEF HandleSafe, RequestSafe
<1>4. WriteSafe(d)
  BY <1>1, <1>2, DescendsItself DEF WriteSafe, HandleSafe
<1>5. TaskSafe(d)
  BY <1>2, <1>3, <1>4 DEF TaskSafe
<1>6. \A u \in Tasks : Covers(d, task[u])
  BY <1>2 DEF SafeInv, TaskSafe, WaitSafe, Covers
<1>7. \A b : Covers(b, d)
  BY <1>2 DEF Covers
<1> QED BY <1>2, <1>5, <1>6, <1>7 DEF d

LEMMA GrantSafe ==
    ASSUME SafeInv, TypeInv', NEW t \in Tasks, Grant(t)
    PROVE  SafeInv'
<1> DEFINE c == task[t]
<1>1. c.pc = "waiting" /\ UNCHANGED <<record, status, mem, durable, cleared, orphans>>
  BY DEF Grant, history, Confirm
<1>2. /\ c \in TaskState /\ c.h \in Handles /\ Live(c.h) /\ c.op # "delete"
      /\ WaitSafe(c) /\ HandleSafe(c.h)
  BY <1>1, SafeBusy DEF TaskSafe
<1>3. /\ durable[c.h] \in Int /\ mem[c.h].revision \in Int /\ c.need \in Int
      /\ acked \subseteq Ids(record) \cup cleared
  BY <1>2, SafeTypes DEF SafeInv
<1>4. CASE /\ durable[c.h] >= c.need
           /\ task' = [task EXCEPT ![t] = Returned(c)]
           /\ Confirm(c)
  <2>1. c.op = "steer" => c.ids \subseteq Ids(record) \cup cleared
    BY <1>2, <1>3, <1>4 DEF WaitSafe
  <2>2. acked' \subseteq Ids(record) \cup cleared
    BY <1>3, <1>4, <2>1 DEF Confirm
  <2>3. /\ TaskSafe(Returned(c)) /\ \A b : Covers(Returned(c), b) /\ Covers(b, Returned(c))
        /\ Returned(c).pc # "idle" => Returned(c).h \in Handles
    BY <1>2, EndedIsQuiet
  <2> QED BY <1>1, <1>4, <2>2, <2>3, CallStep
<1>5. CASE /\ durable[c.h] < c.need
           /\ task' = [task EXCEPT ![t] = Save(c, mem[c.h])]
           /\ UNCHANGED history
  <2> DEFINE d == Save(c, mem[c.h])
  <2>1. durable[c.h] < mem[c.h].revision
    BY <1>2, <1>3, <1>5 DEF WaitSafe
  <2>2. /\ TaskSafe(d) /\ d.h = c.h /\ \A b : Covers(b, d)
        /\ \A u \in Tasks : Covers(d, task[u])
    BY <1>2, <2>1, OwnStateSafe DEF WaitSafe
  <2>3. acked' \subseteq Ids(record) \cup cleared
    BY <1>3, <1>5 DEF history
  <2> HIDE DEF d
  <2>4. task' = [task EXCEPT ![t] = d]
    BY <1>5 DEF d
  <2> QED BY <1>1, <1>2, <2>2, <2>3, <2>4, CallStep
<1> QED BY <1>4, <1>5 DEF Grant

LEMMA PersistSafe ==
    ASSUME SafeInv, TypeInv', NEW t \in Tasks, NEW h \in Handles, Persist(t, h)
    PROVE  SafeInv'
<1> DEFINE c == [Call("persist", h, {}) EXCEPT !.need = mem[h].revision]
           slow == [c EXCEPT !.pc = "waiting"]
           fast == Save(c, mem[h])
<1>1. /\ UNCHANGED <<record, status, mem, durable, cleared, orphans, acked>> /\ Live(h)
      /\ \/ task' = [task EXCEPT ![t] = slow]
         \/ durable[h] < mem[h].revision /\ task' = [task EXCEPT ![t] = fast]
  <2>1. c.need = mem[h].revision
    BY DEF Call, IdleTask
  <2> QED BY <2>1 DEF Persist, history
<1>2. /\ acked \subseteq Ids(record) \cup cleared /\ mem[h].revision \in Int /\ TypeInv
  BY SafeTypes DEF SafeInv
<1>3. c \in TaskState /\ c.h = h /\ c.op = "persist" /\ c.need = mem[h].revision
  BY <1>2, IdleTaskType DEF Call, IdleTask, TaskState, AllOps
<1>4. slow.pc = "waiting" /\ slow.h = h /\ slow.op = "persist" /\ slow.need = mem[h].revision
  BY DEF Call, IdleTask
<1> HIDE DEF c
<1>5. CASE task' = [task EXCEPT ![t] = slow]
  <2> HIDE DEF slow
  <2>1. TaskSafe(slow) /\ \A b : Covers(b, slow) /\ Covers(slow, b)
    BY <1>1, <1>2, <1>4 DEF TaskSafe, WaitSafe, Covers
  <2> QED BY <1>1, <1>2, <1>4, <1>5, <2>1, CallStep
<1>6. CASE durable[h] < mem[h].revision /\ task' = [task EXCEPT ![t] = fast]
  <2>1. /\ TaskSafe(fast) /\ fast.h = h /\ \A b : Covers(b, fast)
        /\ \A u \in Tasks : Covers(fast, task[u])
    BY <1>1, <1>2, <1>3, <1>6, OwnStateSafe
  <2> HIDE DEF fast
  <2> QED BY <1>1, <1>2, <1>6, <2>1, CallStep
<1> QED BY <1>1, <1>5, <1>6

-----------------------------------------------------------------------------
\* Every step keeps SafeInv: the repository.

\* An accepted save moves the record on, to a state that descends from it.
LEMMA AcceptGrows ==
    ASSUME SafeInv, NEW r, RequestSafe(r), r.snap.revision \in Int,
           SaveAccepted(r.snap, r.expected)
    PROVE  /\ record' = r.snap /\ r.expected = record.revision
           /\ record.revision < record'.revision
           /\ Descends(record, record', cleared)
BY DEF SaveAccepted, CasAccepts, RequestSafe

\* task u in the worker thread: its save was accepted, or failed after the write.
Finishes(u, r) ==
    /\ task[u].pc = "saving" /\ task[u].snap = r.snap
    /\ \E pc \in {"saved", "failed"} : task'[u] = [task[u] EXCEPT !.pc = pc]

LEMMA AcceptStep ==
    ASSUME SafeInv, TypeInv', NEW r, RequestSafe(r), r.snap \in Snapshot,
           SaveAccepted(r.snap, r.expected),
           UNCHANGED <<status, mem, durable, acked, cleared>>, orphans' \subseteq orphans,
           \A u \in Tasks : task'[u] = task[u] \/ Finishes(u, r)
    PROVE  SafeInv'
<1>1. TypeInv
  BY DEF SafeInv
<1>2. /\ record' = r.snap /\ record.revision < record'.revision
      /\ Descends(record, record', cleared)
      /\ record \in Snapshot /\ record' \in Snapshot
      /\ record.revision \in Int /\ record'.revision \in Int
  BY <1>1, AcceptGrows, SafeTypes, SnapshotParts
<1>3. RecordSafe'
  BY <1>2 DEF SafeInv, RecordSafe, None
<1>4. \A h \in Handles : HandleSafe(h)'
  <2> SUFFICES ASSUME NEW h \in Handles
               PROVE  HandleSafe(h)'
    OBVIOUS
  <2>1. HandleSafe(h) /\ durable[h] \in Int
    BY <1>1, SafeTypes DEF SafeInv
  <2> QED BY <1>2, <2>1 DEF HandleSafe, Live
<1>5. ASSUME NEW q, RequestSafe(q), q.expected \in Int
      PROVE  RequestSafe(q)'
  BY <1>2, <1>5 DEF RequestSafe
<1>6. \A u \in Tasks : TaskSafe(task[u])'
  <2> SUFFICES ASSUME NEW u \in Tasks
               PROVE  TaskSafe(task[u])'
    OBVIOUS
  <2> DEFINE c == task[u]
  <2>1. /\ TaskSafe(c) /\ c \in TaskState /\ c.snap \in Snapshot /\ c.snap.revision \in Int
        /\ c.expected \in Int
    BY <1>1, SafeTypes DEF SafeInv
  <2>2. CASE task'[u] = task[u]
    <3>1. c.pc = "saving" => RequestSafe(c)'
      <4>1. c.pc = "saving" => RequestSafe(c)
        BY <2>1 DEF TaskSafe
      <4>2. RequestSafe(c) => RequestSafe(task[u])'
        BY <1>2, <2>1, <2>2 DEF RequestSafe
      <4> QED BY <4>1, <4>2
    <3>2. c.pc = "saved" => WrittenSafe(c)'
      <4> SUFFICES ASSUME c.pc = "saved"
                   PROVE  WrittenSafe(c)'
        OBVIOUS
      <4>1. WrittenSafe(c)
        BY <2>1 DEF TaskSafe
      <4>2. Descends(c.snap, record', cleared)
        BY <1>2, <2>1, <4>1, DescendsThrough DEF WrittenSafe
      <4> QED BY <1>2, <2>1, <2>2, <4>1, <4>2 DEF WrittenSafe
    <3>3. c.pc = "waiting" => WaitSafe(c)'
      BY <1>2, <2>1, <2>2 DEF TaskSafe, WaitSafe, Descends
    <3>4. c.pc \in {"saving", "saved"} => WriteSafe(c)'
      BY <2>1, <2>2 DEF TaskSafe, WriteSafe
    <3> QED BY <2>1, <2>2, <3>1, <3>2, <3>3, <3>4 DEF TaskSafe, Live
  <2>3. CASE Finishes(u, r)
    <3>1. PICK pc \in {"saved", "failed"} : task'[u] = [task[u] EXCEPT !.pc = pc]
      BY <2>3 DEF Finishes
    <3>2. /\ task'[u].pc = pc /\ task'[u].h = c.h /\ task'[u].op = c.op
          /\ task'[u].snap = c.snap /\ task'[u].ids = c.ids /\ task'[u].need = c.need
          /\ c.snap = record' /\ c.pc = "saving"
      BY <1>2, <2>1, <2>3, <3>1 DEF TaskState, Finishes
    <3>3. Descends(record', record', cleared)
      BY <1>2, DescendsItself
    <3>4. WriteSafe(c) /\ Live(c.h) /\ c.op # "delete"
      BY <2>1, <3>2 DEF TaskSafe
    <3>5. WrittenSafe(task[u])' /\ WriteSafe(task[u])'
      BY <1>2, <3>2, <3>3, <3>4 DEF WrittenSafe, WriteSafe
    <3> QED BY <3>2, <3>4, <3>5 DEF TaskSafe, Live
  <2> QED BY <2>2, <2>3
<1>7. \A u, v \in Tasks : Covers(task[v], task[u])'
  <2> SUFFICES ASSUME NEW u \in Tasks, NEW v \in Tasks
               PROVE  Covers(task'[v], task'[u])
    BY DEF Covers
  <2>1. Covers(task[v], task[u]) /\ task[u] \in TaskState /\ task[v] \in TaskState
    BY <1>1, SafeTypes DEF SafeInv
  <2>2. \/ task'[u] = task[u]
        \/ task'[u].pc \in {"saved", "failed"}
    BY <2>1 DEF Finishes, TaskState
  <2>3. \/ task'[v] = task[v]
        \/ /\ task'[v].snap = task[v].snap /\ task'[v].h = task[v].h
           /\ task[v].pc = "saving"
    BY <2>1 DEF Finishes, TaskState
  <2> QED BY <2>1, <2>2, <2>3 DEF Covers
<1>8. \A q \in orphans' : OrphanSafe(q)'
  <2> SUFFICES ASSUME NEW q \in orphans'
               PROVE  OrphanSafe(q)'
    OBVIOUS
  <2>1. OrphanSafe(q) /\ q.expected \in Int
    BY <1>1, SafeTypes DEF SafeInv
  <2>2. RequestSafe(q)'
    BY <1>2, <2>1 DEF OrphanSafe, RequestSafe
  <2> QED BY <2>1, <2>2 DEF OrphanSafe, Live
<1>9. (acked \subseteq Ids(record) \cup cleared)'
  BY <1>2 DEF SafeInv, Descends
<1> QED BY <1>3, <1>4, <1>6, <1>7, <1>8, <1>9 DEF SafeInv

LEMMA WorkerSaveSafe ==
    ASSUME SafeInv, TypeInv', NEW t \in Tasks, WorkerSave(t)
    PROVE  SafeInv'
<1> DEFINE c == task[t]
<1>1. c.pc = "saving" /\ UNCHANGED <<status, mem, durable, orphans, acked, cleared>>
  BY DEF WorkerSave, handleVars, history
<1>2. /\ c \in TaskState /\ c.snap \in Snapshot /\ RequestSafe(c) /\ c.op # "delete"
      /\ c.h \in Handles /\ Live(c.h) /\ task \in [Tasks -> TaskState]
  BY <1>1, SafeBusy, SafeTypes DEF TaskSafe, SafeInv, TypeInv, TypeOK, Types
<1>3. \/ \E pc \in {"saved", "failed"} : /\ SaveAccepted(c.snap, c.expected)
                                         /\ task' = [task EXCEPT ![t] = [c EXCEPT !.pc = pc]]
      \/ \E pc \in {"refused", "failed"} : /\ UNCHANGED record
                                           /\ task' = [task EXCEPT ![t] = [c EXCEPT !.pc = pc]]
  BY <1>2 DEF WorkerSave, SaveRefused
<1>4. CASE \E pc \in {"saved", "failed"} : /\ SaveAccepted(c.snap, c.expected)
                                           /\ task' = [task EXCEPT ![t] = [c EXCEPT !.pc = pc]]
  <2>1. \A u \in Tasks : task'[u] = task[u] \/ Finishes(u, c)
    BY <1>1, <1>2, <1>4 DEF Finishes
  <2> QED BY <1>1, <1>2, <1>4, <2>1, AcceptStep
<1>5. CASE \E pc \in {"refused", "failed"} : /\ UNCHANGED record
                                             /\ task' = [task EXCEPT ![t] = [c EXCEPT !.pc = pc]]
  <2>1. PICK pc \in {"refused", "failed"} : task' = [task EXCEPT ![t] = [c EXCEPT !.pc = pc]]
    BY <1>5
  <2> DEFINE d == [c EXCEPT !.pc = pc]
  <2>2. d.pc = pc /\ d.op = c.op /\ d.h = c.h
    BY <1>2 DEF TaskState
  <2>3. task' = [task EXCEPT ![t] = d]
    BY <2>1
  <2> HIDE DEF d, c
  <2>4. TaskSafe(d) /\ \A b : Covers(d, b) /\ Covers(b, d)
    BY <1>2, <2>2, QuietCall
  <2>5. UNCHANGED record /\ acked \subseteq Ids(record) \cup cleared
    BY <1>5 DEF SafeInv
  <2> QED BY <1>1, <1>2, <2>2, <2>3, <2>4, <2>5, CallStep
<1> QED BY <1>3, <1>4, <1>5

LEMMA OrphanSafeStep ==
    ASSUME SafeInv, TypeInv', NEW r \in orphans, WorkerOrphan(r)
    PROVE  SafeInv'
<1>1. /\ r.pc = "saving" /\ RequestSafe(r) /\ r.snap \in Snapshot
  BY SafeTypes DEF SafeInv, OrphanSafe
<1>2. /\ UNCHANGED <<status, mem, durable, task, acked, cleared>> /\ orphans' \subseteq orphans
      /\ SaveAccepted(r.snap, r.expected) \/ UNCHANGED record
  BY <1>1 DEF WorkerOrphan, handleVars, SaveRefused
<1>3. CASE SaveAccepted(r.snap, r.expected)
  BY <1>1, <1>2, <1>3, AcceptStep
<1>4. CASE UNCHANGED record
  BY <1>2, <1>4 DEF SafeInv, RecordSafe, HandleSafe, TaskSafe, Covers, OrphanSafe, Live,
                    RequestSafe, WriteSafe, WrittenSafe, WaitSafe, Descends
<1> QED BY <1>2, <1>3, <1>4

LEMMA SaveReturnsSafe ==
    ASSUME SafeInv, TypeInv', NEW t \in Tasks, SaveReturns(t)
    PROVE  SafeInv'
<1> DEFINE c == task[t]
           d == Returned(c)
<1>1. /\ c.pc = "saved" /\ durable' = [durable EXCEPT ![c.h] = c.snap.revision]
      /\ task' = [task EXCEPT ![t] = d] /\ Confirm(c)
      /\ UNCHANGED <<record, status, mem, orphans, cleared>>
  BY DEF SaveReturns, Confirm
<1>2. /\ c \in TaskState /\ c.h \in Handles /\ Live(c.h) /\ c.op # "delete"
      /\ WriteSafe(c) /\ WrittenSafe(c) /\ HandleSafe(c.h)
      /\ c.snap \in Snapshot /\ c.snap.revision \in Int /\ TypeInv
  BY <1>1, SafeBusy, SafeTypes DEF TaskSafe, SafeInv
<1>3. /\ durable \in [Handles -> Int] /\ record \in Snapshot /\ record.revision \in Int
      /\ mem[c.h] \in Snapshot /\ mem[c.h].revision \in Int
      /\ task \in [Tasks -> TaskState]
  BY <1>2, SafeTypes DEF TypeInv, TypeOK, Types
<1>4. c.op = "steer" => c.ids \subseteq Ids(record) \cup cleared
  BY <1>2 DEF WriteSafe, WrittenSafe, Descends
<1>5. (acked \subseteq Ids(record) \cup cleared)'
  BY <1>1, <1>4 DEF SafeInv, Confirm
<1>6. RecordSafe' /\ \A r \in orphans' : OrphanSafe(r)'
  BY <1>1 DEF SafeInv, RecordSafe, OrphanSafe, RequestSafe, Live
<1>7. /\ TaskSafe(d) /\ d.pc \notin {"waiting", "saving", "saved"}
      /\ d.pc # "idle" => d.h \in Handles /\ Live(d.h)
      /\ d.op # "delete"
  <2>1. TaskSafe(d)
    BY <1>2, EndedIsQuiet
  <2>2. d.pc \notin {"waiting", "saving", "saved"} /\ (d.pc # "idle" => d.h = c.h)
    BY <1>2 DEF Returned, IdleTask, TaskState
  <2> QED BY <1>2, <2>1, <2>2 DEF TaskSafe
<1> HIDE DEF c, d
<1>8. \A h \in Handles : durable'[h] = IF h = c.h THEN c.snap.revision ELSE durable[h]
  BY <1>1, <1>2, <1>3
<1>9. \A u \in Tasks : task'[u] = IF u = t THEN d ELSE task[u]
  BY <1>1, <1>3
<1>10. \A h \in Handles : HandleSafe(h)'
  <2> SUFFICES ASSUME NEW h \in Handles
               PROVE  HandleSafe(h)'
    OBVIOUS
  <2>1. CASE h = c.h
    <3>1. None <= c.snap.revision /\ c.snap.revision <= record.revision
      BY <1>2, <1>3 DEF WriteSafe, WrittenSafe, None
    <3>2. c.snap.revision = record.revision => Descends(record, mem[h], cleared)
      BY <2>1, <1>2 DEF WrittenSafe, WriteSafe
    <3>3. durable'[h] = c.snap.revision /\ c.snap.revision <= mem[h].revision
      BY <2>1, <1>2, <1>8 DEF WriteSafe
    <3> QED BY <2>1, <3>1, <3>2, <3>3, <1>1, <1>2 DEF HandleSafe, Live
  <2>2. CASE h # c.h
    BY <2>2, <1>1, <1>8 DEF SafeInv, HandleSafe, Live
  <2> QED BY <2>1, <2>2
<1>11. \A u \in Tasks : TaskSafe(task[u])'
  <2> SUFFICES ASSUME NEW u \in Tasks
               PROVE  TaskSafe(task[u])'
    OBVIOUS
  <2>1. CASE u = t
    BY <2>1, <1>1, <1>7, <1>9 DEF TaskSafe, Live
  <2>2. CASE u # t
    <3>1. task'[u] = task[u] /\ TaskSafe(task[u])
      BY <2>2, <1>9 DEF SafeInv
    <3>2. task[u].pc = "waiting" => WaitSafe(task[u])'
      <4> SUFFICES ASSUME task[u].pc = "waiting"
                   PROVE  WaitSafe(task[u])'
        OBVIOUS
      <4>1. WaitSafe(task[u]) /\ task[u].h \in Handles
        BY <3>1, SafeBusy DEF TaskSafe
      <4>2. Covers(c, task[u])
        BY DEF SafeInv, c
      <4>3. CASE task[u].h = c.h
        <5>1. task[u].op = "steer" /\ task[u].need <= c.snap.revision
                => task[u].ids \subseteq Ids(record) \cup cleared
          BY <1>1, <1>2, <4>2, <4>3 DEF Covers, WrittenSafe, Descends
        <5> QED BY <1>1, <1>8, <3>1, <4>1, <4>3, <5>1 DEF WaitSafe
      <4>4. CASE task[u].h # c.h
        BY <1>1, <1>8, <3>1, <4>1, <4>4 DEF WaitSafe
      <4> QED BY <4>3, <4>4
    <3> QED BY <1>1, <3>1, <3>2 DEF TaskSafe, Live, RequestSafe, WriteSafe, WrittenSafe
  <2> QED BY <2>1, <2>2
<1>12. \A u, v \in Tasks : Covers(task[v], task[u])'
  <2> SUFFICES ASSUME NEW u \in Tasks, NEW v \in Tasks
               PROVE  Covers(task'[v], task'[u])
    BY <1>1 DEF Covers
  <2>1. Covers(task[v], task[u])
    BY DEF SafeInv
  <2> QED BY <1>7, <1>9, <2>1 DEF Covers
<1> QED BY <1>5, <1>6, <1>10, <1>11, <1>12 DEF SafeInv

-----------------------------------------------------------------------------
\* Every step keeps SafeInv: mutations, and handles that come and go.

LEMMA MutationSafe ==
    ASSUME SafeInv, TypeInv', NEW t \in Tasks,
           NEW c \in TaskState, NEW s \in Snapshot, Mutates(t, c, s)
    PROVE  SafeInv'
<1> DEFINE need == [c EXCEPT !.need = s.revision]
           fast == Save(need, s)
           slow == [need EXCEPT !.pc = "waiting"]
<1>1. /\ c.h \in Handles /\ c.op # "delete" /\ Live(c.h)
      /\ c.op = "steer" => c.ids \subseteq Ids(s)
      /\ cleared \subseteq cleared' /\ acked' = acked
      /\ task[t].pc \in {"idle", "initial", "turn"}
  BY SafeBusy DEF Mutates, Mutator
<1>2. /\ TypeInv /\ HandleSafe(c.h) /\ RecordSafe
      /\ task \in [Tasks -> TaskState] /\ mem \in [Handles -> Snapshot]
      /\ mem[c.h] \in Snapshot /\ mem[c.h].revision \in Int /\ durable[c.h] \in Int
      /\ s.revision \in Int /\ record \in Snapshot /\ record.revision \in Int
  BY <1>1, SafeTypes, SnapshotParts DEF SafeInv, TypeInv, TypeOK, Types
<1>3. s.revision = mem[c.h].revision + 1 /\ Descends(mem[c.h], s, cleared')
  BY DEF Mutates, Successor
<1>4. /\ mem' = [mem EXCEPT ![c.h] = s]
      /\ task' = [task EXCEPT ![t] = fast] \/ task' = [task EXCEPT ![t] = slow]
      /\ UNCHANGED <<record, status, durable, orphans>>
  <2>1. need.h = c.h
    BY DEF TaskState
  <2> QED BY <2>1 DEF Mutates, MutateAndPersist
<1>5. /\ fast.pc = "saving" /\ fast.op = c.op /\ fast.h = c.h /\ fast.ids = c.ids
      /\ fast.snap = s /\ fast.expected = durable[c.h] /\ fast.need = s.revision
      /\ slow.pc = "waiting" /\ slow.op = c.op /\ slow.h = c.h /\ slow.ids = c.ids
      /\ slow.need = s.revision
  BY DEF Save, TaskState
<1> HIDE DEF need, fast, slow
<1>6. PICK d : /\ \A u \in Tasks : task'[u] = IF u = t THEN d ELSE task[u]
               /\ d.op = c.op /\ d.h = c.h /\ d.ids = c.ids /\ d.need = s.revision
               /\ \/ d.pc = "saving" /\ d.snap = s /\ d.expected = durable[c.h]
                  \/ d.pc = "waiting"
  <2>1. \/ \A u \in Tasks : task'[u] = IF u = t THEN fast ELSE task[u]
        \/ \A u \in Tasks : task'[u] = IF u = t THEN slow ELSE task[u]
    BY <1>2, <1>4
  <2> QED BY <1>5, <2>1
<1>7. \A h \in Handles : mem'[h] = IF h = c.h THEN s ELSE mem[h]
  BY <1>2, <1>4
<1>8. /\ None <= durable[c.h] /\ durable[c.h] <= record.revision
      /\ 0 <= mem[c.h].revision /\ durable[c.h] <= mem[c.h].revision
      /\ durable[c.h] = record.revision => Descends(record, s, cleared')
  <2>1. durable[c.h] = record.revision => Descends(record, mem[c.h], cleared)
    BY <1>1, <1>2 DEF HandleSafe
  <2>2. durable[c.h] = record.revision => Descends(record, s, cleared')
    BY <2>1, <1>1, <1>2, <1>3, DescendsThrough
  <2> QED BY <1>1, <1>2, <2>2 DEF HandleSafe
<1>9. RecordSafe' /\ (acked \subseteq Ids(record) \cup cleared)'
  BY <1>1, <1>4 DEF SafeInv, RecordSafe
<1>10. \A h \in Handles : HandleSafe(h)'
  <2> SUFFICES ASSUME NEW h \in Handles
               PROVE  HandleSafe(h)'
    OBVIOUS
  <2>1. CASE h = c.h
    BY <2>1, <1>1, <1>2, <1>3, <1>4, <1>7, <1>8 DEF HandleSafe, Live
  <2>2. CASE h # c.h
    <3>1. HandleSafe(h) /\ mem'[h] = mem[h]
      BY <2>2, <1>7 DEF SafeInv
    <3> QED BY <3>1, <1>1, <1>4, DescendsMore DEF HandleSafe, Live
  <2> QED BY <2>1, <2>2
<1>11. ASSUME NEW r, RequestSafe(r)
       PROVE  RequestSafe(r)'
  BY <1>1, <1>4, <1>11, DescendsMore DEF RequestSafe
<1>12. \A r \in orphans' : OrphanSafe(r)'
  <2> SUFFICES ASSUME NEW r \in orphans
               PROVE  OrphanSafe(r)'
    BY <1>4
  <2>1. OrphanSafe(r)
    BY DEF SafeInv
  <2> QED BY <2>1, <1>4, <1>11 DEF OrphanSafe, Live
<1>13. TaskSafe(d)'
  <2>1. CASE d.pc = "saving" /\ d.snap = s /\ d.expected = durable[c.h]
    <3>1. Descends(s, s, cleared')
      BY DescendsItself
    <3>2. mem'[d.h] = s
      BY <1>1, <1>6, <1>7
    <3>3. WriteSafe(d)'
      BY <1>1, <1>2, <1>3, <1>6, <1>8, <2>1, <3>1, <3>2 DEF WriteSafe
    <3>4. RequestSafe(d)'
      BY <1>2, <1>3, <1>4, <1>8, <2>1 DEF RequestSafe
    <3> QED BY <2>1, <3>3, <3>4, <1>1, <1>4, <1>6 DEF TaskSafe, Live
  <2>2. CASE d.pc = "waiting"
    <3>1. mem'[d.h] = s /\ durable'[d.h] < d.need
      BY <1>1, <1>2, <1>3, <1>4, <1>6, <1>7, <1>8, <2>2
    <3>2. WaitSafe(d)'
      BY <1>1, <1>2, <1>4, <1>6, <2>2, <3>1 DEF WaitSafe
    <3> QED BY <2>2, <3>2, <1>1, <1>4, <1>6 DEF TaskSafe, Live
  <2> QED BY <1>6, <2>1, <2>2
<1>15. ASSUME NEW u \in Tasks, u # t
       PROVE  TaskSafe(task[u])'
  <2> DEFINE b == task[u]
  <2>1. /\ TaskSafe(b) /\ task'[u] = task[u] /\ b.snap \in Snapshot /\ b.snap.revision \in Int
        /\ b.need \in Int
        /\ b.pc # "idle" => b.h \in Handles
    BY <1>2, <1>6, <1>15, SafeTypes DEF SafeInv
  <2>2. b.pc = "saving" => RequestSafe(task[u])'
    BY <2>1, <1>1, <1>4, DescendsMore DEF TaskSafe, RequestSafe
  <2>3. b.pc \in {"saving", "saved"} => WriteSafe(task[u])'
    <3> SUFFICES ASSUME b.pc \in {"saving", "saved"}
                 PROVE  WriteSafe(task[u])'
      OBVIOUS
    <3>1. WriteSafe(b) /\ b.h \in Handles
      BY <2>1 DEF TaskSafe
    <3>2. CASE b.h = c.h
      <4>1. Descends(b.snap, s, cleared')
        BY <3>1, <3>2, <2>1, <1>1, <1>2, <1>3, DescendsThrough DEF WriteSafe
      <4> QED BY <3>1, <3>2, <4>1, <2>1, <1>1, <1>2, <1>3, <1>7 DEF WriteSafe
    <3>3. CASE b.h # c.h
      BY <3>1, <3>3, <2>1, <1>1, <1>7, DescendsMore DEF WriteSafe
    <3> QED BY <3>2, <3>3
  <2>4. b.pc = "saved" => WrittenSafe(task[u])'
    BY <2>1, <1>1, <1>4, DescendsMore DEF TaskSafe, WrittenSafe
  <2>5. b.pc = "waiting" => WaitSafe(task[u])'
    <3> SUFFICES ASSUME b.pc = "waiting"
                 PROVE  WaitSafe(task[u])'
      OBVIOUS
    <3>1. WaitSafe(b) /\ b.h \in Handles
      BY <2>1 DEF TaskSafe
    <3>2. b.need <= mem'[b.h].revision
      BY <3>1, <2>1, <1>2, <1>3, <1>7 DEF WaitSafe
    <3>3. Ids(mem[b.h]) \subseteq Ids(mem'[b.h]) \cup cleared'
      BY <3>1, <1>3, <1>7 DEF Descends
    <3> QED BY <3>1, <3>2, <3>3, <2>1, <1>1, <1>4 DEF WaitSafe
  <2> QED BY <2>1, <2>2, <2>3, <2>4, <2>5, <1>4 DEF TaskSafe, Live
<1>14. \A u \in Tasks : TaskSafe(task[u])'
  BY <1>6, <1>13, <1>15 DEF TaskSafe, Live, RequestSafe, WriteSafe, WrittenSafe, WaitSafe
<1>16. \A u, v \in Tasks : Covers(task[v], task[u])'
  <2> SUFFICES ASSUME NEW u \in Tasks, NEW v \in Tasks
               PROVE  Covers(task[v], task[u])'
    OBVIOUS
  <2>1. Covers(task[v], task[u]) /\ TaskSafe(task[u]) /\ TaskSafe(task[v])
    BY DEF SafeInv
  <2>2. task[v].snap.revision \in Int
    BY <1>2, SafeTypes
  <2>3. CASE u # t /\ v # t
    BY <2>1, <2>3, <1>1, <1>6 DEF Covers
  <2>4. CASE u = t /\ v # t
    <3>1. task[v].pc \in {"saving", "saved"} /\ task[v].h = c.h => task[v].snap.revision < s.revision
      BY <2>1, <2>2, <1>2, <1>3 DEF TaskSafe, WriteSafe
    <3>2. ~(s.revision <= task[v].snap.revision) \/ ~(task[v].pc \in {"saving", "saved"} /\ task[v].h = c.h)
      BY <3>1, <2>2, <1>2
    <3> QED BY <2>4, <3>2, <1>6 DEF Covers
  <2>5. CASE u # t /\ v = t
    <3>1. task[u].pc = "waiting" /\ task[u].op = "steer" /\ task[u].h = c.h
            => task[u].ids \subseteq Ids(s) \cup cleared'
      BY <2>1, <1>1, <1>3 DEF TaskSafe, WaitSafe, Descends
    <3> QED BY <2>5, <3>1, <1>6 DEF Covers
  <2>6. CASE u = t /\ v = t
    BY <2>6, <1>6 DEF Covers
  <2> QED BY <2>3, <2>4, <2>5, <2>6
<1> QED BY <1>9, <1>10, <1>12, <1>14, <1>16 DEF SafeInv

\* Steps of whole handles: those with a call or a request keep their state.
LEMMA HandleStep ==
    ASSUME SafeInv, TypeInv', NEW h \in Handles,
           record' = record /\ acked' = acked /\ cleared' = cleared,
           \A k \in Handles : k # h => /\ Live(k)' <=> Live(k)
                                       /\ mem'[k] = mem[k] /\ durable'[k] = durable[k],
           \A t \in Tasks : \/ task'[t] = IdleTask
                            \/ task'[t] = task[t] /\ (task[t].pc = "idle" \/ task[t].h # h),
           \A r \in orphans' : r \in orphans /\ r.h # h,
           HandleSafe(h)'
    PROVE  SafeInv'
<1>1. RecordSafe' /\ (acked \subseteq Ids(record) \cup cleared)'
  BY DEF SafeInv, RecordSafe
<1>2. \A k \in Handles : HandleSafe(k)'
  BY DEF SafeInv, HandleSafe
<1>3. \A r \in orphans' : OrphanSafe(r)'
  BY DEF SafeInv, OrphanSafe, RequestSafe
<1>4. \A t \in Tasks : TaskSafe(task[t])'
  <2> SUFFICES ASSUME NEW t \in Tasks
               PROVE  TaskSafe(task[t])'
    OBVIOUS
  <2>1. TaskSafe(task[t]) /\ (task[t].pc # "idle" => task[t].h \in Handles)
    BY SafeTypes DEF SafeInv
  <2>2. CASE task'[t] = IdleTask
    BY <2>2, IdleIsQuiet DEF TaskSafe
  <2>3. CASE task'[t] = task[t] /\ task[t].pc = "idle"
    BY <2>1, <2>3 DEF TaskSafe
  <2>4. CASE task'[t] = task[t] /\ task[t].pc # "idle" /\ task[t].h # h
    <3>1. /\ Live(task[t].h)' <=> Live(task[t].h)
          /\ mem'[task[t].h] = mem[task[t].h] /\ durable'[task[t].h] = durable[task[t].h]
      BY <2>1, <2>4
    <3> QED BY <2>1, <2>4, <3>1 DEF TaskSafe, RequestSafe, WriteSafe, WrittenSafe, WaitSafe, Live
  <2> QED BY <2>2, <2>3, <2>4
<1>5. \A t, u \in Tasks : Covers(task[u], task[t])'
  <2> SUFFICES ASSUME NEW t \in Tasks, NEW u \in Tasks
               PROVE  Covers(task'[u], task'[t])
    BY DEF Covers
  <2>1. Covers(task[u], task[t])
    BY DEF SafeInv
  <2> QED BY <2>1, IdleIsQuiet
<1> QED BY <1>1, <1>2, <1>3, <1>4, <1>5 DEF SafeInv

LEMMA NewOpenSafe ==
    ASSUME SafeInv, TypeInv', NEW h \in Handles, New(h) \/ Open(h)
    PROVE  SafeInv'
<1>1. /\ TypeInv /\ RecordSafe /\ HandleSafe(h) /\ ~Live(h)
      /\ record \in Snapshot /\ record.revision \in Int /\ Fresh \in Snapshot
      /\ status \in [Handles -> {"none", "open", "closed"}] /\ mem \in [Handles -> Snapshot]
      /\ durable \in [Handles -> Int]
  BY SafeTypes, IdleTaskType DEF SafeInv, New, Open, Live, TypeInv, TypeOK, Types
<1>2. /\ status' = [status EXCEPT ![h] = "open"]
      /\ UNCHANGED <<record, task, orphans, acked, cleared>>
  BY DEF New, Open, history
<1>3. \A t \in Tasks : task[t].pc = "idle" \/ task[t].h # h
  BY <1>1 DEF SafeInv, TaskSafe
<1>4. \A r \in orphans : r.h # h
  BY <1>1 DEF SafeInv, OrphanSafe
<1>5. Live(h)' /\ \A k \in Handles : k # h => (Live(k)' <=> Live(k))
  BY <1>1, <1>2 DEF Live
<1>6. CASE New(h)
  <2>1. mem' = mem /\ durable' = durable
    BY <1>6 DEF New
  <2>2. mem[h] = Fresh /\ durable[h] = None /\ Fresh.revision = 0
    BY <1>1 DEF HandleSafe, Fresh
  <2>3. record.revision = None => Descends(record, Fresh, cleared)
    BY <1>1, DescendsFromAbsent DEF RecordSafe
  <2>4. HandleSafe(h)'
    BY <1>1, <1>2, <1>5, <2>1, <2>2, <2>3 DEF HandleSafe, RecordSafe, None
  <2> QED BY <1>2, <1>3, <1>4, <1>5, <2>1, <2>4, HandleStep
<1>7. CASE Open(h)
  <2>1. /\ mem' = [mem EXCEPT ![h] = record] /\ durable' = [durable EXCEPT ![h] = record.revision]
        /\ record # Absent
    BY <1>7 DEF Open
  <2>2. 0 <= record.revision
    BY <1>1, <2>1 DEF RecordSafe, None
  <2>3. Descends(record, record, cleared)
    BY <1>1, DescendsItself
  <2>4. mem'[h] = record /\ durable'[h] = record.revision
    BY <1>1, <2>1
  <2>5. HandleSafe(h)'
    BY <1>1, <1>2, <1>5, <2>2, <2>3, <2>4 DEF HandleSafe, None
  <2>6. \A k \in Handles : k # h => mem'[k] = mem[k] /\ durable'[k] = durable[k]
    BY <1>1, <2>1
  <2> QED BY <1>2, <1>3, <1>4, <1>5, <2>5, <2>6, HandleStep
<1> QED BY <1>6, <1>7

LEMMA CrashSafe ==
    ASSUME SafeInv, TypeInv', NEW h \in Handles, Crash(h)
    PROVE  SafeInv'
<1>1. /\ status \in [Handles -> {"none", "open", "closed"}] /\ mem \in [Handles -> Snapshot]
      /\ durable \in [Handles -> Int]
  BY DEF SafeInv, TypeInv, TypeOK, Types
<1>2. /\ status' = [status EXCEPT ![h] = "none"] /\ mem' = [mem EXCEPT ![h] = Fresh]
      /\ durable' = [durable EXCEPT ![h] = None]
      /\ task' = [t \in Tasks |-> IF task[t].h = h THEN IdleTask ELSE task[t]]
      /\ orphans' = {c \in orphans : c.h # h}
      /\ UNCHANGED <<record, acked, cleared>>
  BY DEF Crash, history
<1>3. HandleSafe(h)'
  BY <1>1, <1>2 DEF HandleSafe, Live
<1>4. \A k \in Handles : k # h => /\ Live(k)' <=> Live(k)
                                  /\ mem'[k] = mem[k] /\ durable'[k] = durable[k]
  BY <1>1, <1>2 DEF Live
<1>5. \A t \in Tasks : \/ task'[t] = IdleTask
                       \/ task'[t] = task[t] /\ (task[t].pc = "idle" \/ task[t].h # h)
  BY <1>2
<1> QED BY <1>2, <1>3, <1>4, <1>5, HandleStep

LEMMA StutterSafe ==
    ASSUME SafeInv, TypeInv', Quiescent \/ UNCHANGED vars \/ \E h \in Handles : Close(h)
    PROVE  SafeInv'
<1>1. UNCHANGED <<record, mem, durable, task, orphans, acked, cleared>>
  BY DEF Quiescent, vars, handleVars, history, Close
<1>2. \A h \in Handles : Live(h)' <=> Live(h)
  <2>1. CASE UNCHANGED status
    BY <2>1 DEF Live
  <2>2. CASE \E h \in Handles : Close(h)
    BY <2>2 DEF Close, Live, SafeInv, TypeInv, TypeOK, Types
  <2> QED BY <2>1, <2>2 DEF Quiescent, vars, handleVars
<1>3. \A t \in Tasks : task[t].pc # "idle" => task[t].h \in Handles
  BY SafeTypes DEF SafeInv
<1>4. RecordSafe' /\ (acked \subseteq Ids(record) \cup cleared)'
  BY <1>1 DEF SafeInv, RecordSafe
<1>5. \A h \in Handles : HandleSafe(h)'
  BY <1>1, <1>2 DEF SafeInv, HandleSafe
<1>6. \A t \in Tasks : TaskSafe(task[t])'
  BY <1>1, <1>2, <1>3 DEF SafeInv, TaskSafe, RequestSafe, WriteSafe, WrittenSafe, WaitSafe
<1>7. \A t, u \in Tasks : Covers(task[u], task[t])'
  BY <1>1 DEF SafeInv, Covers
<1>8. \A r \in orphans' : OrphanSafe(r)'
  BY <1>1, <1>2 DEF SafeInv, OrphanSafe, RequestSafe
<1> QED BY <1>4, <1>5, <1>6, <1>7, <1>8 DEF SafeInv

-----------------------------------------------------------------------------
\* The safety theorems, for hosts that never delete.

LEMMA InitSafe == SessionAssumption /\ Init => SafeInv
<1> SUFFICES ASSUME SessionAssumption, Init
             PROVE  SafeInv
  OBVIOUS
<1>1. TypeInv
  BY InitType
<1>2. RecordSafe /\ \A h \in Handles : HandleSafe(h)
  BY DEF Init, RecordSafe, HandleSafe, Live, Absent, None
<1>3. \A t \in Tasks : task[t] = IdleTask
  BY DEF Init
<1>4. \A t \in Tasks : TaskSafe(task[t])
  BY <1>3, IdleIsQuiet
<1>5. \A t, u \in Tasks : Covers(task[u], task[t])
  BY <1>3, IdleIsQuiet
<1> QED BY <1>1, <1>2, <1>4, <1>5 DEF SafeInv, Init

\* The steps of a delete are never taken.
LEMMA NoDeleteStep ==
    ASSUME SafeInv, "delete" \notin Ops, NEW t \in Tasks
    PROVE  /\ \A h \in Handles : ~Delete(t, h)
           /\ ~WorkerLoad(t) /\ ~DeleteLoaded(t) /\ ~WorkerDelete(t)
           /\ ~DeleteReturns(t) /\ ~DeleteRaises(t)
<1>1. task[t].op # "delete" /\ ShapeOf(task[t])
  BY DEF SafeInv, TaskSafe, TypeInv, TaskShape
<1> QED BY <1>1 DEF ShapeOf, Delete, WorkerLoad, DeleteLoaded, WorkerDelete, DeleteReturns,
                    DeleteRaises

LEMMA NextSafe ==
    SessionAssumption /\ "delete" \notin Ops /\ SafeInv /\ [Next]_vars => SafeInv'
<1> SUFFICES ASSUME SessionAssumption, "delete" \notin Ops, SafeInv, [Next]_vars
             PROVE  SafeInv'
  OBVIOUS
<1>1. TypeInv /\ TypeInv'
  BY NextType DEF SafeInv
<1>2. ASSUME NEW t \in Tasks, HostStep(t)
      PROVE  SafeInv'
  <2>1. PICK h \in Handles :
           \/ Persist(t, h) \/ Enqueue(t, h) \/ ClearPending(t, h)
           \/ SetMetadata(t, h) \/ StartRun(t, h) \/ Delete(t, h)
    BY <1>2 DEF HostStep
  <2> QED BY <1>1, <2>1, PersistSafe, EnqueueMutates, ClearMutates, MetadataMutates,
             MutationSafe, QuietSafe, NoDeleteStep
<1>3. ASSUME NEW t \in Tasks, RunStep(t)
      PROVE  SafeInv'
  BY <1>1, <1>3, InitialMutates, TurnMutates, MutationSafe, QuietSafe DEF RunStep
<1>4. ASSUME NEW t \in Tasks, WorkerStep(t) \/ Resume(t) \/ Cancel(t)
      PROVE  SafeInv'
  BY <1>1, <1>4, WorkerSaveSafe, GrantSafe, SaveReturnsSafe, QuietSafe, CancelSafe,
     NoDeleteStep DEF WorkerStep, Resume
<1>5. ASSUME NEW h \in Handles, Crash(h) \/ New(h) \/ Open(h)
      PROVE  SafeInv'
  BY <1>1, <1>5, CrashSafe, NewOpenSafe
<1>6. ASSUME NEW r \in orphans, WorkerOrphan(r)
      PROVE  SafeInv'
  BY <1>1, <1>6, OrphanSafeStep
<1>7. ASSUME Quiescent \/ UNCHANGED vars \/ \E h \in Handles : Close(h)
      PROVE  SafeInv'
  BY <1>1, <1>7, StutterSafe
<1> QED BY <1>2, <1>3, <1>4, <1>5, <1>6, <1>7 DEF Next

LEMMA SafeAlways ==
    ASSUME "delete" \notin Ops
    PROVE  Spec => []SafeInv
BY InitSafe, NextSafe, SessionAssumption, PTL DEF Spec

\* Every input whose receipt steer or follow_up returned stays in the durable record
\* until a clear_pending takes it out, whatever the number of handles and callers and
\* however saves fail, callers are cancelled and processes die (_persist_latest).
THEOREM AckedDurable ==
    ASSUME "delete" \notin Ops
    PROVE  Spec => []AckedInputsDurable
<1>1. SafeInv => AckedInputsDurable
  BY DEF SafeInv, AckedInputsDurable
<1> QED BY <1>1, SafeAlways, PTL

\* Only an accepted save changes the record.
LEMMA RecordChanges ==
    ASSUME SafeInv, "delete" \notin Ops, [Next]_vars
    PROVE  \/ record' = record
           \/ /\ record.revision < record'.revision
              /\ Descends(record, record', cleared)
<1>1. ASSUME NEW t \in Tasks, WorkerSave(t)
      PROVE  \/ record' = record
             \/ /\ record.revision < record'.revision
                /\ Descends(record, record', cleared)
  <2>1. TypeInv /\ TaskSafe(task[t]) /\ task[t].pc = "saving"
    BY <1>1 DEF SafeInv, WorkerSave
  <2>2. RequestSafe(task[t]) /\ task[t].snap.revision \in Int
    BY <2>1, SafeTypes DEF TaskSafe
  <2>3. record' = record \/ SaveAccepted(task[t].snap, task[t].expected)
    BY <1>1 DEF WorkerSave, SaveRefused
  <2> QED BY <2>2, <2>3, AcceptGrows
<1>2. ASSUME NEW r \in orphans, WorkerOrphan(r)
      PROVE  \/ record' = record
             \/ /\ record.revision < record'.revision
                /\ Descends(record, record', cleared)
  <2>1. RequestSafe(r) /\ r.snap.revision \in Int /\ r.pc = "saving"
    BY SafeTypes DEF SafeInv, OrphanSafe
  <2>2. record' = record \/ SaveAccepted(r.snap, r.expected)
    BY <1>2, <2>1 DEF WorkerOrphan, SaveRefused
  <2> QED BY <2>1, <2>2, AcceptGrows
<1>3. ASSUME NEW t \in Tasks, NEW h \in Handles,
             \/ Persist(t, h) \/ Enqueue(t, h) \/ ClearPending(t, h)
             \/ SetMetadata(t, h) \/ StartRun(t, h)
      PROVE  record' = record
  BY <1>3 DEF Persist, Enqueue, ClearPending, SetMetadata, StartRun, MutateAndPersist
<1>4. ASSUME NEW t \in Tasks, RunStep(t) \/ Grant(t) \/ SaveReturns(t) \/ SaveRaises(t) \/ Cancel(t)
      PROVE  record' = record
  BY <1>4 DEF RunStep, CommitInitial, ConsumePending, CommitFacts, CommitCompaction, ReleaseRun,
              MutateAndPersist, Grant, SaveReturns, SaveRaises, Cancel
<1>5. ASSUME NEW h \in Handles, Close(h) \/ Crash(h) \/ New(h) \/ Open(h)
      PROVE  record' = record
  BY <1>5 DEF Close, Crash, New, Open
<1>6. CASE Quiescent \/ UNCHANGED vars
  BY <1>6 DEF Quiescent, vars
<1> QED BY <1>1, <1>2, <1>3, <1>4, <1>5, <1>6, NoDeleteStep
        DEF Next, HostStep, WorkerStep, Resume

\* No save ever loses what an earlier one made durable: between any two handles the
\* compare-and-swap of the repository excludes lost updates (_check_cas).
THEOREM HistoryGrows ==
    ASSUME "delete" \notin Ops
    PROVE  Spec => StoredHistoryGrows
<1>1. SafeInv /\ [Next]_vars =>
        [record # Absent /\ record' # Absent /\ record' # record =>
          /\ record'.revision > record.revision
          /\ Ids(record) \subseteq Ids(record') \cup cleared
          /\ IsPrefix(record.messages, record'.messages)]_vars
  <2> SUFFICES ASSUME SafeInv, [Next]_vars, record' # record
               PROVE  /\ record'.revision > record.revision
                      /\ Ids(record) \subseteq Ids(record') \cup cleared
                      /\ IsPrefix(record.messages, record'.messages)
    OBVIOUS
  <2>1. record.revision < record'.revision /\ Descends(record, record', cleared)
    BY RecordChanges
  <2>2. record.revision \in Int /\ record'.revision \in Int
    BY NextType, SessionAssumption, SafeTypes, SnapshotParts DEF SafeInv, TypeInv, TypeOK, Types
  <2> QED BY <2>1, <2>2 DEF Descends
<1> QED BY <1>1, SafeAlways, PTL DEF Spec, StoredHistoryGrows

\* A mutating call never returns normally before the record has its mutation: the save
\* it resumes from, or the one that overtook it in the lock's queue, was accepted at its
\* revision or a later one, and no other handle can set the record back
\* (_persist_required, _persist_latest).
THEOREM ReturnsAreDurable ==
    ASSUME "delete" \notin Ops
    PROVE  Spec => ReturnMeansDurable
<1>1. ASSUME SafeInv, NEW t \in Tasks, SaveReturns(t)
      PROVE  record.revision >= task[t].need
  <2>1. task[t].pc = "saved"
    BY <1>1 DEF SaveReturns
  <2>2. WriteSafe(task[t]) /\ WrittenSafe(task[t])
    BY <1>1, <2>1, SafeBusy DEF TaskSafe
  <2>3. record.revision \in Int /\ task[t].need \in Int /\ task[t].snap.revision \in Int
    BY <1>1, SafeTypes DEF SafeInv
  <2> QED BY <2>2, <2>3 DEF WriteSafe, WrittenSafe
<1>2. ASSUME SafeInv, NEW t \in Tasks, Grant(t), task'[t].pc # "saving"
      PROVE  record.revision >= task[t].need
  <2> DEFINE c == task[t]
  <2>1. c.pc = "waiting" /\ c \in TaskState /\ task \in [Tasks -> TaskState]
    BY <1>2, SafeTypes DEF Grant, SafeInv, TypeInv, TypeOK, Types
  <2>2. HandleSafe(c.h) /\ Live(c.h) /\ c.h \in Handles
    BY <1>2, <2>1, SafeBusy
  <2>3. /\ record.revision \in Int /\ c.need \in Int /\ durable[c.h] \in Int
    BY <1>2, <2>2, SafeTypes DEF SafeInv
  <2>4. Save(c, mem[c.h]).pc = "saving"
    BY <2>1 DEF Save, TaskState
  <2>5. task' = [task EXCEPT ![t] = Save(c, mem[c.h])] => task'[t] = Save(c, mem[c.h])
    BY <2>1
  <2>6. durable[c.h] >= c.need
    BY <1>2, <2>4, <2>5 DEF Grant
  <2> QED BY <2>2, <2>3, <2>6 DEF HandleSafe
<1>3. SafeInv /\ [Next]_vars =>
        [\A t \in Tasks :
          SaveReturns(t) \/ (Grant(t) /\ task'[t].pc # "saving")
              => \/ record.revision >= task[t].need
                 \/ status[task[t].h] = "closed"]_vars
  BY <1>1, <1>2
<1> QED BY <1>3, SafeAlways, PTL DEF Spec, ReturnMeansDurable

-----------------------------------------------------------------------------
\* The order of acceptance: the states a handle goes through.

\* The parts of a snapshot that the proofs below reason about.
LEMMA SnapshotElements ==
    ASSUME NEW s \in Snapshot
    PROVE  /\ s.messages \in Seq(Nat) /\ Len(s.messages) \in Nat
           /\ DOMAIN s.messages = 1..Len(s.messages)
           /\ \A i \in 1..Len(s.messages) : s.messages[i] \in Nat
           /\ s.pending \in Seq(PendingItem) /\ Len(s.pending) \in Nat
           /\ DOMAIN s.pending = 1..Len(s.pending)
           /\ \A i \in 1..Len(s.pending) :
                 s.pending[i].id \in Nat /\ s.pending[i].sequence \in Nat
           /\ s.sequence \in Nat
<1>1. s.messages \in Seq(Nat) /\ s.pending \in Seq(PendingItem) /\ s.sequence \in Nat
  BY DEF Snapshot
<1>2. \A x \in PendingItem : x.id \in Nat /\ x.sequence \in Nat
  BY DEF PendingItem
<1>3. \A i \in 1..Len(s.pending) : s.pending[i] \in PendingItem
  BY <1>1, ElementOfSeq
<1>4. \A i \in 1..Len(s.messages) : s.messages[i] \in Nat
  BY <1>1, ElementOfSeq
<1> QED BY <1>1, <1>2, <1>3, <1>4, LenProperties

LEMMA OrderedLater ==
    ASSUME NEW s \in Snapshot, NEW next \in Nat, NEW later \in Nat, next <= later,
           Ordered(s, next)
    PROVE  Ordered(s, later)
<1>1. /\ \A i \in DOMAIN s.messages : s.messages[i] \in Nat
      /\ \A i \in DOMAIN s.pending : s.pending[i].id \in Nat
  BY SnapshotElements
<1> QED BY <1>1 DEF Ordered

\* An ordered state reads in order from the transcript on into the queue.
LEMMA OrderedReads ==
    ASSUME NEW s \in Snapshot, NEW next, Ordered(s, next)
    PROVE  InOrder(s.messages \o PendingMessages(s.pending))
<1> DEFINE m == s.messages
           p == s.pending
           q == PendingMessages(p)
           all == m \o q
<1>1. /\ m \in Seq(Nat) /\ Len(m) \in Nat /\ DOMAIN m = 1..Len(m)
      /\ \A i \in 1..Len(m) : m[i] \in Nat
      /\ p \in Seq(PendingItem) /\ Len(p) \in Nat /\ DOMAIN p = 1..Len(p)
      /\ \A i \in 1..Len(p) : p[i].id \in Nat
  BY SnapshotElements
<1>2. /\ q \in Seq(Nat) /\ Len(q) = Len(p) /\ \A i \in 1..Len(p) : q[i] = p[i].id
  <2>1. q = [i \in 1..Len(p) |-> p[i].id]
    BY <1>1 DEF PendingMessages
  <2>2. q \in [1..Len(p) -> Nat]
    BY <2>1, <1>1
  <2> QED BY <2>1, <2>2, <1>1, SeqDef
<1>3. /\ InOrder(m)
      /\ \A i \in 1..Len(p) : \A k \in 1..Len(m) : m[k] < p[i].id
      /\ \A i, j \in 1..Len(p) : i < j => p[i].id < p[j].id
  BY <1>1 DEF Ordered
<1> HIDE DEF q
<1>4. /\ all \in Seq(Nat) /\ Len(all) = Len(m) + Len(p)
      /\ \A i \in 1..(Len(m) + Len(p)) :
            all[i] = IF i <= Len(m) THEN m[i] ELSE p[i - Len(m)].id
  <2>1. /\ all \in Seq(Nat) /\ Len(all) = Len(m) + Len(q)
        /\ \A i \in 1..(Len(m) + Len(q)) :
              all[i] = IF i <= Len(m) THEN m[i] ELSE q[i - Len(m)]
    BY ZenonT(40), <1>1, <1>2, ConcatProperties
  <2>2. ASSUME NEW i \in 1..(Len(m) + Len(p)), ~(i <= Len(m))
        PROVE  all[i] = p[i - Len(m)].id
    <3>1. i - Len(m) \in 1..Len(p)
      <4> HIDE DEF m, p
      <4> QED BY <2>2, <1>1
    <3> QED BY <2>1, <2>2, <3>1, <1>2
  <2> QED BY <2>1, <2>2, <1>2
<1> HIDE DEF all, m, p
<1>5. DOMAIN all = 1..(Len(m) + Len(p))
  BY <1>4, LenProperties
<1>6. ASSUME NEW i \in 1..(Len(m) + Len(p)), NEW j \in 1..(Len(m) + Len(p)),
             i < j, all[i] # Reply, all[j] # Reply
      PROVE  all[i] < all[j]
  <2>1. CASE j <= Len(m)
    <3>1. i \in DOMAIN m /\ j \in DOMAIN m /\ all[i] = m[i] /\ all[j] = m[j]
      BY <2>1, <1>1, <1>4, <1>6
    <3> QED BY <3>1, <1>3, <1>6 DEF InOrder
  <2>2. CASE i <= Len(m) /\ ~(j <= Len(m))
    <3>1. i \in 1..Len(m) /\ j - Len(m) \in 1..Len(p)
      BY <2>2, <1>1
    <3>2. all[i] = m[i] /\ all[j] = p[j - Len(m)].id
      BY <2>2, <1>4
    <3> QED BY <3>1, <3>2, <1>3
  <2>3. CASE ~(i <= Len(m))
    <3>1. /\ i - Len(m) \in 1..Len(p) /\ j - Len(m) \in 1..Len(p)
          /\ i - Len(m) < j - Len(m) /\ ~(j <= Len(m))
      BY <2>3, <1>1, <1>6
    <3>2. all[i] = p[i - Len(m)].id /\ all[j] = p[j - Len(m)].id
      BY <2>3, <3>1, <1>4
    <3> QED BY <3>1, <3>2, <1>3
  <2> QED BY <2>1, <2>2, <2>3, <1>1
<1>7. InOrder(all)
  BY <1>5, <1>6 DEF InOrder
<1> QED BY <1>7 DEF all, q, m, p

\* Accepting a further input keeps the order.
LEMMA QueuedOrder ==
    ASSUME NEW s \in Snapshot, NEW id \in Nat \ {0}, Ordered(s, id)
    PROVE  Ordered(Queued(s, id), id + 1)
<1> DEFINE item == [id |-> id, sequence |-> s.sequence + 1]
           m == s.messages
           p == s.pending
           q == Append(p, item)
<1>1. /\ Len(m) \in Nat /\ DOMAIN m = 1..Len(m) /\ \A i \in 1..Len(m) : m[i] \in Nat
      /\ p \in Seq(PendingItem) /\ Len(p) \in Nat /\ DOMAIN p = 1..Len(p)
      /\ \A i \in 1..Len(p) : p[i].id \in Nat /\ p[i].sequence \in Nat
      /\ s.sequence \in Nat
  BY SnapshotElements
<1>2. item \in PendingItem /\ item.id = id /\ item.sequence = s.sequence + 1
  BY <1>1 DEF PendingItem
<1> HIDE DEF item
<1>3. /\ q \in Seq(PendingItem) /\ Len(q) = Len(p) + 1
      /\ \A i \in 1..Len(p) : q[i] = p[i]
      /\ q[Len(p) + 1] = item
  BY <1>1, <1>2, AppendProperties
<1>4. /\ Queued(s, id).messages = m /\ Queued(s, id).sequence = s.sequence + 1
      /\ Queued(s, id).pending = q
  BY DEF Queued, item
<1>5. /\ InOrder(m) /\ \A i \in 1..Len(m) : m[i] < id
      /\ \A i \in 1..Len(p) :
            /\ 0 < p[i].id /\ p[i].id < id /\ p[i].sequence <= s.sequence
            /\ \A k \in 1..Len(m) : m[k] < p[i].id
      /\ \A i, j \in 1..Len(p) : i < j => p[i].id < p[j].id
  BY <1>1 DEF Ordered
<1>6. DOMAIN q = 1..(Len(p) + 1)
  BY <1>3, LenProperties
<1> HIDE DEF q, m, p
<1>7. ASSUME NEW i \in 1..(Len(p) + 1)
      PROVE  /\ 0 < q[i].id /\ q[i].id < id + 1 /\ q[i].sequence <= s.sequence + 1
             /\ \A k \in 1..Len(m) : m[k] < q[i].id
  <2>1. CASE i \in 1..Len(p)
    BY <2>1, <1>1, <1>3, <1>5
  <2>2. CASE i = Len(p) + 1
    BY <2>2, <1>1, <1>2, <1>3, <1>5
  <2> QED BY <2>1, <2>2, <1>1
<1>8. ASSUME NEW i \in 1..(Len(p) + 1), NEW j \in 1..(Len(p) + 1), i < j
      PROVE  q[i].id < q[j].id
  <2>1. i \in 1..Len(p) /\ q[i] = p[i]
    BY <1>1, <1>3, <1>8
  <2>2. CASE j \in 1..Len(p)
    BY <2>1, <2>2, <1>3, <1>5, <1>8
  <2>3. CASE j = Len(p) + 1
    BY <2>1, <2>3, <1>2, <1>3, <1>5
  <2> QED BY <2>2, <2>3, <1>1
<1>9. \A i \in 1..Len(m) : m[i] < id + 1
  BY <1>1, <1>5
<1> QED BY <1>1, <1>4, <1>5, <1>6, <1>7, <1>8, <1>9 DEF Ordered

\* So do emptying the queue and a change that leaves both alone.
LEMMA EmptiedOrder ==
    ASSUME NEW s \in Snapshot, NEW next, Ordered(s, next)
    PROVE  Ordered(Emptied(s), next) /\ Ordered(Touched(s), next)
<1>1. /\ Emptied(s).messages = s.messages /\ Emptied(s).pending = <<>>
      /\ Touched(s).messages = s.messages /\ Touched(s).pending = s.pending
      /\ Touched(s).sequence = s.sequence
  BY DEF Emptied, Touched
<1>2. DOMAIN <<>> = {}
  OBVIOUS
<1> QED BY <1>1, <1>2 DEF Ordered

\* A block of facts may go behind the first n inputs of the queue when it is empty, a
\* reply, or a message accepted after those inputs and before the rest.
Fits(s, n, facts, next) ==
    \/ facts = <<>>
    \/ facts = <<Reply>>
    \/ \E id \in 1..(next - 1) :
          /\ facts = <<id>>
          /\ \A i \in DOMAIN s.messages : s.messages[i] < id
          /\ \A i \in DOMAIN s.pending :
                IF i <= n THEN s.pending[i].id < id ELSE id < s.pending[i].id

LEMMA LastPlace ==
    ASSUME NEW a \in Nat, NEW n \in Nat, NEW b \in 0..1, NEW i \in 1..((a + n) + b), ~(i <= a + n)
    PROVE  i = (a + n) + 1 /\ b = 1
  OBVIOUS

LEMMA CommittedOrder ==
    ASSUME NEW s \in Snapshot, NEW next \in Nat \ {0}, Ordered(s, next),
           NEW n \in 0..Len(s.pending), NEW facts \in Seq(Nat), Fits(s, n, facts, next)
    PROVE  Ordered(Committed(s, n, facts), next)
<1> DEFINE m == s.messages
           p == s.pending
           new == m \o PendingMessages(SubSeq(p, 1, n)) \o facts
           rest == SubSeq(p, n + 1, Len(p))
<1>1. /\ m \in Seq(Nat) /\ Len(m) \in Nat /\ DOMAIN m = 1..Len(m)
      /\ \A i \in 1..Len(m) : m[i] \in Nat
      /\ p \in Seq(PendingItem) /\ Len(p) \in Nat /\ DOMAIN p = 1..Len(p)
      /\ \A i \in 1..Len(p) : p[i].id \in Nat /\ p[i].sequence \in Nat
      /\ n \in Nat /\ n <= Len(p) /\ Len(facts) \in Nat
  <2>1. /\ m \in Seq(Nat) /\ Len(m) \in Nat /\ DOMAIN m = 1..Len(m)
        /\ \A i \in 1..Len(m) : m[i] \in Nat
        /\ p \in Seq(PendingItem) /\ Len(p) \in Nat /\ DOMAIN p = 1..Len(p)
        /\ \A i \in 1..Len(p) : p[i].id \in Nat /\ p[i].sequence \in Nat
    BY SnapshotElements
  <2>2. n \in Nat /\ n <= Len(p) /\ Len(facts) \in Nat
    BY <2>1, LenProperties
  <2> QED BY <2>1, <2>2
<1>2. Spliced(m, p, n, facts, new, rest)
  BY <1>1, SpliceParts
<1>3. /\ Committed(s, n, facts).messages = new /\ Committed(s, n, facts).pending = rest
      /\ Committed(s, n, facts).sequence = s.sequence
  BY DEF Committed
<1>4. /\ InOrder(m) /\ \A i \in 1..Len(m) : m[i] < next
      /\ \A i \in 1..Len(p) :
            /\ 0 < p[i].id /\ p[i].id < next /\ p[i].sequence <= s.sequence
            /\ \A k \in 1..Len(m) : m[k] < p[i].id
      /\ \A i, j \in 1..Len(p) : i < j => p[i].id < p[j].id
  BY <1>1 DEF Ordered
<1> DEFINE Fact(x) ==
             /\ \A i \in 1..Len(facts) : i = 1 /\ facts[i] = x
             /\ Len(facts) \in 0..1
             /\ x < next
             /\ Len(facts) = 1 /\ x # Reply =>
                   /\ \A i \in 1..Len(m) : m[i] < x
                   /\ \A i \in 1..Len(p) : IF i <= n THEN p[i].id < x ELSE x < p[i].id
<1>5. PICK x \in Nat : Fact(x)
  <2>1. CASE facts = <<>>
    <3>1. Len(facts) = 0
      BY <2>1
    <3>2. Fact(0)
      BY <3>1
    <3> QED BY <3>2
  <2>2. CASE facts = <<Reply>>
    <3>1. Len(facts) = 1 /\ facts[1] = Reply /\ Reply = 0
      BY <2>2 DEF Reply
    <3>2. Fact(0)
      BY <3>1
    <3> QED BY <3>2
  <2>3. CASE \E id \in 1..(next - 1) :
               /\ facts = <<id>>
               /\ \A i \in DOMAIN m : m[i] < id
               /\ \A i \in DOMAIN p : IF i <= n THEN p[i].id < id ELSE id < p[i].id
    <3>1. PICK id \in 1..(next - 1) :
               /\ facts = <<id>>
               /\ \A i \in DOMAIN m : m[i] < id
               /\ \A i \in DOMAIN p : IF i <= n THEN p[i].id < id ELSE id < p[i].id
      BY <2>3
    <3>2. Len(facts) = 1 /\ facts[1] = id /\ id \in Nat /\ id < next
      BY <3>1
    <3>3. \A i \in 1..Len(facts) : i = 1 /\ facts[i] = id
      BY <3>2
    <3>4. /\ \A i \in 1..Len(m) : m[i] < id
          /\ \A i \in 1..Len(p) : IF i <= n THEN p[i].id < id ELSE id < p[i].id
      BY <3>1, <1>1
    <3>5. Len(facts) \in 0..1
      BY <3>2
    <3>6. Fact(id)
      BY <3>2, <3>3, <3>4, <3>5
    <3> HIDE DEF Fact
    <3> QED BY <3>2, <3>6
  <2> QED BY <2>1, <2>2, <2>3 DEF Fits
<1> HIDE DEF m, p, new, rest
<1>16. /\ Len(m) \in Nat /\ Len(p) \in Nat /\ n \in Nat /\ n <= Len(p) /\ Len(facts) \in Nat
  BY <1>1
<1>6. /\ new \in Seq(Nat) /\ Len(new) = (Len(m) + n) + Len(facts)
      /\ \A i \in 1..Len(m) : new[i] = m[i]
      /\ \A i \in 1..n : new[Len(m) + i] = p[i].id
      /\ \A i \in 1..Len(facts) : new[(Len(m) + n) + i] = x
      /\ rest \in Seq(PendingItem) /\ Len(rest) = Len(p) - n
      /\ \A i \in 1..(Len(p) - n) : rest[i] = p[n + i]
  BY <1>2, <1>5 DEF Spliced
<1>7. DOMAIN new = 1..((Len(m) + n) + Len(facts)) /\ DOMAIN rest = 1..(Len(p) - n)
  BY <1>6, LenProperties
\* Where a fact of the new transcript comes from.
<1>8. ASSUME NEW i \in 1..((Len(m) + n) + Len(facts))
      PROVE  \/ i \in 1..Len(m) /\ new[i] = m[i]
             \/ \E k \in 1..n : i = Len(m) + k /\ new[i] = p[k].id
             \/ i = (Len(m) + n) + 1 /\ Len(facts) = 1 /\ new[i] = x
  <2>1. CASE i <= Len(m)
    BY <2>1, <1>1, <1>6
  <2>2. CASE ~(i <= Len(m)) /\ i <= Len(m) + n
    <3>1. i - Len(m) \in 1..n /\ i = Len(m) + (i - Len(m))
      BY <2>2, <1>1
    <3> QED BY <3>1, <1>6
  <2>3. CASE ~(i <= Len(m) + n)
    <3>4. Len(facts) \in 0..1
      BY <1>5
    <3> HIDE DEF Fact
    <3>5. Len(m) \in Nat /\ n \in Nat
      BY <1>16
    <3>1. i = (Len(m) + n) + 1 /\ Len(facts) = 1
      BY <2>3, <3>4, <3>5, LastPlace
    <3>2. 1 \in 1..Len(facts)
      BY <3>1
    <3> QED BY <3>1, <3>2, <1>6
  <2> QED BY <2>1, <2>2, <2>3, <1>1
<1>9. ASSUME NEW i \in 1..((Len(m) + n) + Len(facts)),
             NEW j \in 1..((Len(m) + n) + Len(facts)),
             i < j, new[i] # Reply, new[j] # Reply
      PROVE  new[i] < new[j]
  <2>1. CASE j \in 1..Len(m) /\ new[j] = m[j]
    <3>1. i \in 1..Len(m)
      BY <2>1, <1>16, <1>9
    <3>2. new[i] = m[i]
      BY <3>1, <1>6
    <3> QED BY <2>1, <3>1, <3>2, <1>1, <1>4, <1>9 DEF InOrder
  <2>2. CASE \E k \in 1..n : j = Len(m) + k /\ new[j] = p[k].id
    <3>1. PICK k \in 1..n : j = Len(m) + k /\ new[j] = p[k].id
      BY <2>2
    <3>2. k \in 1..Len(p)
      BY <1>1
    <3>3. CASE i \in 1..Len(m) /\ new[i] = m[i]
      BY <3>1, <3>2, <3>3, <1>4
    <3>4. CASE \E l \in 1..n : i = Len(m) + l /\ new[i] = p[l].id
      <4>1. PICK l \in 1..n : i = Len(m) + l /\ new[i] = p[l].id
        BY <3>4
      <4>2. l \in 1..Len(p) /\ l < k
        BY <3>1, <4>1, <1>1, <1>9
      <4> QED BY <3>1, <3>2, <4>1, <4>2, <1>4
    <3>5. CASE i = (Len(m) + n) + 1
      BY <3>1, <3>5, <1>1, <1>9
    <3> QED BY <3>3, <3>4, <3>5, <1>8
  <2>3. CASE j = (Len(m) + n) + 1 /\ Len(facts) = 1 /\ new[j] = x
    <3>1. x # Reply
      BY <2>3, <1>9
    <3>2. CASE i \in 1..Len(m) /\ new[i] = m[i]
      BY <2>3, <3>1, <3>2, <1>5
    <3>3. CASE \E l \in 1..n : i = Len(m) + l /\ new[i] = p[l].id
      <4>1. PICK l \in 1..n : i = Len(m) + l /\ new[i] = p[l].id
        BY <3>3
      <4>2. l \in 1..Len(p) /\ l <= n
        BY <1>1
      <4> QED BY <2>3, <3>1, <4>1, <4>2, <1>5
    <3>4. CASE i = (Len(m) + n) + 1
      BY <2>3, <3>4, <1>1, <1>9
    <3> QED BY <3>2, <3>3, <3>4, <1>8
  <2> QED BY <2>1, <2>2, <2>3, <1>8
<1>10. InOrder(new)
  BY <1>7, <1>9 DEF InOrder
<1>11. \A i \in 1..n : p[i].id < next
  BY <1>1, <1>4
<1>12. \A i \in DOMAIN new : new[i] < next
  <2> TAKE i \in DOMAIN new
  <2> QED BY <1>4, <1>5, <1>7, <1>8, <1>11
<1>13. ASSUME NEW i \in 1..(Len(p) - n), NEW k \in 1..((Len(m) + n) + Len(facts))
       PROVE  new[k] < rest[i].id
  <2>1. n + i \in 1..Len(p) /\ n < n + i /\ ~(n + i <= n)
    BY <1>16
  <2>5. rest[i] = p[n + i]
    BY <1>6
  <2>2. CASE k \in 1..Len(m) /\ new[k] = m[k]
    BY <2>1, <2>2, <2>5, <1>4
  <2>3. CASE \E l \in 1..n : k = Len(m) + l /\ new[k] = p[l].id
    <3>1. PICK l \in 1..n : k = Len(m) + l /\ new[k] = p[l].id
      BY <2>3
    <3>2. l \in 1..Len(p) /\ l < n + i
      BY <2>1, <1>1
    <3> QED BY <2>1, <2>5, <3>1, <3>2, <1>4
  <2>4. CASE k = (Len(m) + n) + 1 /\ Len(facts) = 1 /\ new[k] = x
    <3>1. CASE x = Reply
      BY <2>1, <2>4, <2>5, <3>1, <1>4 DEF Reply
    <3>2. CASE x # Reply
      BY <2>1, <2>4, <2>5, <3>2, <1>5
    <3> QED BY <3>1, <3>2
  <2> QED BY <2>2, <2>3, <2>4, <1>8
<1>14. ASSUME NEW i \in 1..(Len(p) - n)
       PROVE  0 < rest[i].id /\ rest[i].id < next /\ rest[i].sequence <= s.sequence
  <2>1. n + i \in 1..Len(p) /\ rest[i] = p[n + i]
    BY <1>1, <1>6
  <2> QED BY <2>1, <1>4
<1>15. ASSUME NEW i \in 1..(Len(p) - n), NEW j \in 1..(Len(p) - n), i < j
       PROVE  rest[i].id < rest[j].id
  <2>1. /\ n + i \in 1..Len(p) /\ n + j \in 1..Len(p) /\ n + i < n + j
        /\ rest[i] = p[n + i] /\ rest[j] = p[n + j]
    BY <1>1, <1>6, <1>15
  <2> QED BY <2>1, <1>4
<1> QED BY <1>3, <1>7, <1>10, <1>12, <1>13, <1>14, <1>15 DEF Ordered

\* A state without inputs is ordered.
LEMMA EmptyOrdered ==
    ASSUME NEW next
    PROVE  Ordered(Absent, next) /\ Ordered(Fresh, next)
<1>1. DOMAIN <<>> = {}
  OBVIOUS
<1> QED BY <1>1 DEF Ordered, Absent, Fresh, InOrder

\* The other callers of a handle leave its transcript alone, and add to the queue only
\* inputs with later receipts.
Keeps(old, new, next) ==
    /\ new.messages = old.messages
    /\ old.sequence <= new.sequence
    /\ \A i \in DOMAIN new.pending :
          \/ \E j \in DOMAIN old.pending : new.pending[i] = old.pending[j]
          \/ old.sequence < new.pending[i].sequence /\ next <= new.pending[i].id

LEMMA HostsKeep ==
    ASSUME NEW s \in Snapshot, NEW id \in Nat
    PROVE  /\ Keeps(s, s, id) /\ Keeps(s, Touched(s), id)
           /\ Keeps(s, Emptied(s), id) /\ Keeps(s, Queued(s, id), id)
<1> DEFINE item == [id |-> id, sequence |-> s.sequence + 1]
           q == Append(s.pending, item)
<1>1. /\ s.sequence \in Nat /\ s.pending \in Seq(PendingItem) /\ Len(s.pending) \in Nat
      /\ DOMAIN s.pending = 1..Len(s.pending)
  BY SnapshotElements
<1>2. item \in PendingItem /\ item.id = id /\ item.sequence = s.sequence + 1
  BY <1>1 DEF PendingItem
<1> HIDE DEF item
<1>3. /\ DOMAIN q = 1..(Len(s.pending) + 1)
      /\ \A i \in 1..Len(s.pending) : q[i] = s.pending[i]
      /\ q[Len(s.pending) + 1] = item
  <2>1. /\ q \in Seq(PendingItem) /\ Len(q) = Len(s.pending) + 1
        /\ \A i \in 1..Len(s.pending) : q[i] = s.pending[i]
        /\ q[Len(s.pending) + 1] = item
    BY <1>1, <1>2, AppendProperties
  <2> QED BY <2>1, LenProperties
<1>4. /\ Queued(s, id).messages = s.messages /\ Queued(s, id).sequence = s.sequence + 1
      /\ Queued(s, id).pending = q
  BY DEF Queued, item
<1> HIDE DEF q
<1>5. Keeps(s, Queued(s, id), id)
  <2>1. ASSUME NEW i \in 1..(Len(s.pending) + 1)
        PROVE  \/ \E j \in 1..Len(s.pending) : q[i] = s.pending[j]
               \/ s.sequence < q[i].sequence /\ id <= q[i].id
    <3>1. CASE i \in 1..Len(s.pending)
      BY <3>1, <1>3
    <3>2. CASE i = Len(s.pending) + 1
      BY <3>2, <1>1, <1>2, <1>3
    <3> QED BY <3>1, <3>2, <1>1
  <2>2. s.sequence <= s.sequence + 1
    BY <1>1
  <2>3. \A i \in DOMAIN q :
           \/ \E j \in DOMAIN s.pending : q[i] = s.pending[j]
           \/ s.sequence < q[i].sequence /\ id <= q[i].id
    BY <2>1, <1>1, <1>3
  <2> QED BY <2>2, <2>3, <1>4 DEF Keeps
<1>6. DOMAIN <<>> = {}
  OBVIOUS
<1> QED BY <1>1, <1>5, <1>6 DEF Keeps, Touched, Emptied

LEMMA BoundaryKept ==
    ASSUME NEW c \in TaskState, NEW old \in Snapshot, NEW new \in Snapshot,
           NEW next \in Nat, NEW later \in Nat, next <= later,
           Boundary(c, old, next), Keeps(old, new, next)
    PROVE  Boundary(c, new, later)
<1>1. /\ c.through \in Nat /\ old.sequence \in Nat /\ new.sequence \in Nat
      /\ DOMAIN new.pending = 1..Len(new.pending)
      /\ \A i \in 1..Len(new.pending) :
            new.pending[i].id \in Nat /\ new.pending[i].sequence \in Nat
  BY SnapshotElements DEF TaskState
<1>2. c.through <= old.sequence /\ c.through <= new.sequence
  BY <1>1 DEF Boundary, Keeps
<1>3. ASSUME NEW id \in 1..(next - 1), c.own = <<id>>,
             \A i \in DOMAIN old.messages : old.messages[i] < id,
             \A i \in DOMAIN old.pending :
                   IF old.pending[i].sequence <= c.through
                   THEN old.pending[i].id < id ELSE id < old.pending[i].id
      PROVE  Boundary(c, new, later)
  <2>1. id \in 1..(later - 1) /\ \A i \in DOMAIN new.messages : new.messages[i] < id
    BY <1>3 DEF Keeps
  <2>2. ASSUME NEW i \in DOMAIN new.pending
        PROVE  IF new.pending[i].sequence <= c.through
               THEN new.pending[i].id < id ELSE id < new.pending[i].id
    <3>1. CASE \E j \in DOMAIN old.pending : new.pending[i] = old.pending[j]
      BY <3>1, <1>3
    <3>2. CASE old.sequence < new.pending[i].sequence /\ next <= new.pending[i].id
      BY <3>2, <1>1, <1>2
    <3> QED BY <3>1, <3>2 DEF Keeps
  <2> QED BY <1>2, <1>3, <2>1, <2>2 DEF Boundary
<1> QED BY <1>2, <1>3 DEF Boundary

\* Of two queued inputs the one behind has the higher id.
LEMMA OrderedPair ==
    ASSUME NEW s \in Snapshot, NEW next \in Nat, Ordered(s, next),
           NEW i \in DOMAIN s.pending, NEW j \in DOMAIN s.pending, i < j
    PROVE  s.pending[i].id < s.pending[j].id
BY DEF Ordered

\* The inputs within the boundary are the ones the Run's message goes behind.
LEMMA BoundaryFits ==
    ASSUME NEW c \in TaskState, NEW s \in Snapshot, NEW next \in Nat, Ordered(s, next),
           Boundary(c, s, next), NEW count \in 0..Len(s.pending),
           Within(s.pending, c.through, count)
    PROVE  Fits(s, count, c.own, next)
<1>1. /\ c.through \in Nat /\ Len(s.pending) \in Nat /\ DOMAIN s.pending = 1..Len(s.pending)
      /\ \A i \in 1..Len(s.pending) : s.pending[i].id \in Nat /\ s.pending[i].sequence \in Nat
  BY SnapshotElements DEF TaskState
<1>2. ASSUME NEW id \in 1..(next - 1), c.own = <<id>>,
             \A i \in DOMAIN s.messages : s.messages[i] < id,
             \A i \in DOMAIN s.pending :
                   IF s.pending[i].sequence <= c.through
                   THEN s.pending[i].id < id ELSE id < s.pending[i].id
      PROVE  Fits(s, count, c.own, next)
  <2>1. ASSUME NEW i \in 1..Len(s.pending)
        PROVE  IF i <= count THEN s.pending[i].id < id ELSE id < s.pending[i].id
    <3>1. CASE i <= count
      <4>1. i \in 1..count
        BY <3>1
      <4> QED BY <3>1, <4>1, <1>1, <1>2 DEF Within
    <3>2. CASE ~(i <= count)
      <4>1. count < Len(s.pending) /\ count + 1 \in 1..Len(s.pending) /\ count + 1 <= i
        BY <3>2, <1>1
      <4>2. id < s.pending[count + 1].id
        <5>1. ~(s.pending[count + 1].sequence <= c.through)
          BY <4>1, <1>1 DEF Within
        <5> QED BY <4>1, <5>1, <1>1, <1>2
      <4>3. count + 1 = i \/ s.pending[count + 1].id < s.pending[i].id
        <5>1. CASE count + 1 = i
          BY <5>1
        <5>2. CASE count + 1 < i
          BY <5>2, <4>1, <1>1, OrderedPair
        <5> QED BY <5>1, <5>2, <4>1
      <4> QED BY <3>2, <4>1, <4>2, <4>3, <1>1
    <3> QED BY <3>1, <3>2
  <2> QED BY <1>1, <1>2, <2>1 DEF Fits
<1> QED BY <1>2 DEF Boundary, Fits

-----------------------------------------------------------------------------
\* Every step keeps OrderInv.

LEMMA OrderTypes ==
    ASSUME OrderInv
    PROVE  /\ TypeInv /\ nextId \in Nat \ {0}
           /\ record \in Snapshot /\ Ordered(record, nextId)
           /\ \A h \in Handles : mem[h] \in Snapshot /\ Ordered(mem[h], nextId)
           /\ \A t \in Tasks : /\ task[t] \in TaskState /\ task[t].snap \in Snapshot
                               /\ Ordered(task[t].snap, nextId) /\ RunOrder(t)
                               /\ task[t].pc # "idle" => task[t].h \in Handles
           /\ \A r \in orphans : r.snap \in Snapshot /\ Ordered(r.snap, nextId)
BY SafeTypes DEF OrderInv, TypeInv, TypeOK, Types

\* The states of the new step are those of the old one, or are ordered.
LEMMA OrderStep ==
    ASSUME OrderInv, TypeInv', nextId <= nextId',
           Ordered(record', nextId'),
           \A h \in Handles : mem'[h] = mem[h] \/ Ordered(mem'[h], nextId'),
           \A t \in Tasks : task'[t].snap = task[t].snap \/ Ordered(task'[t].snap, nextId'),
           \A r \in orphans' : r \in orphans \/ Ordered(r.snap, nextId'),
           \A t \in Tasks : RunOrder(t)'
    PROVE  OrderInv'
<1>1. nextId \in Nat /\ nextId' \in Nat
  BY OrderTypes DEF TypeInv, TypeOK, Types
<1>2. \A s \in Snapshot : Ordered(s, nextId) => Ordered(s, nextId')
  BY <1>1, OrderedLater
<1>3. \A h \in Handles : Ordered(mem'[h], nextId')
  BY <1>2, OrderTypes
<1>4. \A t \in Tasks : Ordered(task'[t].snap, nextId')
  BY <1>2, OrderTypes
<1>5. \A r \in orphans' : Ordered(r.snap, nextId')
  BY <1>2, OrderTypes
<1> QED BY <1>3, <1>4, <1>5 DEF OrderInv

\* A Run that takes no step keeps its place, whatever the hosts do to its handle.
LEMMA RunKept ==
    ASSUME OrderInv, TypeInv', NEW u \in Tasks, task'[u] = task[u], nextId <= nextId',
           task[u].op = "run" =>
              /\ run'[task[u].h] = run[task[u].h] /\ Live(task[u].h)'
              /\ task[u].pc = "initial" => Keeps(mem[task[u].h], mem'[task[u].h], nextId)
    PROVE  RunOrder(u)'
<1> SUFFICES ASSUME task[u].op = "run"
             PROVE  RunOrder(u)'
  BY DEF RunOrder
<1>1. /\ RunOrder(u) /\ task[u] \in TaskState /\ nextId \in Nat /\ nextId' \in Nat
  BY OrderTypes DEF TypeInv, TypeOK, Types
<1>2. ASSUME task[u].pc = "initial"
      PROVE  Boundary(task[u], mem'[task[u].h], nextId')
  <2>1. /\ mem[task[u].h] \in Snapshot /\ mem'[task[u].h] \in Snapshot
    BY <1>2, OrderTypes DEF TypeInv, TypeOK, Types
  <2>2. Boundary(task[u], mem[task[u].h], nextId)
    BY <1>1, <1>2 DEF RunOrder
  <2> QED BY <1>1, <1>2, <2>1, <2>2, BoundaryKept
<1> QED BY <1>1, <1>2 DEF RunOrder, Live

\* A Run is on a handle of its own.
LEMMA RunOnHandle ==
    ASSUME OrderInv, NEW u \in Tasks, task[u].op = "run"
    PROVE  task[u].h \in Handles /\ Live(task[u].h) /\ run[task[u].h] = u
<1>1. RunOrder(u) /\ ShapeOf(task[u]) /\ (task[u].pc # "idle" => task[u].h \in Handles)
  BY OrderTypes DEF TypeInv, TaskShape
<1>2. task[u].pc # "idle"
  BY <1>1 DEF ShapeOf, IdleTask
<1> QED BY <1>1, <1>2 DEF RunOrder

\* One call goes on as d, past the initial commit of a Run, or ends.
LEMMA CallOrder ==
    ASSUME OrderInv, TypeInv', NEW t \in Tasks, NEW d, task' = [task EXCEPT ![t] = d],
           d.op = "run" => task[t].op = "run" /\ d.h = task[t].h /\ d.pc # "initial",
           Ordered(d.snap, nextId),
           nextId' = nextId, run' = run, mem' = mem, \A h \in Handles : Live(h) => Live(h)',
           Ordered(record', nextId),
           \A r \in orphans' : r \in orphans \/ Ordered(r.snap, nextId)
    PROVE  OrderInv'
<1>1. task \in [Tasks -> TaskState] /\ nextId \in Nat
  BY OrderTypes DEF TypeInv, TypeOK, Types
<1>2. \A u \in Tasks : task'[u] = IF u = t THEN d ELSE task[u]
  BY <1>1
<1>3. ASSUME NEW u \in Tasks, task[u].op = "run"
      PROVE  task[u].h \in Handles /\ status'[task[u].h] # "none"
  BY <1>3, RunOnHandle DEF Live
<1>4. ASSUME NEW u \in Tasks
      PROVE  RunOrder(u)'
  <2>1. CASE u = t
    BY <2>1, <1>2, <1>3, OrderTypes DEF RunOrder, Live
  <2>2. CASE u # t
    <3>1. task[u].op = "run" => Keeps(mem[task[u].h], mem[task[u].h], nextId)
      BY <1>1, <1>3, OrderTypes, HostsKeep
    <3> QED BY <2>2, <3>1, <1>1, <1>2, <1>3, RunKept DEF Live
  <2> QED BY <2>1, <2>2
<1> QED BY <1>1, <1>2, <1>4, OrderStep

\* A call mutates its handle to s: a host with care for the Run that owns it, or the Run.
LEMMA MutationOrder ==
    ASSUME SessionAssumption, OrderInv, TypeInv', NEW t \in Tasks, NEW c \in TaskState,
           NEW s \in Snapshot, MutateAndPersist(t, c, s), Mutator(t, c), run' = run,
           nextId <= nextId', Ordered(s, nextId'), Ordered(c.snap, nextId'),
           \/ c.op = "run" /\ c = task[t]
           \/ c.op # "run" /\ task[t].op # "run" /\ Keeps(mem[c.h], s, nextId)
    PROVE  OrderInv'
<1>1. /\ task \in [Tasks -> TaskState] /\ mem \in [Handles -> Snapshot] /\ nextId \in Nat
      /\ c.h \in Handles /\ task[t].pc \in {"idle", "initial", "turn"}
  BY OrderTypes DEF TypeInv, TypeOK, Types, Mutator
<1> DEFINE need == [c EXCEPT !.need = s.revision]
           fast == Save(need, s)
           slow == [need EXCEPT !.pc = "waiting"]
<1>2. /\ mem' = [mem EXCEPT ![c.h] = s]
      /\ task' = [task EXCEPT ![t] = fast] \/ task' = [task EXCEPT ![t] = slow]
      /\ UNCHANGED <<record, status, durable, orphans>>
  <2>1. need.h = c.h
    BY DEF TaskState
  <2> QED BY <2>1 DEF MutateAndPersist
<1>3. /\ fast.pc = "saving" /\ fast.op = c.op /\ fast.h = c.h /\ fast.snap = s
      /\ slow.pc = "waiting" /\ slow.op = c.op /\ slow.h = c.h /\ slow.snap = c.snap
  BY DEF Save, TaskState
<1> HIDE DEF need, fast, slow
<1>4. PICK d : /\ \A u \in Tasks : task'[u] = IF u = t THEN d ELSE task[u]
               /\ d.op = c.op /\ d.h = c.h /\ d.pc # "initial"
               /\ d.snap = s \/ d.snap = c.snap
  <2>1. \/ \A u \in Tasks : task'[u] = IF u = t THEN fast ELSE task[u]
        \/ \A u \in Tasks : task'[u] = IF u = t THEN slow ELSE task[u]
    BY <1>1, <1>2
  <2> QED BY <1>3, <2>1
<1>5. \A h \in Handles : mem'[h] = IF h = c.h THEN s ELSE mem[h]
  BY <1>1, <1>2
<1>6. ASSUME NEW u \in Tasks
      PROVE  RunOrder(u)'
  <2>2. CASE u = t
    <3>1. RunOrder(t)
      BY OrderTypes
    <3> QED BY <2>2, <3>1, <1>2, <1>4 DEF RunOrder, Live
  <2>3. CASE u # t
    <3> SUFFICES ASSUME task[u].op = "run"
                 PROVE  RunOrder(u)'
      BY <2>3, <1>4 DEF RunOrder
    <3>1. task[u].h \in Handles /\ Live(task[u].h) /\ run[task[u].h] = u
      BY RunOnHandle
    <3>2. Live(task[u].h)'
      BY <2>3, <3>1, <1>2, <1>4 DEF Live
    <3>3. task[u].h = c.h => c.op # "run"
      BY <2>3, <3>1, OrderTypes DEF RunOrder
    <3>4. Keeps(mem[task[u].h], mem'[task[u].h], nextId)
      BY <3>1, <3>3, <1>1, <1>5, HostsKeep
    <3> QED BY <2>3, <3>1, <3>2, <3>4, <1>4, RunKept
  <2> QED BY <2>2, <2>3
<1>7. nextId' \in Nat /\ Ordered(record', nextId')
  <2>1. nextId' \in Nat
    BY DEF TypeInv, TypeOK, Types
  <2> QED BY <2>1, <1>1, <1>2, OrderTypes, OrderedLater
<1> QED BY <1>2, <1>4, <1>5, <1>6, <1>7, OrderStep

\* The calls of the hosts that mutate a handle.
LEMMA HostsOrder ==
    ASSUME SessionAssumption, OrderInv, TypeInv', NEW t \in Tasks, NEW h \in Handles,
           Enqueue(t, h) \/ ClearPending(t, h) \/ SetMetadata(t, h)
    PROVE  OrderInv'
<1>1. /\ TypeInv /\ Idle(t) /\ run' = run /\ mem[h] \in Snapshot /\ Ordered(mem[h], nextId)
      /\ nextId \in Nat \ {0}
      /\ mem[h].pending \in Seq(PendingItem)
  BY OrderTypes, SnapshotElements DEF Enqueue, ClearPending, SetMetadata
<1>2. task[t].op # "run"
  BY <1>1 DEF TypeInv, TaskShape, ShapeOf, Idle, IdleTask
<1>3. \A op, ids : Call(op, h, ids).snap = Absent
  BY DEF Call, IdleTask
<1>4. \A c \in TaskState, s \in Snapshot, next \in Nat \ {0} :
        /\ MutateAndPersist(t, c, s) /\ Mutator(t, c) /\ c.op # "run" /\ c.snap = Absent
        /\ nextId' = next /\ nextId <= next /\ Ordered(s, next) /\ Keeps(mem[c.h], s, nextId)
        => OrderInv'
  <2> SUFFICES ASSUME NEW c \in TaskState, NEW s \in Snapshot, NEW next \in Nat \ {0},
                      MutateAndPersist(t, c, s), Mutator(t, c), c.op # "run", c.snap = Absent,
                      nextId' = next, nextId <= next, Ordered(s, next),
                      Keeps(mem[c.h], s, nextId)
               PROVE  OrderInv'
    OBVIOUS
  <2>1. Ordered(c.snap, nextId')
    BY EmptyOrdered
  <2> QED BY <1>1, <1>2, <2>1, MutationOrder
<1>5. CASE Enqueue(t, h)
  <2> DEFINE c == Call("steer", h, {nextId})
             s == Queued(mem[h], nextId)
  <2>1. MutateAndPersist(t, c, s) /\ nextId' = nextId + 1
    BY <1>5 DEF Enqueue
  <2>2. Mutator(t, c) /\ c.op = "steer" /\ c.h = h /\ c \in TaskState
    BY <1>1, CallMutates DEF Mutator
  <2>3. s \in Snapshot /\ Ordered(s, nextId + 1) /\ Keeps(mem[h], s, nextId)
    BY <1>1, QueuedState, QueuedOrder, HostsKeep DEF Successor
  <2>4. nextId + 1 \in Nat \ {0} /\ nextId <= nextId + 1
    BY <1>1
  <2>5. c.snap = Absent
    BY <1>3
  <2> HIDE DEF c, s
  <2> QED BY <1>4, <2>1, <2>2, <2>3, <2>4, <2>5
<1>6. CASE ClearPending(t, h)
  <2> DEFINE c == Call("clear", h, PendingIds(mem[h]))
             s == Emptied(mem[h])
  <2>1. MutateAndPersist(t, c, s) /\ nextId' = nextId
    BY <1>6 DEF ClearPending
  <2>2. PendingIds(mem[h]) \in SUBSET Nat
    BY <1>1, SnapshotElements DEF PendingIds
  <2>3. Mutator(t, c) /\ c.op = "clear" /\ c.h = h /\ c \in TaskState
    BY <1>1, <2>2, CallMutates DEF Mutator
  <2>4. s \in Snapshot /\ Ordered(s, nextId) /\ Keeps(mem[h], s, nextId)
    BY <1>1, EmptiedState, EmptiedOrder, HostsKeep DEF Successor
  <2>5. c.snap = Absent /\ nextId <= nextId
    BY <1>1, <1>3
  <2> HIDE DEF c, s
  <2> QED BY <1>1, <1>4, <2>1, <2>3, <2>4, <2>5
<1>7. CASE SetMetadata(t, h)
  <2> DEFINE c == Call("metadata", h, {})
             s == Touched(mem[h])
  <2>1. MutateAndPersist(t, c, s) /\ nextId' = nextId
    BY <1>7 DEF SetMetadata
  <2>2. Mutator(t, c) /\ c.op = "metadata" /\ c.h = h /\ c \in TaskState
    BY <1>1, CallMutates DEF Mutator
  <2>3. s \in Snapshot /\ Ordered(s, nextId) /\ Keeps(mem[h], s, nextId)
    BY <1>1, TouchedState, EmptiedOrder, HostsKeep DEF Successor
  <2>4. c.snap = Absent /\ nextId <= nextId
    BY <1>1, <1>3
  <2> HIDE DEF c, s
  <2> QED BY <1>1, <1>4, <2>1, <2>2, <2>3, <2>4
<1> QED BY <1>5, <1>6, <1>7

\* The commits of a Run.
LEMMA RunsOrder ==
    ASSUME SessionAssumption, OrderInv, TypeInv', NEW t \in Tasks,
           CommitInitial(t) \/ ConsumePending(t) \/ CommitFacts(t) \/ CommitCompaction(t)
    PROVE  OrderInv'
<1> DEFINE c == task[t]
           s == mem[c.h]
<1>1. /\ c.pc \in {"initial", "turn"} /\ TypeInv /\ run' = run /\ nextId' = nextId
      /\ c \in TaskState /\ c.h \in Handles /\ s \in Snapshot /\ Ordered(s, nextId)
      /\ Ordered(c.snap, nextId) /\ nextId \in Nat \ {0} /\ RunOrder(t)
  BY OrderTypes DEF CommitInitial, ConsumePending, CommitFacts, CommitCompaction
<1>2. Mutator(t, c) /\ c.op = "run"
  BY <1>1, RunMutates
<1>3. \A new \in Snapshot : MutateAndPersist(t, c, new) /\ Ordered(new, nextId) => OrderInv'
  BY <1>1, <1>2, MutationOrder
<1>4. Len(s.pending) \in 0..Len(s.pending) /\ 0 \in 0..Len(s.pending)
  BY <1>1, SnapshotElements
<1>5. ASSUME NEW n \in 0..Len(s.pending), NEW facts \in Seq(Nat), Fits(s, n, facts, nextId),
             MutateAndPersist(t, c, Committed(s, n, facts))
      PROVE  OrderInv'
  <2>1. Committed(s, n, facts) \in Snapshot
    BY <1>1, CommittedState DEF Successor
  <2>2. Ordered(Committed(s, n, facts), nextId)
    BY <1>1, <1>5, CommittedOrder
  <2> QED BY <1>3, <1>5, <2>1, <2>2
<1>6. CASE CommitInitial(t)
  <2>1. c.pc = "initial" /\ Boundary(c, s, nextId) /\ c.own \in Seq(Nat)
    BY <1>1, <1>2, <1>6 DEF CommitInitial, RunOrder, TaskState
  <2>2. PICK count \in 0..Len(s.pending) :
           /\ Within(s.pending, c.through, count)
           /\ \/ MutateAndPersist(t, c, Committed(s, count, c.own))
              \/ /\ task' = [task EXCEPT ![t].pc = "turn"]
                 /\ UNCHANGED <<record, status, mem, durable, holder, orphans>>
    BY <1>6 DEF CommitInitial
  <2>3. CASE MutateAndPersist(t, c, Committed(s, count, c.own))
    <3>1. Fits(s, count, c.own, nextId)
      BY <1>1, <2>1, <2>2, BoundaryFits
    <3> QED BY <2>1, <2>3, <3>1, <1>5
  <2>4. CASE /\ task' = [task EXCEPT ![t].pc = "turn"]
             /\ UNCHANGED <<record, status, mem, durable, holder, orphans>>
    <3> DEFINE d == [c EXCEPT !.pc = "turn"]
    <3>1. task' = [task EXCEPT ![t] = d]
      BY <2>4, <1>1 DEF TypeInv, TypeOK, Types
    <3>2. d.op = c.op /\ d.h = c.h /\ d.pc = "turn" /\ d.snap = c.snap
      BY <1>1 DEF TaskState
    <3> HIDE DEF d
    <3>3. d.op = "run" => task[t].op = "run" /\ d.h = task[t].h /\ d.pc # "initial"
      BY <3>2
    <3>4. Ordered(d.snap, nextId) /\ Ordered(record', nextId)
      BY <1>1, <2>4, <3>2, OrderTypes
    <3>5. mem' = mem /\ orphans' = orphans /\ \A h \in Handles : Live(h) => Live(h)'
      BY <2>4 DEF Live
    <3> QED BY <1>1, <3>1, <3>3, <3>4, <3>5, CallOrder
  <2> QED BY <2>2, <2>3, <2>4
<1>7. CASE ConsumePending(t)
  <2>1. MutateAndPersist(t, c, Committed(s, Len(s.pending), <<>>))
    BY <1>7 DEF ConsumePending
  <2>2. Fits(s, Len(s.pending), <<>>, nextId) /\ <<>> \in Seq(Nat)
    BY DEF Fits
  <2> HIDE DEF c, s
  <2> QED BY <1>4, <1>5, <2>1, <2>2
<1>8. CASE CommitFacts(t)
  <2>1. MutateAndPersist(t, c, Committed(s, 0, <<Reply>>))
    BY <1>8 DEF CommitFacts
  <2>2. Fits(s, 0, <<Reply>>, nextId) /\ <<Reply>> \in Seq(Nat)
    BY DEF Fits, Reply
  <2> HIDE DEF c, s
  <2> QED BY <1>4, <1>5, <2>1, <2>2
<1>9. CASE CommitCompaction(t)
  <2>1. MutateAndPersist(t, c, Touched(s))
    BY <1>9 DEF CommitCompaction
  <2>2. Touched(s) \in Snapshot
    BY <1>1, TouchedState DEF Successor
  <2>3. Ordered(Touched(s), nextId)
    BY <1>1, EmptiedOrder
  <2> QED BY <1>3, <2>1, <2>2, <2>3
<1> QED BY <1>6, <1>7, <1>8, <1>9

\* What a call leaves of itself when it returns or raises.
LEMMA EndedCall ==
    ASSUME NEW c \in TaskState
    PROVE  /\ Returned(c).snap \in {c.snap, Absent} /\ Raised(c).snap \in {c.snap, Absent}
           /\ Returned(c).op = "run" =>
                 c.op = "run" /\ Returned(c).h = c.h /\ Returned(c).pc # "initial"
           /\ Raised(c).op = "run" =>
                 c.op = "run" /\ Raised(c).h = c.h /\ Raised(c).pc # "initial"
           /\ IdleTask.op # "run" /\ IdleTask.snap = Absent
BY DEF Returned, Raised, IdleTask, TaskState

\* A save begins, is carried out, or ends.
LEMMA SavesOrder ==
    ASSUME OrderInv, TypeInv', NEW t \in Tasks,
           \/ \E h \in Handles : Persist(t, h)
           \/ Grant(t) \/ WorkerSave(t) \/ SaveReturns(t) \/ SaveRaises(t)
    PROVE  OrderInv'
<1> DEFINE c == task[t]
<1>1. /\ c \in TaskState /\ TypeInv /\ task \in [Tasks -> TaskState]
      /\ Ordered(c.snap, nextId) /\ Ordered(record, nextId) /\ Ordered(Absent, nextId)
      /\ \A h \in Handles : Ordered(mem[h], nextId)
      /\ c.pc # "idle" => c.h \in Handles
  BY OrderTypes, EmptyOrdered DEF TypeInv, TypeOK, Types
<1>2. ASSUME NEW d, task' = [task EXCEPT ![t] = d], Ordered(d.snap, nextId),
             d.op = "run" => c.op = "run" /\ d.h = c.h /\ d.pc # "initial",
             UNCHANGED <<run, mem, status, nextId, orphans>>, Ordered(record', nextId)
      PROVE  OrderInv'
  <2>1. \A h \in Handles : Live(h) => Live(h)'
    BY <1>2 DEF Live
  <2> QED BY <1>2, <2>1, CallOrder
<1>3. CASE \E h \in Handles : Persist(t, h)
  <2>1. PICK h \in Handles : Persist(t, h)
    BY <1>3
  <2> DEFINE b == [Call("persist", h, {}) EXCEPT !.need = mem[h].revision]
             slow == [b EXCEPT !.pc = "waiting"]
             fast == Save(b, mem[h])
  <2>2. /\ task' = [task EXCEPT ![t] = slow] \/ task' = [task EXCEPT ![t] = fast]
        /\ UNCHANGED <<run, mem, status, nextId, orphans, record>>
    BY <2>1 DEF Persist
  <2>3. /\ slow.op = "persist" /\ slow.snap = Absent
        /\ fast.op = "persist" /\ fast.snap = mem[h]
    BY DEF Call, IdleTask, Save
  <2> HIDE DEF b, slow, fast
  <2>4. CASE task' = [task EXCEPT ![t] = slow]
    BY <1>1, <1>2, <2>2, <2>3, <2>4
  <2>5. CASE task' = [task EXCEPT ![t] = fast]
    BY <1>1, <1>2, <2>2, <2>3, <2>5
  <2> QED BY <2>2, <2>4, <2>5
<1>4. CASE Grant(t)
  <2>1. /\ c.pc = "waiting" /\ UNCHANGED <<run, mem, status, nextId, orphans, record>>
        /\ \/ task' = [task EXCEPT ![t] = Returned(c)]
           \/ task' = [task EXCEPT ![t] = Save(c, mem[c.h])]
    BY <1>4 DEF Grant
  <2>2. CASE task' = [task EXCEPT ![t] = Returned(c)]
    BY ZenonT(40), <1>1, <1>2, <2>1, <2>2, EndedCall
  <2>3. CASE task' = [task EXCEPT ![t] = Save(c, mem[c.h])]
    <3> DEFINE d == Save(c, mem[c.h])
    <3>1. d.snap = mem[c.h] /\ d.op = c.op /\ d.h = c.h /\ d.pc # "initial"
      BY <1>1 DEF Save, TaskState
    <3>2. task' = [task EXCEPT ![t] = d]
      BY <2>3
    <3>3. Ordered(d.snap, nextId) /\ Ordered(record', nextId)
      BY <1>1, <2>1, <3>1
    <3> HIDE DEF d
    <3> QED BY <1>2, <2>1, <3>1, <3>2, <3>3
  <2> QED BY <2>1, <2>2, <2>3
<1>5. CASE WorkerSave(t)
  <2>1. /\ UNCHANGED <<run, mem, status, nextId, orphans>> /\ record' \in {record, c.snap}
        /\ \E pc \in {"saved", "refused", "failed"} :
              task' = [task EXCEPT ![t] = [c EXCEPT !.pc = pc]]
    BY <1>1, <1>5 DEF WorkerSave, handleVars, SaveAccepted, SaveRefused
  <2>2. PICK pc \in {"saved", "refused", "failed"} :
           task' = [task EXCEPT ![t] = [c EXCEPT !.pc = pc]]
    BY <2>1
  <2> DEFINE d == [c EXCEPT !.pc = pc]
  <2>3. d.snap = c.snap /\ d.op = c.op /\ d.h = c.h /\ d.pc # "initial"
    BY <1>1 DEF TaskState
  <2>4. task' = [task EXCEPT ![t] = d]
    BY <2>2
  <2>5. Ordered(d.snap, nextId) /\ Ordered(record', nextId)
    BY <1>1, <2>1, <2>3
  <2> HIDE DEF d
  <2> QED BY <1>2, <2>1, <2>3, <2>4, <2>5
<1>6. CASE SaveReturns(t) \/ SaveRaises(t)
  <2>1. /\ UNCHANGED <<run, mem, status, nextId, orphans, record>>
        /\ task' = [task EXCEPT ![t] = Returned(c)] \/ task' = [task EXCEPT ![t] = Raised(c)]
    BY <1>6 DEF SaveReturns, SaveRaises
  <2> QED BY <1>1, <1>2, <2>1, EndedCall
<1> QED BY <1>3, <1>4, <1>5, <1>6

\* The phases of a delete, and cancellation.
LEMMA DeletesOrder ==
    ASSUME OrderInv, TypeInv', NEW t \in Tasks,
           \/ \E h \in Handles : Delete(t, h)
           \/ WorkerLoad(t) \/ DeleteLoaded(t) \/ WorkerDelete(t)
           \/ DeleteReturns(t) \/ DeleteRaises(t) \/ Cancel(t)
    PROVE  OrderInv'
<1> DEFINE c == task[t]
<1>1. /\ c \in TaskState /\ ShapeOf(c) /\ task \in [Tasks -> TaskState]
      /\ status \in [Handles -> {"none", "open", "closed"}]
      /\ Ordered(c.snap, nextId) /\ Ordered(record, nextId) /\ Ordered(Absent, nextId)
      /\ c.pc # "idle" => c.h \in Handles
  BY OrderTypes, EmptyOrdered DEF TypeInv, TypeOK, Types, TaskShape
<1>2. UNCHANGED <<run, mem, nextId>>
  BY DEF Delete, WorkerLoad, DeleteLoaded, WorkerDelete, DeleteReturns, DeleteRaises, Cancel,
         handleVars
<1>3. \A h \in Handles : Live(h) => Live(h)'
  <2>1. status' = status \/ \E h \in Handles : status' = [status EXCEPT ![h] = "closed"]
    BY <1>1 DEF Delete, WorkerLoad, DeleteLoaded, WorkerDelete, DeleteReturns, DeleteRaises,
                Cancel, handleVars
  <2> QED BY <2>1, <1>1 DEF Live
<1>4. record' \in {record, Absent}
  BY DEF Delete, WorkerLoad, DeleteLoaded, WorkerDelete, DeleteReturns, DeleteRaises, Cancel,
         DeleteAccepted, DeleteRefused
<1>5. \A r \in orphans' : r \in orphans \/ Ordered(r.snap, nextId)
  <2>1. orphans' = orphans \/ orphans' = orphans \cup {Request(c)}
    BY DEF Delete, WorkerLoad, DeleteLoaded, WorkerDelete, DeleteReturns, DeleteRaises, Cancel
  <2>2. Request(c).snap = c.snap
    BY DEF Request, IdleTask
  <2> QED BY <2>1, <2>2, <1>1
<1>6. PICK d : /\ task' = [task EXCEPT ![t] = d]
               /\ d.op # "run" /\ d.snap \in {c.snap, Absent}
  <2>1. CASE \E h \in Handles : Delete(t, h)
    <3>1. PICK h \in Handles : Delete(t, h)
      BY <2>1
    <3> DEFINE b == Call("delete", h, {})
               d1 == [b EXCEPT !.pc = "loading"]
               d2 == [b EXCEPT !.pc = "deleting", !.expected = durable[h]]
    <3>2. task' = [task EXCEPT ![t] = d1] \/ task' = [task EXCEPT ![t] = d2]
      BY <3>1 DEF Delete
    <3>3. d1.op # "run" /\ d1.snap = Absent /\ d2.op # "run" /\ d2.snap = Absent
      BY DEF Call, IdleTask
    <3> HIDE DEF d1, d2
    <3> QED BY <3>2, <3>3
  <2>2. CASE WorkerLoad(t) \/ DeleteLoaded(t) \/ WorkerDelete(t) \/ DeleteReturns(t)
    <3>1. c.op = "delete"
      BY <2>2, <1>1 DEF WorkerLoad, DeleteLoaded, WorkerDelete, DeleteReturns, ShapeOf
    <3>2. \/ task' = [task EXCEPT ![t] = IdleTask]
          \/ \E pc \in Pcs : task' = [task EXCEPT ![t] = [c EXCEPT !.pc = pc]]
          \/ task' = [task EXCEPT ![t] = [c EXCEPT !.pc = "loaded", !.expected = record.revision]]
      BY <2>2, <1>1 DEF WorkerLoad, DeleteLoaded, WorkerDelete, DeleteReturns, Pcs
    <3>3. CASE task' = [task EXCEPT ![t] = IdleTask]
      BY <3>3, EndedCall, <1>1
    <3>4. CASE \E pc \in Pcs : task' = [task EXCEPT ![t] = [c EXCEPT !.pc = pc]]
      <4>1. PICK pc \in Pcs : task' = [task EXCEPT ![t] = [c EXCEPT !.pc = pc]]
        BY <3>4
      <4> DEFINE e == [c EXCEPT !.pc = pc]
      <4>2. e.op = c.op /\ e.snap = c.snap
        BY <1>1 DEF TaskState
      <4>3. task' = [task EXCEPT ![t] = e]
        BY <4>1
      <4> HIDE DEF e
      <4> QED BY <3>1, <4>2, <4>3
    <3>5. CASE task' = [task EXCEPT ![t] = [c EXCEPT !.pc = "loaded", !.expected = record.revision]]
      <4> DEFINE e == [c EXCEPT !.pc = "loaded", !.expected = record.revision]
      <4>1. e.op = c.op /\ e.snap = c.snap
        BY <1>1 DEF TaskState
      <4>2. task' = [task EXCEPT ![t] = e]
        BY <3>5
      <4> HIDE DEF e
      <4> QED BY <3>1, <4>1, <4>2
    <3> QED BY <3>2, <3>3, <3>4, <3>5
  <2>3. CASE DeleteRaises(t) \/ Cancel(t)
    <3>1. task' = [task EXCEPT ![t] = IdleTask]
      BY <2>3 DEF DeleteRaises, Cancel
    <3> QED BY <3>1, EndedCall, <1>1
  <2> QED BY <2>1, <2>2, <2>3
<1> HIDE DEF c
<1>7. Ordered(d.snap, nextId) /\ Ordered(record', nextId)
  BY <1>1, <1>4, <1>6
<1> QED BY <1>2, <1>3, <1>5, <1>6, <1>7, CallOrder

\* A Run begins: the boundary is behind every input the handle has.
LEMMA StartOrder ==
    ASSUME OrderInv, TypeInv', NEW t \in Tasks, NEW h \in Handles, StartRun(t, h)
    PROVE  OrderInv'
<1>1. /\ task \in [Tasks -> TaskState] /\ run \in [Handles -> Tasks \cup {NoTask}]
      /\ nextId \in Nat \ {0} /\ mem[h] \in Snapshot /\ Ordered(mem[h], nextId)
      /\ run[h] = NoTask /\ NoTask \notin Tasks /\ status[h] = "open"
  BY OrderTypes, SessionAssumption DEF StartRun, TypeInv, TypeOK, Types, SessionAssumption
<1>2. /\ run' = [run EXCEPT ![h] = t]
      /\ UNCHANGED <<record, status, mem, orphans>>
  BY DEF StartRun
<1>3. PICK own \in {<<>>, <<nextId>>} :
        /\ nextId' = nextId + Len(own)
        /\ task' = [task EXCEPT ![t] = [Call("run", h, {}) EXCEPT
                                           !.pc = "initial", !.own = own,
                                           !.through = mem[h].sequence]]
  BY DEF StartRun
<1> DEFINE d == [Call("run", h, {}) EXCEPT !.pc = "initial", !.own = own,
                                          !.through = mem[h].sequence]
<1>4. /\ d.op = "run" /\ d.h = h /\ d.own = own /\ d.through = mem[h].sequence
      /\ d.snap = Absent
  BY DEF Call, IdleTask
<1>5. \A u \in Tasks : task'[u] = IF u = t THEN d ELSE task[u]
  BY <1>1, <1>3
<1> HIDE DEF d
<1>6. \/ own = <<>> /\ nextId' = nextId
      \/ own = <<nextId>> /\ nextId' = nextId + 1
  <2>1. Len(<<>>) = 0 /\ Len(<<nextId>>) = 1
    OBVIOUS
  <2>2. CASE own = <<>>
    BY <2>1, <2>2, <1>1, <1>3
  <2>3. CASE own = <<nextId>>
    BY <2>1, <2>3, <1>1, <1>3
  <2> QED BY <2>2, <2>3
<1>7. nextId' \in Nat \ {0} /\ nextId <= nextId'
  BY <1>1, <1>6
<1>8. Boundary(d, mem[h], nextId')
  <2>1. /\ mem[h].sequence \in Nat
        /\ DOMAIN mem[h].pending = 1..Len(mem[h].pending)
        /\ \A i \in 1..Len(mem[h].pending) : mem[h].pending[i].sequence \in Nat
    BY <1>1, SnapshotElements
  <2>2. CASE own = <<>>
    BY <2>1, <2>2, <1>4 DEF Boundary
  <2>3. CASE own = <<nextId>> /\ nextId' = nextId + 1
    <3>1. nextId \in 1..(nextId' - 1)
      BY <2>3, <1>1
    <3>2. /\ \A i \in DOMAIN mem[h].messages : mem[h].messages[i] < nextId
          /\ \A i \in DOMAIN mem[h].pending :
                mem[h].pending[i].sequence <= mem[h].sequence /\ mem[h].pending[i].id < nextId
      BY <1>1 DEF Ordered
    <3> QED BY <2>1, <2>3, <3>1, <3>2, <1>4 DEF Boundary
  <2> QED BY <2>2, <2>3, <1>6
<1>9. ASSUME NEW u \in Tasks
      PROVE  RunOrder(u)'
  <2>1. CASE u = t
    BY <2>1, <1>1, <1>2, <1>4, <1>5, <1>8 DEF RunOrder, Live
  <2>2. CASE u # t
    <3>1. task[u].op = "run" =>
            /\ task[u].h \in Handles /\ Live(task[u].h) /\ task[u].h # h
      BY <1>1, RunOnHandle
    <3>2. task[u].op = "run" => Keeps(mem[task[u].h], mem'[task[u].h], nextId)
      BY <3>1, <1>1, <1>2, OrderTypes, HostsKeep
    <3>3. task[u].op = "run" => run'[task[u].h] = run[task[u].h] /\ Live(task[u].h)'
      BY <2>2, <3>1, <1>1, <1>2, <1>5 DEF Live
    <3> QED BY <2>2, <3>2, <3>3, <1>5, <1>7, RunKept
  <2> QED BY <2>1, <2>2
<1>10. Ordered(record', nextId') /\ Ordered(d.snap, nextId')
  BY <1>1, <1>2, <1>4, <1>7, OrderTypes, OrderedLater, EmptyOrdered
<1> QED BY <1>2, <1>5, <1>7, <1>9, <1>10, OrderStep

\* A Run ends, or a process dies: the Runs of other handles go on.
LEMMA LeaveOrder ==
    ASSUME OrderInv, TypeInv', NEW h \in Handles,
           \/ Crash(h)
           \/ \E t \in Tasks : ReleaseRun(t) /\ h = task[t].h
    PROVE  OrderInv'
<1>1. /\ task \in [Tasks -> TaskState] /\ run \in [Handles -> Tasks \cup {NoTask}]
      /\ mem \in [Handles -> Snapshot] /\ nextId \in Nat \ {0} /\ NoTask \notin Tasks
      /\ status \in [Handles -> {"none", "open", "closed"}]
  BY OrderTypes, SessionAssumption DEF TypeInv, TypeOK, Types, SessionAssumption
<1>2. /\ run' = [run EXCEPT ![h] = NoTask] /\ UNCHANGED <<record, nextId>> /\ orphans' \subseteq orphans
      /\ mem' = mem \/ mem' = [mem EXCEPT ![h] = Fresh]
      /\ status' = status \/ status' = [status EXCEPT ![h] = "none"]
  BY DEF Crash, ReleaseRun
<1>3. \A u \in Tasks : \/ task'[u] = IdleTask
                       \/ task'[u] = task[u] /\ (task[u].op = "run" => task[u].h # h)
  <2>1. CASE Crash(h)
    BY <2>1 DEF Crash
  <2>2. CASE \E t \in Tasks : ReleaseRun(t) /\ h = task[t].h
    <3>1. PICK t \in Tasks : ReleaseRun(t) /\ h = task[t].h
      BY <2>2
    <3>2. task' = [task EXCEPT ![t] = IdleTask] /\ task[t].op = "run"
      BY <3>1, OrderTypes DEF ReleaseRun, TypeInv, TaskShape, ShapeOf
    <3>3. \A u \in Tasks : task[u].op = "run" => run[task[u].h] = u
      BY RunOnHandle
    <3> QED BY <3>1, <3>2, <3>3, <1>1
  <2> QED BY <2>1, <2>2
<1>4. ASSUME NEW u \in Tasks
      PROVE  RunOrder(u)'
  <2>1. CASE task'[u] = IdleTask
    BY <2>1, IdleIsQuiet DEF RunOrder
  <2>2. CASE task'[u] = task[u] /\ (task[u].op = "run" => task[u].h # h)
    <3>1. task[u].op = "run" => task[u].h \in Handles /\ Live(task[u].h) /\ task[u].h # h
      BY <2>2, RunOnHandle
    <3>2. task[u].op = "run" => Keeps(mem[task[u].h], mem'[task[u].h], nextId)
      BY <3>1, <1>1, <1>2, HostsKeep
    <3>3. task[u].op = "run" => run'[task[u].h] = run[task[u].h] /\ Live(task[u].h)'
      BY <2>2, <3>1, <1>1, <1>2 DEF Live
    <3> QED BY <2>2, <3>2, <3>3, <1>1, <1>2, RunKept
  <2> QED BY <2>1, <2>2, <1>3
<1>5. \A k \in Handles : mem'[k] = mem[k] \/ Ordered(mem'[k], nextId')
  BY <1>1, <1>2, EmptyOrdered
<1>6. \A u \in Tasks : task'[u].snap = task[u].snap \/ Ordered(task'[u].snap, nextId')
  BY <1>3, EmptyOrdered DEF IdleTask
<1>7. Ordered(record', nextId') /\ nextId <= nextId'
  BY <1>1, <1>2, OrderTypes
<1> QED BY <1>2, <1>4, <1>5, <1>6, <1>7, OrderStep

\* Handles appear and are closed, the workers of cancelled calls finish, or nothing happens.
LEMMA OtherOrder ==
    ASSUME OrderInv, TypeInv',
           \/ \E h \in Handles : Close(h) \/ New(h) \/ Open(h)
           \/ \E r \in orphans : WorkerOrphan(r)
           \/ Quiescent \/ UNCHANGED vars
    PROVE  OrderInv'
<1>1. /\ nextId \in Nat /\ mem \in [Handles -> Snapshot]
      /\ status \in [Handles -> {"none", "open", "closed"}]
  BY OrderTypes DEF TypeInv, TypeOK, Types
<1>2. /\ UNCHANGED <<task, run, nextId>> /\ orphans' \subseteq orphans
  BY DEF Close, New, Open, WorkerOrphan, Quiescent, vars, handleVars
<1>3. \A h \in Handles : \/ mem'[h] = mem[h] /\ (Live(h) => Live(h)')
                         \/ mem'[h] = record /\ ~Live(h)
  <2>1. CASE \E h \in Handles : Close(h) \/ New(h)
    BY <2>1, <1>1 DEF Close, New, Live
  <2>2. CASE \E h \in Handles : Open(h)
    BY <2>2, <1>1 DEF Open, Live
  <2>3. CASE (\E r \in orphans : WorkerOrphan(r)) \/ Quiescent \/ UNCHANGED vars
    BY <2>3 DEF WorkerOrphan, Quiescent, vars, handleVars, Live
  <2> QED BY <2>1, <2>2, <2>3
<1>4. record' = record \/ record' = Absent \/ \E r \in orphans : record' = r.snap
  BY DEF Close, New, Open, WorkerOrphan, Quiescent, vars, SaveAccepted, SaveRefused,
         DeleteAccepted, DeleteRefused
<1>5. ASSUME NEW u \in Tasks
      PROVE  RunOrder(u)'
  <2>1. task[u].op = "run" => task[u].h \in Handles /\ Live(task[u].h)
    BY RunOnHandle
  <2>2. task[u].op = "run" => Keeps(mem[task[u].h], mem'[task[u].h], nextId) /\ Live(task[u].h)'
    BY <2>1, <1>1, <1>2, <1>3, HostsKeep DEF Live
  <2> QED BY <2>2, <1>1, <1>2, RunKept
<1>6. Ordered(record', nextId)
  BY <1>4, OrderTypes, EmptyOrdered
<1>7. \A h \in Handles : mem'[h] = mem[h] \/ Ordered(mem'[h], nextId)
  BY <1>3, OrderTypes
<1> QED BY <1>1, <1>2, <1>5, <1>6, <1>7, OrderStep

LEMMA InitOrder == SessionAssumption /\ Init => OrderInv
<1> SUFFICES ASSUME SessionAssumption, Init
             PROVE  OrderInv
  OBVIOUS
<1>1. TypeInv /\ orphans = {} /\ record = Absent /\ (\A h \in Handles : mem[h] = Fresh)
      /\ \A t \in Tasks : task[t] = IdleTask
  BY InitType DEF Init
<1>2. IdleTask.snap = Absent /\ IdleTask.op # "run"
  BY DEF IdleTask
<1> QED BY <1>1, <1>2, EmptyOrdered DEF OrderInv, RunOrder

LEMMA NextOrder == SessionAssumption /\ OrderInv /\ [Next]_vars => OrderInv'
<1> SUFFICES ASSUME SessionAssumption, OrderInv, [Next]_vars
             PROVE  OrderInv'
  OBVIOUS
<1>1. TypeInv /\ TypeInv'
  BY NextType DEF OrderInv
<1>2. ASSUME NEW t \in Tasks, HostStep(t)
      PROVE  OrderInv'
  BY <1>1, <1>2, HostsOrder, SavesOrder, DeletesOrder, StartOrder DEF HostStep
<1>3. ASSUME NEW t \in Tasks, RunStep(t)
      PROVE  OrderInv'
  <2>1. ReleaseRun(t) => task[t].h \in Handles
    BY <1>1, BusyTask DEF ReleaseRun
  <2> QED BY <1>1, <1>3, <2>1, RunsOrder, LeaveOrder DEF RunStep
<1>4. ASSUME NEW t \in Tasks, WorkerStep(t) \/ Resume(t) \/ Cancel(t)
      PROVE  OrderInv'
  BY <1>1, <1>4, SavesOrder, DeletesOrder DEF WorkerStep, Resume
<1>5. ASSUME NEW h \in Handles, Crash(h)
      PROVE  OrderInv'
  BY <1>1, <1>5, LeaveOrder
<1>6. ASSUME \/ \E h \in Handles : Close(h) \/ New(h) \/ Open(h)
             \/ \E r \in orphans : WorkerOrphan(r)
             \/ Quiescent \/ UNCHANGED vars
      PROVE  OrderInv'
  BY <1>1, <1>6, OtherOrder
<1> QED BY <1>2, <1>3, <1>4, <1>5, <1>6 DEF Next

\* In memory and on disk, the transcript followed by the queue lists the user messages in
\* the order their receipts were given, each at most once: whatever is queued between
\* start() and the initial commit of a Run goes behind the Run's message, and no host,
\* crash, cancelled save or other handle reorders them (start, _commit_initial_input).
THEOREM AcceptedInOrder == Spec => []AcceptanceOrder
<1>1. OrderInv => AcceptanceOrder
  <2> SUFFICES ASSUME OrderInv, NEW s \in {record} \cup {mem[h] : h \in Handles}
               PROVE  InOrder(s.messages \o PendingMessages(s.pending))
    BY DEF AcceptanceOrder
  <2>1. s \in Snapshot /\ Ordered(s, nextId)
    BY OrderTypes
  <2> QED BY <2>1, OrderedReads
<1> QED BY <1>1, InitOrder, NextOrder, SessionAssumption, PTL DEF Spec

-----------------------------------------------------------------------------
\* Confirmed clearing: what is off the record stays off.

LEMMA ClearTypes ==
    ASSUME ClearInv
    PROVE  /\ SafeInv /\ OrderInv /\ TypeInv /\ nextId \in Nat \ {0} /\ record \in Snapshot
           /\ record.revision \in Int /\ purged \subseteq Nat
           /\ status \in [Handles -> {"none", "open", "closed"}]
           /\ mem \in [Handles -> Snapshot] /\ durable \in [Handles -> Int]
           /\ task \in [Tasks -> TaskState]
           /\ \A h \in Handles : mem[h].revision \in Int /\ durable[h] \in Int
           /\ \A t \in Tasks : /\ task[t] \in TaskState /\ task[t].ids \subseteq Nat
                               /\ task[t].need \in Int /\ task[t].snap.revision \in Int
                               /\ task[t].expected \in Int
                               /\ ClearSafe(task[t])
           /\ \A r \in orphans : r.snap \in Snapshot /\ r.expected \in Int
                                 /\ r.snap.revision \in Int
<1>1. SafeInv /\ OrderInv /\ TypeInv /\ \A t \in Tasks : ClearSafe(task[t])
  BY DEF ClearInv, SafeInv
<1>2. \A c \in TaskState : c.ids \subseteq Nat
  BY DEF TaskState
<1>3. /\ nextId \in Nat \ {0} /\ purged \subseteq Nat /\ record \in Snapshot
      /\ status \in [Handles -> {"none", "open", "closed"}]
      /\ mem \in [Handles -> Snapshot] /\ durable \in [Handles -> Int]
      /\ task \in [Tasks -> TaskState]
  BY <1>1 DEF TypeInv, TypeOK, Types
<1> QED BY <1>1, <1>2, <1>3, SafeTypes, SnapshotParts

\* A settled call is a clear on a live handle, and its inputs were numbered before.
LEMMA GoneOld ==
    ASSUME ClearInv
    PROVE  \A x : IsGone(x) => x \in Nat /\ x < nextId
<1>1. \A t \in Tasks : Settled(task[t]) => \A x \in task[t].ids : x \in Nat /\ x < nextId
  BY ClearTypes DEF Settled, ClearSafe
<1>2. \A x \in purged : x \in Nat /\ x < nextId
  BY ClearTypes DEF ClearInv
<1> QED BY <1>1, <1>2 DEF IsGone

\* A state that gains new inputs only stays free of those that are gone.
LEMMA GrownRid ==
    ASSUME ClearInv, NEW old, NEW new, Rid(old), Grown(old, new, nextId)
    PROVE  Rid(new)
<1>1. \A x : IsGone(x) => ~(nextId <= x)
  BY GoneOld, ClearTypes
<1> QED BY <1>1 DEF Rid, Grown

\* A step that leaves the record: nothing more is gone, and the states that are or may
\* become current have none of what is.
LEMMA GoneStep ==
    ASSUME ClearInv, SafeInv', OrderInv', record' = record, nextId <= nextId',
           \A x : IsGone(x)' => IsGone(x),
           \A t \in Tasks : ClearSafe(task[t])',
           \A h \in Handles : IsCurrent(h)' => Rid(mem'[h]),
           \A t \in Tasks : task'[t].pc = "saving" /\ task'[t].expected = record.revision
                            => Rid(task'[t].snap) /\ Rid(mem'[task'[t].h]),
           \A r \in orphans' : r.expected = record.revision => Rid(r.snap)
    PROVE  ClearInv'
<1>1. nextId \in Nat /\ nextId' \in Nat
  BY ClearTypes DEF OrderInv, TypeInv, TypeOK, Types
<1>2. \A x \in purged' : x < nextId'
  <2>1. \A x \in purged' : IsGone(x)'
    BY DEF IsGone
  <2> QED BY <1>1, <2>1, GoneOld
<1>3. \A s : Rid(s) => \A x \in PendingIds(s) : ~IsGone(x)'
  BY DEF Rid
<1>4. /\ \A x \in PendingIds(record') : ~IsGone(x)'
      /\ \A h \in Handles : IsCurrent(h)' => \A x \in PendingIds(mem'[h]) : ~IsGone(x)'
      /\ \A t \in Tasks : task'[t].pc = "saving" /\ task'[t].expected = record'.revision
                          => /\ \A x \in PendingIds(task'[t].snap) : ~IsGone(x)'
                             /\ \A x \in PendingIds(mem'[task'[t].h]) : ~IsGone(x)'
      /\ \A r \in orphans' : r.expected = record'.revision
                             => \A x \in PendingIds(r.snap) : ~IsGone(x)'
  BY <1>3 DEF ClearInv
<1>5. /\ Rid(record)' /\ \A h \in Handles : IsCurrent(h)' => Rid(mem[h])'
      /\ \A t \in Tasks : task'[t].pc = "saving" /\ task'[t].expected = record'.revision
                          => Rid(task[t].snap)' /\ Rid(mem[task[t].h])'
  BY <1>4 DEF Rid
<1>6. \A r \in orphans' : r.expected = record'.revision => Rid(r.snap)'
  BY <1>4 DEF Rid
<1> QED BY <1>2, <1>5, <1>6 DEF ClearInv

\* A call goes on as d, or ends, and changes neither the record nor its handle.
LEMMA CallGone ==
    ASSUME ClearInv, SafeInv', OrderInv', NEW t \in Tasks, NEW d,
           task' = [task EXCEPT ![t] = d], nextId <= nextId',
           UNCHANGED <<record, status, mem>>,
           d.pc # "saved", d.op = "clear" => d.pc # "waiting",
           d.op = "clear" => /\ task[t].op = "clear" /\ d.ids = task[t].ids
                             /\ d.need = task[t].need /\ d.h = task[t].h
                             /\ d.pc = "saving" => task[t].pc = "waiting",
           d.pc = "saving" => /\ d.h \in Handles /\ Live(d.h) /\ d.snap = mem[d.h]
                              /\ d.expected = durable[d.h],
           \/ durable' = durable
           \/ /\ task[t].pc = "saved"
              /\ durable' = [durable EXCEPT ![task[t].h] = task[t].snap.revision],
           purged' = purged \/ (purged' = purged \cup task[t].ids /\ Settled(task[t])),
           \A r \in orphans' : \/ r \in orphans
                               \/ /\ task[t].pc = "saving" /\ r.snap = task[t].snap
                                  /\ r.expected = task[t].expected
    PROVE  ClearInv'
<1> DEFINE c == task[t]
<1>1. \A u \in Tasks : task'[u] = IF u = t THEN d ELSE task[u]
  BY ClearTypes
<1>2. \A h \in Handles : \/ durable'[h] = durable[h]
                         \/ c.pc = "saved" /\ c.h = h /\ durable'[h] = c.snap.revision
  BY ClearTypes
<1>3. \A u \in Tasks : task[u].pc # "idle" => task[u].h \in Handles
  BY ClearTypes, SafeTypes
<1>4. ASSUME NEW u \in Tasks, Settled(task[u])'
      PROVE  task'[u] = task[u] /\ Settled(task[u])
  <2>1. u # t /\ task'[u] = task[u] /\ task[u].h \in Handles
    BY <1>1, <1>3, <1>4 DEF Settled
  <2>2. CASE task[u].need <= durable'[task[u].h]
    BY <1>2, <1>4, <2>1, <2>2 DEF Settled
  <2>3. CASE \E v \in Tasks : /\ task'[v].pc = "saved" /\ task'[v].h = task[u].h
                              /\ task[u].need <= task'[v].snap.revision
    BY <1>1, <1>4, <2>1, <2>3 DEF Settled
  <2> QED BY <1>4, <2>1, <2>2, <2>3 DEF Settled
<1>5. \A x : IsGone(x)' => IsGone(x)
  BY <1>4 DEF IsGone
<1>6. ASSUME NEW u \in Tasks
      PROVE  ClearSafe(task[u])'
  <2>1. ClearSafe(task[u]) /\ ClearSafe(c)
    BY ClearTypes
  <2>2. nextId \in Nat /\ nextId' \in Nat /\ \A v \in Tasks : task[v].ids \subseteq Nat
    BY ClearTypes DEF OrderInv, TypeInv, TypeOK, Types
  <2>3. CASE u = t
    <3> SUFFICES ASSUME d.op = "clear"
                 PROVE  ClearSafe(d)'
      BY <1>1, <2>3 DEF ClearSafe
    <3>1. /\ c.op = "clear" /\ d.ids = c.ids /\ d.need = c.need /\ d.h = c.h
          /\ \A x \in d.ids : x < nextId'
      BY <2>1, <2>2 DEF ClearSafe
    <3>2. ASSUME d.pc = "saving"
          PROVE  /\ \A x \in PendingIds(mem[d.h]) : x \notin d.ids
                 /\ \A v \in Tasks : /\ task'[v].pc \in {"saving", "saved"} /\ task'[v].h = d.h
                                     /\ d.need <= task'[v].snap.revision
                                     => \A x \in PendingIds(task'[v].snap) : x \notin d.ids
      BY <1>1, <2>1, <3>1, <3>2 DEF ClearSafe
    <3> QED BY <1>1, <3>1, <3>2 DEF ClearSafe
  <2>4. CASE u # t
    <3>1. /\ task'[u] = task[u]
          /\ task[u].op = "clear" => \A x \in task[u].ids : x < nextId'
      BY <1>1, <2>1, <2>2, <2>4 DEF ClearSafe
    <3>2. ASSUME task[u].op = "clear", task[u].pc \in {"waiting", "saving", "saved"}, NEW v \in Tasks,
                 task'[v].pc \in {"saving", "saved"}, task'[v].h = task[u].h,
                 task[u].need <= task'[v].snap.revision
          PROVE  \A x \in PendingIds(task'[v].snap) : x \notin task[u].ids
      BY <1>1, <2>1, <3>2 DEF ClearSafe
    <3> QED BY <1>1, <2>1, <3>1, <3>2 DEF ClearSafe
  <2> QED BY <2>3, <2>4
<1>7. ASSUME NEW h \in Handles, IsCurrent(h)'
      PROVE  IsCurrent(h)
  BY <1>1, <1>2, <1>7 DEF IsCurrent, Live
<1>8. \A h \in Handles : IsCurrent(h)' => Rid(mem'[h])
  BY <1>7 DEF ClearInv
<1>9. ASSUME NEW u \in Tasks, task'[u].pc = "saving", task'[u].expected = record.revision
      PROVE  Rid(task'[u].snap) /\ Rid(mem'[task'[u].h])
  <2>1. CASE u = t
    <3>1. IsCurrent(d.h) /\ d.h \in Handles
      BY <1>1, <1>9, <2>1 DEF IsCurrent
    <3> QED BY <1>1, <1>9, <2>1, <3>1 DEF ClearInv
  <2>2. CASE u # t
    BY <1>1, <1>9, <2>2 DEF ClearInv
  <2> QED BY <2>1, <2>2
<1>10. \A r \in orphans' : r.expected = record.revision => Rid(r.snap)
  BY DEF ClearInv
<1> QED BY <1>5, <1>6, <1>8, <1>9, <1>10, GoneStep

\* A call that is over, or between two waits, is no clear under way.
LEMMA EndedIsGone ==
    ASSUME NEW c \in TaskState
    PROVE  /\ Returned(c).pc \in {"idle", "turn"} /\ Returned(c).op # "clear"
           /\ Raised(c).pc \in {"idle", "ending"} /\ Raised(c).op # "clear"
<1>1. CASE c.op = "run"
  BY <1>1 DEF Returned, Raised, TaskState
<1>2. CASE c.op # "run"
  BY <1>2 DEF Returned, Raised, IdleTask
<1> QED BY <1>1, <1>2

LEMMA PersistGone ==
    ASSUME ClearInv, SafeInv', OrderInv', NEW t \in Tasks, NEW h \in Handles, Persist(t, h)
    PROVE  ClearInv'
<1> DEFINE c == [Call("persist", h, {}) EXCEPT !.need = mem[h].revision]
           slow == [c EXCEPT !.pc = "waiting"]
           fast == Save(c, mem[h])
<1>1. /\ UNCHANGED <<record, status, mem, durable, orphans, purged, nextId>> /\ Live(h)
      /\ \/ task' = [task EXCEPT ![t] = slow]
         \/ task' = [task EXCEPT ![t] = fast]
  BY DEF Persist, history
<1>2. slow.pc = "waiting" /\ slow.op = "persist" /\ c.h = h
  BY DEF Call, IdleTask
<1>3. /\ fast.pc = "saving" /\ fast.h = h /\ fast.op = "persist" /\ fast.snap = mem[h]
      /\ fast.expected = durable[h]
  BY DEF Call, IdleTask, Save
<1> HIDE DEF c, slow, fast
<1>4. nextId <= nextId'
  BY <1>1, ClearTypes
<1>5. CASE task' = [task EXCEPT ![t] = slow]
  BY <1>1, <1>2, <1>4, <1>5, CallGone
<1>6. CASE task' = [task EXCEPT ![t] = fast]
  BY <1>1, <1>3, <1>4, <1>6, CallGone
<1> QED BY <1>1, <1>5, <1>6

LEMMA GrantGone ==
    ASSUME ClearInv, SafeInv', OrderInv', NEW t \in Tasks, Grant(t)
    PROVE  ClearInv'
<1> DEFINE c == task[t]
<1>1. c.pc = "waiting" /\ UNCHANGED <<record, status, mem, durable, orphans, nextId>>
  BY DEF Grant
<1>2. c \in TaskState /\ c.h \in Handles /\ Live(c.h)
  BY <1>1, ClearTypes, SafeBusy
<1>3. nextId <= nextId' /\ durable[c.h] \in Int /\ c.need \in Int
  BY <1>1, <1>2, ClearTypes
<1>4. CASE /\ durable[c.h] >= c.need
           /\ task' = [task EXCEPT ![t] = Returned(c)]
           /\ Confirm(c)
  <2>1. Returned(c).pc \in {"idle", "turn"} /\ Returned(c).op # "clear"
    BY <1>2, EndedIsGone
  <2>2. purged' = purged \/ (purged' = purged \cup c.ids /\ Settled(c))
    BY <1>1, <1>3, <1>4 DEF Confirm, Settled
  <2> QED BY <1>1, <1>3, <1>4, <2>1, <2>2, CallGone
<1>5. CASE /\ task' = [task EXCEPT ![t] = Save(c, mem[c.h])]
           /\ UNCHANGED history
  <2> DEFINE d == Save(c, mem[c.h])
  <2>1. /\ d.pc = "saving" /\ d.op = c.op /\ d.ids = c.ids /\ d.need = c.need /\ d.h = c.h
        /\ d.snap = mem[c.h] /\ d.expected = durable[c.h]
    BY <1>2 DEF Save, TaskState
  <2>2. task' = [task EXCEPT ![t] = d] /\ purged' = purged
    BY <1>5 DEF history
  <2> HIDE DEF d
  <2> QED BY <1>1, <1>2, <1>3, <2>1, <2>2, CallGone
<1> QED BY <1>4, <1>5 DEF Grant

LEMMA SaveReturnsGone ==
    ASSUME ClearInv, SafeInv', OrderInv', NEW t \in Tasks, SaveReturns(t)
    PROVE  ClearInv'
<1> DEFINE c == task[t]
<1>1. /\ c.pc = "saved" /\ task' = [task EXCEPT ![t] = Returned(c)] /\ Confirm(c)
      /\ durable' = [durable EXCEPT ![c.h] = c.snap.revision]
      /\ UNCHANGED <<record, status, mem, orphans, nextId>>
  BY DEF SaveReturns
<1>2. c \in TaskState /\ TaskSafe(c)
  BY <1>1, ClearTypes, SafeBusy
<1>3. c.need <= c.snap.revision /\ nextId <= nextId'
  BY <1>1, <1>2, ClearTypes DEF TaskSafe, WriteSafe
<1>4. purged' = purged \/ (purged' = purged \cup c.ids /\ Settled(c))
  BY <1>1, <1>3 DEF Confirm, Settled
<1>5. Returned(c).pc \in {"idle", "turn"} /\ Returned(c).op # "clear"
  BY <1>2, EndedIsGone
<1> QED BY <1>1, <1>3, <1>4, <1>5, CallGone

LEMMA QuietGone ==
    ASSUME ClearInv, SafeInv', OrderInv', NEW t \in Tasks,
           \/ SaveRaises(t) \/ ReleaseRun(t)
           \/ \E h \in Handles : StartRun(t, h)
           \/ /\ task[t].pc = "initial" /\ task' = [task EXCEPT ![t].pc = "turn"]
              /\ UNCHANGED <<record, handleVars, orphans, nextId, history>>
           \/ Cancel(t)
    PROVE  ClearInv'
<1>1. task[t] \in TaskState /\ task \in [Tasks -> TaskState] /\ nextId \in Nat
  BY ClearTypes
<1>2. IdleTask.pc = "idle" /\ IdleTask.op = "none"
  BY DEF IdleTask
<1>3. UNCHANGED <<record, status, mem, durable, purged>>
  BY DEF SaveRaises, ReleaseRun, StartRun, Cancel, handleVars, history
<1>4. CASE SaveRaises(t)
  <2>1. task' = [task EXCEPT ![t] = Raised(task[t])] /\ nextId' = nextId /\ orphans' = orphans
    BY <1>4 DEF SaveRaises
  <2>2. nextId <= nextId' /\ (\A r \in orphans' : r \in orphans)
    BY <1>1, <2>1
  <2>3. Raised(task[t]).pc \in {"idle", "ending"} /\ Raised(task[t]).op # "clear"
    BY <1>1, EndedIsGone
  <2> QED BY <1>3, <2>1, <2>2, <2>3, CallGone
<1>5. CASE ReleaseRun(t)
  <2>1. task' = [task EXCEPT ![t] = IdleTask] /\ nextId' = nextId /\ orphans' = orphans
    BY <1>5 DEF ReleaseRun
  <2>2. nextId <= nextId'
    BY <1>1, <2>1
  <2> QED BY <1>2, <1>3, <2>1, <2>2, CallGone
<1>6. CASE \E h \in Handles : StartRun(t, h)
  <2>1. PICK h \in Handles : StartRun(t, h)
    BY <1>6
  <2>2. PICK own \in {<<>>, <<nextId>>} :
          /\ nextId' = nextId + Len(own)
          /\ task' = [task EXCEPT ![t] = [Call("run", h, {}) EXCEPT
                        !.pc = "initial", !.own = own, !.through = mem[h].sequence]]
    BY <2>1 DEF StartRun
  <2> DEFINE d == [Call("run", h, {}) EXCEPT
                     !.pc = "initial", !.own = own, !.through = mem[h].sequence]
  <2>3. d.pc = "initial" /\ d.op = "run"
    BY DEF Call, IdleTask
  <2>4. Len(own) \in Nat /\ nextId <= nextId' /\ orphans' = orphans
    <3>1. Len(<<>>) = 0 /\ Len(<<nextId>>) = 1
      OBVIOUS
    <3>2. Len(own) \in {0, 1}
      BY <2>2, <3>1
    <3>3. orphans' = orphans
      BY <2>1 DEF StartRun
    <3> QED BY <1>1, <2>2, <3>2, <3>3
  <2>5. task' = [task EXCEPT ![t] = d]
    BY <2>2
  <2> HIDE DEF d
  <2> QED BY <1>3, <2>3, <2>4, <2>5, CallGone
<1>7. CASE /\ task[t].pc = "initial" /\ task' = [task EXCEPT ![t].pc = "turn"]
           /\ UNCHANGED <<record, handleVars, orphans, nextId, history>>
  <2> DEFINE d == [task[t] EXCEPT !.pc = "turn"]
  <2>1. d.pc = "turn" /\ d.op = task[t].op /\ task' = [task EXCEPT ![t] = d]
    BY <1>1, <1>7 DEF TaskState
  <2>2. task[t].op = "run" /\ nextId <= nextId' /\ orphans' = orphans
    BY <1>1, <1>7, ClearTypes DEF TypeInv, TaskShape, ShapeOf
  <2> HIDE DEF d
  <2> QED BY <1>3, <2>1, <2>2, CallGone
<1>8. CASE Cancel(t)
  <2>1. /\ task' = [task EXCEPT ![t] = IdleTask] /\ nextId' = nextId
        /\ \A r \in orphans' : r \in orphans
              \/ (task[t].pc \in {"saving", "deleting"} /\ r = Request(task[t]))
    BY <1>8 DEF Cancel
  <2>2. task[t].pc # "deleting"
    BY ClearTypes DEF SafeInv, TaskSafe, TypeInv, TaskShape, ShapeOf
  <2>3. /\ Request(task[t]).snap = task[t].snap
        /\ Request(task[t]).expected = task[t].expected
    BY DEF Request, IdleTask
  <2>4. /\ nextId <= nextId'
        /\ \A r \in orphans' : \/ r \in orphans
                               \/ /\ task[t].pc = "saving" /\ r.snap = task[t].snap
                                  /\ r.expected = task[t].expected
    BY <1>1, <2>1, <2>2, <2>3
  <2> QED BY <1>2, <1>3, <2>1, <2>4, CallGone
<1> QED BY <1>4, <1>5, <1>6, <1>7, <1>8

\* A mutation: a clear takes a revision of its own, above all that is saved of its
\* handle, and no other mutation brings an old input back into the queue.
LEMMA MutationGone ==
    ASSUME ClearInv, SafeInv', OrderInv', NEW t \in Tasks,
           NEW c \in TaskState, NEW s \in Snapshot, Mutates(t, c, s)
    PROVE  ClearInv'
<1> DEFINE need == [c EXCEPT !.need = s.revision]
           fast == Save(need, s)
           slow == [need EXCEPT !.pc = "waiting"]
           Other(d) == /\ d.op = c.op /\ d.h = c.h /\ d.ids = c.ids /\ d.need = s.revision
                       /\ \/ d.pc = "saving" /\ d.snap = s /\ d.expected = durable[c.h]
                          \/ d.pc = "waiting"
<1>1. /\ c.h \in Handles /\ Grown(mem[c.h], s, nextId)
      /\ c.op = "clear" => c.ids = PendingIds(mem[c.h]) /\ PendingIds(s) = {}
      /\ nextId <= nextId' /\ purged' = purged
      /\ s.revision = mem[c.h].revision + 1
  BY DEF Mutates, Mutator, Successor
<1>2. Live(c.h) /\ HandleSafe(c.h)
  <2>1. task[t].pc = "idle" => Live(c.h)
    BY DEF Mutates
  <2>2. task[t].pc # "idle" => Live(c.h)
    BY ClearTypes, SafeBusy DEF Mutates
  <2> QED BY <2>1, <2>2, <1>1, ClearTypes DEF SafeInv
<1>3. /\ mem' = [mem EXCEPT ![c.h] = s]
      /\ task' = [task EXCEPT ![t] = fast] \/ task' = [task EXCEPT ![t] = slow]
      /\ UNCHANGED <<record, status, durable, orphans>>
  <2>1. need.h = c.h
    BY DEF TaskState
  <2> QED BY <2>1 DEF Mutates, MutateAndPersist
<1>4. Other(fast) /\ Other(slow)
  BY DEF Save, TaskState
<1> HIDE DEF need, fast, slow
<1>5. PICK d : Other(d) /\ \A u \in Tasks : task'[u] = IF u = t THEN d ELSE task[u]
  <2>1. \/ \A u \in Tasks : task'[u] = IF u = t THEN fast ELSE task[u]
        \/ \A u \in Tasks : task'[u] = IF u = t THEN slow ELSE task[u]
    BY <1>3, ClearTypes
  <2> QED BY <1>4, <2>1
<1>6. /\ mem'[c.h] = s /\ \A h \in Handles : h # c.h => mem'[h] = mem[h]
      /\ mem[c.h].revision \in Int /\ durable[c.h] \in Int
  BY <1>1, <1>3, ClearTypes
<1>7. /\ durable[c.h] < s.revision
      /\ \A v \in Tasks : task[v].pc \in {"saving", "saved"} /\ task[v].h = c.h
                          => ~(s.revision <= task[v].snap.revision)
  <2>1. durable[c.h] < s.revision
    BY <1>1, <1>2, <1>6 DEF HandleSafe
  <2>2. ASSUME NEW v \in Tasks, task[v].pc \in {"saving", "saved"}, task[v].h = c.h
        PROVE  ~(s.revision <= task[v].snap.revision)
    <3>1. WriteSafe(task[v]) /\ task[v].snap.revision \in Int
      BY <2>2, ClearTypes, SafeBusy DEF TaskSafe
    <3> QED BY <1>1, <1>6, <2>2, <3>1 DEF WriteSafe
  <2> QED BY <2>1, <2>2
<1>8. /\ nextId \in Nat /\ nextId' \in Nat
      /\ \A x \in PendingIds(mem[c.h]) : x \in Nat /\ x < nextId
  <2>1. nextId \in Nat /\ nextId' \in Nat
    BY ClearTypes DEF OrderInv, TypeInv, TypeOK, Types
  <2>2. mem[c.h] \in Snapshot /\ Ordered(mem[c.h], nextId)
    BY <1>1, ClearTypes DEF OrderInv
  <2>3. \A i \in DOMAIN mem[c.h].pending : mem[c.h].pending[i].id \in Nat
    BY <2>2, SnapshotElements DEF PendingItem
  <2> QED BY <2>1, <2>2, <2>3 DEF Ordered, PendingIds
<1> HIDE DEF Other
<1>9. ASSUME NEW u \in Tasks, Settled(task[u])'
      PROVE  task'[u] = task[u] /\ Settled(task[u])
  <2>1. \A v \in Tasks : task'[v].pc = "saved" => v # t /\ task'[v] = task[v]
    BY <1>5 DEF Other
  <2>2. u # t
    <3> SUFFICES ASSUME u = t
                 PROVE  FALSE
      OBVIOUS
    <3>1. d.h = c.h /\ d.need = s.revision /\ task'[u] = d
      BY <1>5 DEF Other
    <3>2. \/ s.revision <= durable[c.h]
          \/ \E v \in Tasks : /\ task[v].pc = "saved" /\ task[v].h = c.h
                              /\ s.revision <= task[v].snap.revision
      BY <1>3, <1>9, <2>1, <3>1 DEF Settled
    <3>3. ~(s.revision <= durable[c.h])
      BY <1>6, <1>7, SnapshotParts
    <3> QED BY <1>7, <3>2, <3>3
  <2> QED BY <1>3, <1>5, <1>9, <2>1, <2>2 DEF Settled
<1>10. \A x : IsGone(x)' => IsGone(x)
  BY <1>1, <1>9 DEF IsGone
<1>11. ASSUME NEW u \in Tasks
       PROVE  ClearSafe(task[u])'
  <2>1. ClearSafe(task[u]) /\ task[u].ids \subseteq Nat
    BY ClearTypes
  <2>2. CASE u = t
    <3>1. /\ task'[u] = d /\ d.h = c.h /\ d.need = s.revision /\ d.ids = c.ids /\ d.op = c.op
          /\ d.pc = "saving" => d.snap = s
      BY <1>5, <2>2 DEF Other
    <3>2. c.op = "clear" => \A x \in c.ids : x < nextId'
      BY <1>1, <1>8
    <3>3. ASSUME NEW v \in Tasks, task'[v].pc \in {"saving", "saved"}, task'[v].h = c.h,
                 s.revision <= task'[v].snap.revision
          PROVE  v = t /\ task'[v].snap = s
      BY <1>5, <1>7, <3>1, <3>3, <2>2 DEF Other
    <3>4. c.op = "clear" => \A x \in PendingIds(mem'[c.h]) : x \notin c.ids
      BY <1>1, <1>6
    <3>5. c.op = "clear" => \A x \in PendingIds(s) : x \notin c.ids
      BY <1>1
    <3> QED BY <3>1, <3>2, <3>3, <3>4, <3>5 DEF ClearSafe
  <2>3. CASE u # t
    <3>1. task'[u] = task[u]
      BY <1>5, <2>3
    <3>2. task[u].op = "clear" => \A x \in task[u].ids : x \in Nat /\ x < nextId /\ x < nextId'
      BY <1>1, <1>8, <2>1 DEF ClearSafe
    <3>3. ASSUME task[u].op = "clear", task[u].pc \in {"waiting", "saving", "saved"}
          PROVE  \A x \in PendingIds(mem'[task[u].h]) : x \notin task[u].ids
      <4>1. task[u].h \in Handles /\ \A x \in PendingIds(mem[task[u].h]) : x \notin task[u].ids
        BY <2>1, <3>3, ClearTypes, SafeBusy DEF ClearSafe
      <4>2. CASE task[u].h = c.h
        BY <1>1, <1>6, <1>8, <3>2, <3>3, <4>1, <4>2 DEF Grown
      <4>3. CASE task[u].h # c.h
        BY <1>6, <4>1, <4>3
      <4> QED BY <4>2, <4>3
    <3>4. ASSUME task[u].op = "clear", task[u].pc \in {"waiting", "saving", "saved"},
                 NEW v \in Tasks, task'[v].pc \in {"saving", "saved"}, task'[v].h = task[u].h,
                 task[u].need <= task'[v].snap.revision
          PROVE  \A x \in PendingIds(task'[v].snap) : x \notin task[u].ids
      <4>1. CASE v = t
        <5>1. task'[v].snap = s /\ task[u].h = c.h
          BY <1>5, <3>4, <4>1 DEF Other
        <5> QED BY <1>6, <3>3, <3>4, <5>1
      <4>2. CASE v # t
        BY <1>5, <2>1, <3>4, <4>2 DEF ClearSafe
      <4> QED BY <4>1, <4>2
    <3> QED BY <3>1, <3>2, <3>3, <3>4 DEF ClearSafe
  <2> QED BY <2>2, <2>3
<1>12. ASSUME NEW h \in Handles, IsCurrent(h)
       PROVE  Rid(mem'[h])
  <2>1. Rid(mem[h])
    BY <1>12 DEF ClearInv
  <2> QED BY <1>1, <1>6, <2>1, GrownRid
<1>13. ASSUME NEW h \in Handles, IsCurrent(h)'
       PROVE  IsCurrent(h)
  <2>1. \A v \in Tasks : task'[v].pc = "saved" => task'[v] = task[v]
    BY <1>5 DEF Other
  <2> QED BY <1>3, <1>13, <2>1 DEF IsCurrent, Live
<1>14. ASSUME NEW u \in Tasks, task'[u].pc = "saving", task'[u].expected = record.revision
       PROVE  Rid(task'[u].snap) /\ Rid(mem'[task'[u].h])
  <2>1. CASE u = t
    <3>1. task'[u].snap = s /\ task'[u].h = c.h /\ durable[c.h] = record.revision
      BY <1>5, <1>14, <2>1 DEF Other
    <3>2. IsCurrent(c.h)
      BY <1>2, <3>1 DEF IsCurrent
    <3> QED BY <1>1, <1>6, <1>12, <3>1, <3>2
  <2>2. CASE u # t
    <3>1. task'[u] = task[u] /\ task[u].h \in Handles
      BY <1>5, <1>14, <2>2, ClearTypes, SafeBusy
    <3>2. Rid(task[u].snap) /\ Rid(mem[task[u].h])
      BY <1>14, <3>1 DEF ClearInv
    <3>3. Rid(mem'[task[u].h])
      BY <1>1, <1>6, <3>1, <3>2, GrownRid
    <3> QED BY <3>1, <3>2, <3>3
  <2> QED BY <2>1, <2>2
<1>15. /\ record' = record /\ \A h \in Handles : IsCurrent(h)' => Rid(mem'[h])
       /\ \A r \in orphans' : r.expected = record.revision => Rid(r.snap)
  BY <1>3, <1>12, <1>13 DEF ClearInv
<1> QED BY <1>1, <1>10, <1>11, <1>14, <1>15, GoneStep

\* An accepted save: what it writes has none of the inputs gone by then, and only the
\* handle it came from is current.
LEMMA AcceptGone ==
    ASSUME ClearInv, SafeInv', OrderInv', NEW r, RequestSafe(r), r.snap.revision \in Int,
           SaveAccepted(r.snap, r.expected), Rid(r.snap),
           UNCHANGED <<status, mem, durable, nextId, purged>>, orphans' \subseteq orphans,
           \A u \in Tasks :
              \/ task'[u] = task[u]
              \/ Finishes(u, r) /\ task[u].expected = r.expected /\ task[u].h = r.h
    PROVE  ClearInv'
<1>1. /\ record' = r.snap /\ r.expected = record.revision
      /\ record.revision < r.snap.revision /\ record.revision \in Int
  BY AcceptGrows, ClearTypes
<1>2. ASSUME NEW u \in Tasks
      PROVE  \/ task'[u] = task[u]
             \/ /\ task[u].pc = "saving" /\ task'[u].pc \in {"saved", "failed"}
                /\ task[u].snap = r.snap /\ task[u].expected = record.revision
                /\ task[u].h = r.h /\ task'[u].h = task[u].h /\ task'[u].snap = task[u].snap
                /\ task'[u].op = task[u].op /\ task'[u].ids = task[u].ids
                /\ task'[u].need = task[u].need
  BY ZenonT(40), <1>1, ClearTypes DEF Finishes, TaskState
<1>3. ASSUME NEW u \in Tasks, task[u].pc \in {"saving", "saved"}
      PROVE  task[u].need <= task[u].snap.revision
  BY <1>3, ClearTypes, SafeBusy DEF TaskSafe, WriteSafe
\* A clear that settles with this save: its inputs are neither in what was written nor
\* in the runtime state of the handle.
<1>4. ASSUME NEW u \in Tasks, Settled(task[u])', ~Settled(task[u])
      PROVE  /\ task[u].op = "clear" /\ task'[u].ids = task[u].ids /\ task[u].h = r.h
             /\ \A x \in PendingIds(r.snap) : x \notin task[u].ids
             /\ \A x \in PendingIds(mem[task[u].h]) : x \notin task[u].ids
  <2>1. /\ task[u].op = "clear" /\ task'[u].ids = task[u].ids /\ task'[u].h = task[u].h
        /\ task'[u].need = task[u].need
        /\ task[u].pc \in {"waiting", "saving", "saved"} /\ ClearSafe(task[u])
    BY <1>2, <1>4, ClearTypes DEF Settled
  <2>2. \A x \in PendingIds(mem[task[u].h]) : x \notin task[u].ids
    BY <2>1 DEF ClearSafe
  <2>3. \E v \in Tasks : /\ task[v].pc = "saving" /\ task[v].snap = r.snap /\ task[v].h = r.h
                         /\ task[v].h = task[u].h /\ task[u].need <= task[v].snap.revision
    <3>1. CASE task'[u] = task[u]
      <4>1. PICK v \in Tasks : /\ task'[v].pc = "saved" /\ task'[v].h = task[u].h
                               /\ task[u].need <= task'[v].snap.revision
        BY <1>4, <3>1 DEF Settled
      <4>2. task'[v] # task[v]
        BY <1>4, <3>1, <4>1 DEF Settled
      <4> QED BY <1>2, <4>1, <4>2
    <3>2. CASE task'[u] # task[u]
      BY <1>2, <1>3, <3>2
    <3> QED BY <3>1, <3>2
  <2> QED BY <2>1, <2>2, <2>3 DEF ClearSafe
<1>5. ASSUME NEW x, IsGone(x)', ~IsGone(x)
      PROVE  \E u \in Tasks : /\ x \in task[u].ids /\ task[u].h = r.h
                              /\ x \notin PendingIds(r.snap)
                              /\ x \notin PendingIds(mem[task[u].h])
  <2>1. PICK u \in Tasks : Settled(task[u])' /\ x \in task'[u].ids
    BY <1>5 DEF IsGone
  <2>2. ~Settled(task[u])
    BY <1>2, <1>5, <2>1 DEF IsGone
  <2> QED BY <1>4, <2>1, <2>2
<1>6. \A x \in PendingIds(record') : ~IsGone(x)'
  BY <1>1, <1>5 DEF Rid
<1>7. ASSUME NEW h \in Handles, IsCurrent(h)'
      PROVE  \A x \in PendingIds(mem'[h]) : ~IsGone(x)'
  <2>1. ~(durable[h] = r.snap.revision)
    BY <1>1, <1>7, ClearTypes DEF SafeInv, HandleSafe, IsCurrent, Live
  <2>2. PICK u \in Tasks : /\ task'[u].pc = "saved" /\ task'[u].h = h
                           /\ task'[u].snap.revision = r.snap.revision
    BY <1>1, <1>7, <2>1 DEF IsCurrent
  <2>3. task'[u] # task[u]
    <3> SUFFICES ASSUME task'[u] = task[u]
                 PROVE  FALSE
      OBVIOUS
    <3>1. WrittenSafe(task[u]) /\ task[u].snap.revision \in Int
      BY <2>2, ClearTypes, SafeBusy DEF TaskSafe
    <3> QED BY <1>1, <2>2, <3>1 DEF WrittenSafe
  <2>4. h = r.h /\ Rid(mem[h])
    BY <1>2, <2>2, <2>3 DEF ClearInv
  <2> QED BY <1>5, <2>4 DEF Rid
<1>8. ASSUME NEW u \in Tasks, task'[u].pc = "saving"
      PROVE  task'[u].expected # r.snap.revision
  <2>1. task'[u] = task[u]
    BY <1>2, <1>8
  <2>2. RequestSafe(task[u]) /\ task[u].expected \in Int
    BY <1>8, <2>1, ClearTypes, SafeBusy DEF TaskSafe
  <2> QED BY <1>1, <2>1, <2>2 DEF RequestSafe
<1>9. ASSUME NEW q \in orphans'
      PROVE  q.expected # r.snap.revision
  <2>1. RequestSafe(q) /\ q.expected \in Int
    BY ClearTypes DEF SafeInv, OrphanSafe
  <2> QED BY <1>1, <2>1 DEF RequestSafe
<1>10. ASSUME NEW u \in Tasks
       PROVE  ClearSafe(task[u])'
  <2>1. ClearSafe(task[u])
    BY ClearTypes
  <2>2. /\ task'[u].op = task[u].op /\ task'[u].ids = task[u].ids
        /\ task'[u].need = task[u].need /\ task'[u].h = task[u].h
        /\ task'[u].pc \in {"waiting", "saving", "saved"}
              => task[u].pc \in {"waiting", "saving", "saved"}
    BY <1>2
  <2>3. ASSUME NEW v \in Tasks, task'[v].pc \in {"saving", "saved"}
        PROVE  /\ task[v].pc \in {"saving", "saved"} /\ task'[v].h = task[v].h
               /\ task'[v].snap = task[v].snap
    BY <1>2, <2>3
  <2> QED BY <2>1, <2>2, <2>3 DEF ClearSafe
<1>11. \A x \in purged' : x < nextId'
  BY DEF ClearInv
<1>12. /\ Rid(record)' /\ \A h \in Handles : IsCurrent(h)' => Rid(mem[h])'
       /\ \A u \in Tasks : task'[u].pc = "saving" /\ task'[u].expected = record'.revision
                           => Rid(task[u].snap)' /\ Rid(mem[task[u].h])'
  BY <1>1, <1>6, <1>7, <1>8 DEF Rid
<1>13. \A q \in orphans' : q.expected = record'.revision => Rid(q.snap)'
  BY <1>1, <1>9
<1> QED BY <1>10, <1>11, <1>12, <1>13 DEF ClearInv

LEMMA WorkerSaveGone ==
    ASSUME ClearInv, SafeInv', OrderInv', NEW t \in Tasks, WorkerSave(t)
    PROVE  ClearInv'
<1> DEFINE c == task[t]
<1>1. /\ c.pc = "saving"
      /\ UNCHANGED <<status, mem, durable, orphans, nextId, purged>>
  BY DEF WorkerSave, handleVars, history
<1>2. /\ c \in TaskState /\ RequestSafe(c) /\ c.snap.revision \in Int
      /\ task \in [Tasks -> TaskState] /\ nextId <= nextId'
  BY <1>1, ClearTypes, SafeBusy DEF TaskSafe
<1>3. \/ \E pc \in {"saved", "failed"} : /\ SaveAccepted(c.snap, c.expected)
                                         /\ task' = [task EXCEPT ![t] = [c EXCEPT !.pc = pc]]
      \/ \E pc \in {"refused", "failed"} : /\ UNCHANGED record
                                           /\ task' = [task EXCEPT ![t] = [c EXCEPT !.pc = pc]]
  BY <1>2 DEF WorkerSave, SaveRefused
<1>4. CASE \E pc \in {"saved", "failed"} : /\ SaveAccepted(c.snap, c.expected)
                                           /\ task' = [task EXCEPT ![t] = [c EXCEPT !.pc = pc]]
  <2>1. \A u \in Tasks : \/ task'[u] = task[u]
                         \/ Finishes(u, c) /\ task[u].expected = c.expected /\ task[u].h = c.h
    BY <1>1, <1>2, <1>4 DEF Finishes
  <2>2. Rid(c.snap)
    BY <1>1, <1>4 DEF ClearInv, SaveAccepted, CasAccepts
  <2> QED BY <1>1, <1>2, <1>4, <2>1, <2>2, AcceptGone
<1>5. CASE \E pc \in {"refused", "failed"} : /\ UNCHANGED record
                                             /\ task' = [task EXCEPT ![t] = [c EXCEPT !.pc = pc]]
  <2>1. PICK pc \in {"refused", "failed"} : task' = [task EXCEPT ![t] = [c EXCEPT !.pc = pc]]
    BY <1>5
  <2> DEFINE d == [c EXCEPT !.pc = pc]
  <2>2. /\ d.pc = pc /\ d.op = c.op /\ d.h = c.h /\ d.ids = c.ids /\ d.need = c.need
    BY <1>2 DEF TaskState
  <2>3. task' = [task EXCEPT ![t] = d]
    BY <2>1
  <2> HIDE DEF d, c
  <2>4. UNCHANGED record
    BY <1>5
  <2>5. d.pc \notin {"saving", "saved", "waiting"}
    BY <2>2
  <2> QED BY <1>1, <1>2, <2>2, <2>3, <2>4, <2>5, CallGone DEF c
<1> QED BY <1>3, <1>4, <1>5

\* Nothing that ClearInv is about changes, but for requests that are done with.
LEMMA StillGone ==
    ASSUME ClearInv, SafeInv', OrderInv', \A h \in Handles : Live(h)' => Live(h),
           UNCHANGED <<record, mem, durable, task, nextId, purged>>, orphans' \subseteq orphans
    PROVE  ClearInv'
<1>1. nextId <= nextId'
  BY ClearTypes
<1>2. \A t \in Tasks : Settled(task[t])' => Settled(task[t])
  BY DEF Settled
<1>3. \A x : IsGone(x)' => IsGone(x)
  BY <1>2 DEF IsGone
<1>4. \A t \in Tasks : ClearSafe(task[t])'
  BY ClearTypes DEF ClearSafe
<1>5. \A h \in Handles : IsCurrent(h)' => IsCurrent(h)
  BY DEF IsCurrent
<1> QED BY <1>1, <1>3, <1>4, <1>5, GoneStep DEF ClearInv

LEMMA OrphanGone ==
    ASSUME ClearInv, SafeInv', OrderInv', NEW r \in orphans, WorkerOrphan(r)
    PROVE  ClearInv'
<1>1. r.pc = "saving" /\ RequestSafe(r) /\ r.snap.revision \in Int
  BY ClearTypes DEF SafeInv, OrphanSafe
<1>2. /\ UNCHANGED <<status, mem, durable, task, nextId, purged>> /\ orphans' \subseteq orphans
      /\ SaveAccepted(r.snap, r.expected) \/ UNCHANGED record
  BY <1>1 DEF WorkerOrphan, handleVars, SaveRefused
<1>3. CASE SaveAccepted(r.snap, r.expected)
  <2>1. Rid(r.snap)
    BY <1>3 DEF ClearInv, SaveAccepted, CasAccepts
  <2> QED BY <1>1, <1>2, <1>3, <2>1, AcceptGone
<1>4. CASE UNCHANGED record
  BY <1>2, <1>4, StillGone DEF Live
<1> QED BY <1>2, <1>3, <1>4

\* A handle that comes or goes takes its calls and requests with it.
LEMMA HandleGone ==
    ASSUME ClearInv, SafeInv', OrderInv', NEW h \in Handles,
           UNCHANGED <<record, nextId, purged>>, orphans' \subseteq orphans,
           \A k \in Handles : k # h => /\ Live(k)' <=> Live(k)
                                       /\ mem'[k] = mem[k] /\ durable'[k] = durable[k],
           \A t \in Tasks : \/ task'[t] = IdleTask
                            \/ task'[t] = task[t] /\ (task[t].pc = "idle" \/ task[t].h # h),
           Live(h)' => Rid(mem'[h])
    PROVE  ClearInv'
<1>1. IdleTask.pc = "idle" /\ IdleTask.op = "none"
  BY DEF IdleTask
<1>2. nextId <= nextId'
  BY ClearTypes
<1>3. ASSUME NEW t \in Tasks, task'[t].pc # "idle"
      PROVE  /\ task'[t] = task[t] /\ task[t].h \in Handles /\ task[t].h # h
             /\ mem'[task[t].h] = mem[task[t].h] /\ durable'[task[t].h] = durable[task[t].h]
  BY <1>1, <1>3, ClearTypes, SafeTypes
<1>4. \A t \in Tasks : Settled(task[t])' => task'[t] = task[t] /\ Settled(task[t])
  BY <1>3 DEF Settled
<1>5. \A x : IsGone(x)' => IsGone(x)
  BY <1>4 DEF IsGone
<1>6. ASSUME NEW t \in Tasks
      PROVE  ClearSafe(task[t])'
  <2>1. ClearSafe(task[t])
    BY ClearTypes
  <2>2. ASSUME task'[t].op = "clear"
        PROVE  task'[t] = task[t] /\ \A x \in task[t].ids : x < nextId'
    BY <1>1, <2>1, <2>2 DEF ClearSafe
  <2> QED BY <1>3, <2>1, <2>2 DEF ClearSafe
<1>7. ASSUME NEW k \in Handles, IsCurrent(k)'
      PROVE  Rid(mem'[k])
  <2>1. CASE k = h
    BY <1>7, <2>1 DEF IsCurrent
  <2>2. CASE k # h
    <3>1. IsCurrent(k) /\ mem'[k] = mem[k]
      BY <1>3, <1>7, <2>2 DEF IsCurrent
    <3> QED BY <3>1 DEF ClearInv
  <2> QED BY <2>1, <2>2
<1>8. ASSUME NEW t \in Tasks, task'[t].pc = "saving", task'[t].expected = record.revision
      PROVE  Rid(task'[t].snap) /\ Rid(mem'[task'[t].h])
  BY <1>3, <1>8 DEF ClearInv
<1>9. \A r \in orphans' : r.expected = record.revision => Rid(r.snap)
  BY DEF ClearInv
<1> QED BY <1>2, <1>5, <1>6, <1>7, <1>8, <1>9, GoneStep

LEMMA HandlesGone ==
    ASSUME ClearInv, SafeInv', OrderInv', NEW h \in Handles, Crash(h) \/ New(h) \/ Open(h)
    PROVE  ClearInv'
<1>1. /\ status \in [Handles -> {"none", "open", "closed"}] /\ mem \in [Handles -> Snapshot]
      /\ durable \in [Handles -> Int] /\ SafeInv
  BY ClearTypes
<1>2. UNCHANGED <<record, nextId, purged>> /\ orphans' \subseteq orphans
  BY DEF Crash, New, Open, history
<1>3. \A k \in Handles : k # h => /\ Live(k)' <=> Live(k)
                                  /\ mem'[k] = mem[k] /\ durable'[k] = durable[k]
  BY <1>1 DEF Crash, New, Open, Live
<1>4. \A t \in Tasks : \/ task'[t] = IdleTask
                       \/ task'[t] = task[t] /\ (task[t].pc = "idle" \/ task[t].h # h)
  <2>1. CASE Crash(h)
    BY <2>1 DEF Crash
  <2>2. CASE New(h) \/ Open(h)
    BY <1>1, <2>2 DEF New, Open, SafeInv, TaskSafe, Live
  <2> QED BY <2>1, <2>2
<1>5. Live(h)' => Rid(mem'[h])
  <2>1. CASE Crash(h)
    BY <1>1, <2>1 DEF Crash, Live
  <2>2. CASE New(h)
    <3>1. mem'[h] = Fresh
      BY <1>1, <2>2 DEF New, SafeInv, HandleSafe, Live
    <3>2. PendingIds(Fresh) = {}
      <4>1. DOMAIN <<>> = {}
        OBVIOUS
      <4> QED BY <4>1 DEF PendingIds, Fresh
    <3> QED BY <3>1, <3>2 DEF Rid
  <2>3. CASE Open(h)
    <3>1. mem'[h] = record
      BY <1>1, <2>3 DEF Open
    <3> QED BY <3>1 DEF ClearInv
  <2> QED BY <2>1, <2>2, <2>3
<1> QED BY <1>2, <1>3, <1>4, <1>5, HandleGone

LEMMA InitClear == SessionAssumption /\ Init => ClearInv
<1> SUFFICES ASSUME SessionAssumption, Init
             PROVE  ClearInv
  OBVIOUS
<1>1. SafeInv /\ OrderInv
  BY InitSafe, InitOrder
<1>2. /\ purged = {} /\ orphans = {} /\ \A t \in Tasks : task[t].pc = "idle" /\ task[t].op = "none"
      /\ \A h \in Handles : ~Live(h)
  BY DEF Init, IdleTask, Live
<1>3. \A s : Rid(s)
  BY <1>2 DEF Rid, IsGone, Settled
<1> QED BY <1>1, <1>2, <1>3 DEF ClearInv, ClearSafe

LEMMA NextClear ==
    SessionAssumption /\ "delete" \notin Ops /\ ClearInv /\ [Next]_vars => ClearInv'
<1> SUFFICES ASSUME SessionAssumption, "delete" \notin Ops, ClearInv, [Next]_vars
             PROVE  ClearInv'
  OBVIOUS
<1>1. SafeInv /\ TypeInv /\ SafeInv' /\ OrderInv'
  BY ClearTypes, NextSafe, NextOrder
<1>2. ASSUME NEW t \in Tasks, HostStep(t)
      PROVE  ClearInv'
  <2>1. PICK h \in Handles :
           \/ Persist(t, h) \/ Enqueue(t, h) \/ ClearPending(t, h)
           \/ SetMetadata(t, h) \/ StartRun(t, h) \/ Delete(t, h)
    BY <1>2 DEF HostStep
  <2> QED BY <1>1, <2>1, PersistGone, EnqueueMutates, ClearMutates, MetadataMutates,
             MutationGone, QuietGone, NoDeleteStep
<1>3. ASSUME NEW t \in Tasks, RunStep(t)
      PROVE  ClearInv'
  BY <1>1, <1>3, InitialMutates, TurnMutates, MutationGone, QuietGone DEF RunStep
<1>4. ASSUME NEW t \in Tasks, WorkerStep(t) \/ Resume(t) \/ Cancel(t)
      PROVE  ClearInv'
  BY <1>1, <1>4, WorkerSaveGone, GrantGone, SaveReturnsGone, QuietGone, NoDeleteStep
     DEF WorkerStep, Resume
<1>5. ASSUME NEW h \in Handles, Crash(h) \/ New(h) \/ Open(h)
      PROVE  ClearInv'
  BY <1>1, <1>5, HandlesGone
<1>6. ASSUME NEW r \in orphans, WorkerOrphan(r)
      PROVE  ClearInv'
  BY <1>1, <1>6, OrphanGone
<1>7. ASSUME Quiescent \/ UNCHANGED vars \/ \E h \in Handles : Close(h)
      PROVE  ClearInv'
  <2>1. /\ UNCHANGED <<record, mem, durable, task, nextId, purged>> /\ orphans' = orphans
        /\ \A h \in Handles : Live(h)' => Live(h)
    BY <1>7, ClearTypes DEF Quiescent, Close, vars, handleVars, history, Live
  <2> QED BY <1>1, <2>1, StillGone
<1> QED BY <1>2, <1>3, <1>4, <1>5, <1>6, <1>7 DEF Next

\* An input whose clearing clear_pending confirmed is never queued in the record again:
\* when the call returns no save that could still be accepted carries it, whether a stale
\* handle, a cancelled caller's thread or a later writer issues it (clear_pending,
\* _persist_latest, _check_cas).
THEOREM ClearedForGood ==
    ASSUME "delete" \notin Ops
    PROVE  Spec => []ClearedStaysCleared
<1>1. ClearInv => ClearedStaysCleared
  BY DEF ClearInv, Rid, IsGone, ClearedStaysCleared
<1> QED BY <1>1, InitClear, NextClear, SessionAssumption, PTL DEF Spec

=============================================================================
