------------------------------- MODULE Session -------------------------------
(***************************************************************************)
(* A persistent Session (roboagent/agent/session.py): runtime handles,     *)
(* their pending-input queue and transcript, one active Run per handle,    *)
(* and the persistence protocol against a compare-and-swap repository.     *)
(*                                                                         *)
(* A handle lives on one event loop, and no code of it suspends between    *)
(* taking a state lock (queue, transcript, compaction) and releasing it:   *)
(* a lock section is one atomic step.  Only _persist_lock is held across   *)
(* an await, while a worker thread executes the repository call.  So a     *)
(* call is a task that mutates the handle, waits for the persist lock,     *)
(* issues a save of the LATEST state, and resumes when the thread is done. *)
(***************************************************************************)
EXTENDS SessionRepository, FiniteSets

CONSTANTS
    Handles,      \* runtime handles on one session id, each in its own process
    Tasks,        \* host tasks and Run tasks, each awaiting one call at a time
    NoTask,
    Ops,          \* the operations the hosts perform
    Faults,       \* how a write may fail: "before" or "after" it took effect
    MaxId,        \* bound: user messages accepted, over all handles
    MaxRevision   \* bound: _runtime_revision of a handle

AllOps == {"new", "open", "crash", "steer", "clear", "persist", "metadata", "run",
           "close", "delete", "cancel"}

ASSUME SessionAssumption ==
    /\ NoTask \notin Tasks
    /\ Ops \subseteq AllOps
    /\ Faults \subseteq {"before", "after"}
    /\ MaxId \in Nat
    /\ MaxRevision \in Nat

VARIABLES
    status,       \* per handle: "none" (no such object), "open" or "closed"
    mem,          \* per handle: the runtime state, shaped as the snapshot of it
    durable,      \* per handle: _durable_revision
    run,          \* per handle: the task of the active Run (_active_run_id)
    holder,       \* per handle: the task holding _persist_lock
    task,         \* per task: the call it is in
    orphans,      \* repository calls whose awaiting task was cancelled
    nextId,       \* history: identity of the next user message
    acked,        \* history: inputs whose receipt reached the caller
    cleared,      \* history: inputs dropped by clear_pending
    purged,       \* history: inputs whose clearing was confirmed to the caller
    dropped,      \* history: inputs accepted before a delete took effect
    buried        \* history: a delete() returned and no new handle was made since

handleVars == <<status, mem, durable, run, holder>>
history    == <<acked, cleared, purged, dropped, buried>>
vars == <<record, handleVars, task, orphans, nextId, history>>

IdleTask == [op |-> "none", pc |-> "idle", h |-> NoTask, ids |-> {},
             need |-> 0, own |-> <<>>, through |-> 0, snap |-> Absent, expected |-> None]

Fresh == [revision |-> 0, sequence |-> 0, messages |-> <<>>, pending |-> <<>>]

PendingIds(s) == {s.pending[i].id : i \in DOMAIN s.pending}
PendingMessages(items) == [i \in DOMAIN items |-> items[i].id]

Idle(t) == task[t].pc = "idle"
Live(h) == status[h] # "none"

Call(op, h, ids) == [IdleTask EXCEPT !.op = op, !.h = h, !.ids = ids]

Init ==
    /\ record = Absent
    /\ status = [h \in Handles |-> "none"]
    /\ mem = [h \in Handles |-> Fresh]
    /\ durable = [h \in Handles |-> None]
    /\ run = [h \in Handles |-> NoTask]
    /\ holder = [h \in Handles |-> NoTask]
    /\ task = [t \in Tasks |-> IdleTask]
    /\ orphans = {}
    /\ nextId = 1
    /\ acked = {} /\ cleared = {} /\ purged = {} /\ dropped = {}
    /\ buried = FALSE

-----------------------------------------------------------------------------
\* Persistence: _persist_required, _persist_latest, snapshot.

\* Variant: the writer names whatever revision the repository has now.
SaveOverCurrent(c, s) ==
    [c EXCEPT !.pc = "saving", !.snap = s, !.expected = record.revision]

\* The call c of task t issues repository.save of state s; the lock is taken.
Save(c, s) ==
    [c EXCEPT !.pc = "saving", !.snap = s, !.expected = durable[c.h]]

\* A mutation of handle h to state s by call c, and the entry of its persist:
\* with the lock free it snapshots at once, else it waits behind the holder.
MutateAndPersist(t, c, s) ==
    LET need == [c EXCEPT !.need = s.revision] IN
    /\ mem' = [mem EXCEPT ![c.h] = s]
    /\ \/ /\ holder[c.h] = NoTask
          /\ holder' = [holder EXCEPT ![c.h] = t]
          /\ task' = [task EXCEPT ![t] = Save(need, s)]
       \/ /\ holder[c.h] # NoTask
          /\ task' = [task EXCEPT ![t] = [need EXCEPT !.pc = "waiting"]]
          /\ UNCHANGED holder
    /\ UNCHANGED <<record, status, durable, orphans>>

\* The public call returns to its caller; a Run goes on with its turn.
Returned(c) == IF c.op = "run" THEN [c EXCEPT !.pc = "turn"] ELSE IdleTask
Raised(c)   == IF c.op = "run" THEN [c EXCEPT !.pc = "ending"] ELSE IdleTask

Confirm(c) ==
    /\ acked' = IF c.op = "steer" THEN acked \cup c.ids ELSE acked
    /\ purged' = IF c.op = "clear" THEN purged \cup c.ids ELSE purged
    /\ UNCHANGED <<cleared, dropped, buried>>

\* Variant: any earlier save of the handle counts as covering the call.
GrantOnAnySave(t) ==
    LET c == task[t] IN
    /\ c.pc = "waiting"
    /\ holder[c.h] = NoTask
    /\ \/ /\ durable[c.h] # None
          /\ task' = [task EXCEPT ![t] = Returned(c)]
          /\ Confirm(c)
          /\ UNCHANGED holder
       \/ /\ durable[c.h] = None
          /\ holder' = [holder EXCEPT ![c.h] = t]
          /\ task' = [task EXCEPT ![t] = Save(c, mem[c.h])]
          /\ UNCHANGED history
    /\ UNCHANGED <<record, status, mem, durable, run, orphans, nextId>>

\* A waiter gets the lock.  It returns at once when a save in the meantime
\* covered its revision, and otherwise saves the latest runtime state.
Grant(t) ==
    LET c == task[t] IN
    /\ c.pc = "waiting"
    /\ holder[c.h] = NoTask
    /\ \/ /\ durable[c.h] >= c.need
          /\ task' = [task EXCEPT ![t] = Returned(c)]
          /\ Confirm(c)
          /\ UNCHANGED holder
       \/ /\ durable[c.h] < c.need
          /\ holder' = [holder EXCEPT ![c.h] = t]
          /\ task' = [task EXCEPT ![t] = Save(c, mem[c.h])]
          /\ UNCHANGED history
    /\ UNCHANGED <<record, status, mem, durable, run, orphans, nextId>>

\* The worker thread runs LocalSessionRepository._save.  A write that fails
\* "after" has replaced the file before the directory fsync raised.
WorkerSave(t) ==
    LET c == task[t]
        Ends(pc) == task' = [task EXCEPT ![t].pc = pc] IN
    /\ c.pc = "saving"
    /\ \/ SaveAccepted(c.snap, c.expected) /\ Ends("saved")
       \/ SaveRefused(c.snap, c.expected) /\ Ends("refused")
       \/ "after" \in Faults /\ SaveAccepted(c.snap, c.expected) /\ Ends("failed")
       \/ "before" \in Faults /\ UNCHANGED record /\ Ends("failed")
    /\ UNCHANGED <<handleVars, orphans, nextId, history>>

SaveReturns(t) ==
    LET c == task[t] IN
    /\ c.pc = "saved"
    /\ durable' = [durable EXCEPT ![c.h] = c.snap.revision]
    /\ holder' = [holder EXCEPT ![c.h] = NoTask]
    /\ task' = [task EXCEPT ![t] = Returned(c)]
    /\ Confirm(c)
    /\ UNCHANGED <<record, status, mem, run, orphans, nextId>>

\* Variant: the failing path leaves the lock held.
SaveRaisesHoldingLock(t) ==
    LET c == task[t] IN
    /\ c.pc \in {"refused", "failed"} /\ c.op # "delete"
    /\ task' = [task EXCEPT ![t] = Raised(c)]
    /\ UNCHANGED <<record, handleVars, orphans, nextId, history>>

\* SessionPersistenceError reaches the caller; the runtime state stays as it is.
SaveRaises(t) ==
    LET c == task[t] IN
    /\ c.pc \in {"refused", "failed"} /\ c.op # "delete"
    /\ holder' = [holder EXCEPT ![c.h] = NoTask]
    /\ task' = [task EXCEPT ![t] = Raised(c)]
    /\ UNCHANGED <<record, status, mem, durable, run, orphans, nextId, history>>

\* persist(): no mutation; a durable revision that is current needs no save.
Persist(t, h) ==
    LET c == [Call("persist", h, {}) EXCEPT !.need = mem[h].revision] IN
    /\ "persist" \in Ops
    /\ Idle(t) /\ Live(h)
    /\ \/ /\ holder[h] # NoTask
          /\ task' = [task EXCEPT ![t] = [c EXCEPT !.pc = "waiting"]]
          /\ UNCHANGED holder
       \/ /\ holder[h] = NoTask
          /\ durable[h] < c.need
          /\ holder' = [holder EXCEPT ![h] = t]
          /\ task' = [task EXCEPT ![t] = Save(c, mem[h])]
    /\ UNCHANGED <<record, status, mem, durable, run, orphans, nextId, history>>

-----------------------------------------------------------------------------
\* The pending-input queue: steer and follow_up, clear_pending.

\* State s with one more input, whose receipt takes the next sequence number.
Queued(s, id) ==
    [revision |-> s.revision + 1,
     sequence |-> s.sequence + 1,
     messages |-> s.messages,
     pending  |-> Append(s.pending, [id |-> id, sequence |-> s.sequence + 1])]

Emptied(s) ==
    [revision |-> s.revision + 1, sequence |-> s.sequence,
     messages |-> s.messages, pending |-> <<>>]

Enqueue(t, h) ==
    /\ "steer" \in Ops
    /\ Idle(t) /\ status[h] = "open"
    /\ nextId <= MaxId /\ mem[h].revision < MaxRevision
    /\ MutateAndPersist(t, Call("steer", h, {nextId}), Queued(mem[h], nextId))
    /\ nextId' = nextId + 1
    /\ UNCHANGED <<run, history>>

\* An empty queue is the early return of clear_pending: nothing changes.
ClearPending(t, h) ==
    /\ "clear" \in Ops
    /\ Idle(t) /\ Live(h) /\ run[h] = NoTask
    /\ mem[h].pending # <<>> /\ mem[h].revision < MaxRevision
    /\ MutateAndPersist(t, Call("clear", h, PendingIds(mem[h])), Emptied(mem[h]))
    /\ cleared' = cleared \cup PendingIds(mem[h])
    /\ UNCHANGED <<run, nextId, acked, purged, dropped, buried>>

\* A change of state the properties do not look into: metadata, compaction.
Touched(s) == [revision |-> s.revision + 1, sequence |-> s.sequence,
               messages |-> s.messages, pending |-> s.pending]

\* set_metadata: allowed in every state of the handle.
SetMetadata(t, h) ==
    /\ "metadata" \in Ops
    /\ Idle(t) /\ Live(h)
    /\ mem[h].revision < MaxRevision
    /\ MutateAndPersist(t, Call("metadata", h, {}), Touched(mem[h]))
    /\ UNCHANGED <<run, nextId, history>>

-----------------------------------------------------------------------------
\* A Run's use of the Session: start, initial commit, turns, release.

\* start(): acquires ownership and notes the queue boundary, synchronously.
\* The initial message is optional.
StartRun(t, h) ==
    /\ "run" \in Ops
    /\ Idle(t) /\ status[h] = "open" /\ run[h] = NoTask
    /\ run' = [run EXCEPT ![h] = t]
    /\ \E own \in {<<>>, <<nextId>>} :
        /\ own = <<>> \/ nextId <= MaxId
        /\ nextId' = nextId + Len(own)
        /\ task' = [task EXCEPT ![t] = [Call("run", h, {}) EXCEPT
                                           !.pc = "initial",
                                           !.own = own,
                                           !.through = mem[h].sequence]]
    /\ UNCHANGED <<record, status, mem, durable, holder, orphans, history>>

\* The first count queued inputs and a block of facts move into the transcript.
Committed(s, count, facts) ==
    [revision |-> s.revision + 1,
     sequence |-> s.sequence,
     messages |-> s.messages \o PendingMessages(SubSeq(s.pending, 1, count)) \o facts,
     pending  |-> SubSeq(s.pending, count + 1, Len(s.pending))]

\* Variant: the boundary is ignored and the whole queue precedes the message.
WithinAll(items, through, count) == count = Len(items)

\* The first count items are those within the boundary captured by start().
Within(items, through, count) ==
    /\ \A i \in 1..count : items[i].sequence <= through
    /\ count < Len(items) => items[count + 1].sequence > through

\* _commit_initial_input: earlier inputs, then the Run's own message, if any.
CommitInitial(t) ==
    LET c == task[t]
        s == mem[c.h] IN
    /\ c.pc = "initial"
    /\ s.revision < MaxRevision
    /\ \E count \in 0..Len(s.pending) :
        /\ Within(s.pending, c.through, count)
        /\ \/ /\ count > 0 \/ c.own # <<>>
              /\ MutateAndPersist(t, c, Committed(s, count, c.own))
           \/ /\ count = 0 /\ c.own = <<>>
              /\ task' = [task EXCEPT ![t].pc = "turn"]
              /\ UNCHANGED <<record, status, mem, durable, holder, orphans>>
    /\ UNCHANGED <<run, nextId, history>>

\* consume_pending at a turn boundary; an empty queue changes nothing.
ConsumePending(t) ==
    LET c == task[t]
        s == mem[c.h] IN
    /\ c.pc = "turn"
    /\ s.pending # <<>> /\ s.revision < MaxRevision
    /\ MutateAndPersist(t, c, Committed(s, Len(s.pending), <<>>))
    /\ UNCHANGED <<run, nextId, history>>

\* commit_message and commit_exchange: a block of facts without user input.
CommitFacts(t) ==
    LET c == task[t]
        s == mem[c.h] IN
    /\ c.pc = "turn"
    /\ s.revision < MaxRevision
    /\ MutateAndPersist(t, c, Committed(s, 0, <<Reply>>))
    /\ UNCHANGED <<run, nextId, history>>

\* commit_compaction: the Run that prepared the summary is the only one to commit
\* one, so the digest it started from is current and the update is accepted.
CommitCompaction(t) ==
    LET c == task[t]
        s == mem[c.h] IN
    /\ c.pc = "turn"
    /\ s.revision < MaxRevision
    /\ MutateAndPersist(t, c, Touched(s))
    /\ UNCHANGED <<run, nextId, history>>

\* Ownership ends on every path: completion, failure, or cancellation, which
\* raise_if_cancelled reports before the initial commit changes anything.
ReleaseRun(t) ==
    LET c == task[t] IN
    /\ c.pc \in {"initial", "turn", "ending"}
    /\ run' = [run EXCEPT ![c.h] = NoTask]
    /\ task' = [task EXCEPT ![t] = IdleTask]
    /\ UNCHANGED <<record, status, mem, durable, holder, orphans, nextId, history>>

-----------------------------------------------------------------------------
\* close and delete.

Close(h) ==
    /\ "close" \in Ops
    /\ status[h] = "open" /\ run[h] = NoTask
    /\ status' = [status EXCEPT ![h] = "closed"]
    /\ UNCHANGED <<record, mem, durable, run, holder, task, orphans, nextId, history>>

\* delete() closes the handle and asks the repository for the deletion of the
\* revision it knows; without one it looks the record up first.
Delete(t, h) ==
    LET c == Call("delete", h, {}) IN
    /\ "delete" \in Ops
    /\ Idle(t) /\ Live(h) /\ run[h] = NoTask
    /\ \/ /\ durable[h] = None
          /\ task' = [task EXCEPT ![t] = [c EXCEPT !.pc = "loading"]]
          /\ UNCHANGED status
       \/ /\ durable[h] # None
          /\ status' = [status EXCEPT ![h] = "closed"]
          /\ task' = [task EXCEPT ![t] = [c EXCEPT !.pc = "deleting",
                                                  !.expected = durable[h]]]
    /\ UNCHANGED <<record, mem, durable, run, holder, orphans, nextId, history>>

WorkerLoad(t) ==
    /\ task[t].pc = "loading"
    /\ task' = [task EXCEPT ![t].pc = "loaded", ![t].expected = record.revision]
    /\ UNCHANGED <<record, handleVars, orphans, nextId, history>>

\* close() refuses while a Run became active; an absent record needs no delete.
DeleteLoaded(t) ==
    LET c == task[t] IN
    /\ c.pc = "loaded"
    /\ \/ /\ run[c.h] # NoTask
          /\ task' = [task EXCEPT ![t] = IdleTask]
          /\ UNCHANGED <<status, buried>>
       \/ /\ run[c.h] = NoTask
          /\ status' = [status EXCEPT ![c.h] = "closed"]
          /\ \/ /\ c.expected = None
                /\ task' = [task EXCEPT ![t] = IdleTask]
                /\ buried' = TRUE
             \/ /\ c.expected # None
                /\ task' = [task EXCEPT ![t].pc = "deleting"]
                /\ UNCHANGED buried
    /\ UNCHANGED <<record, mem, durable, run, holder, orphans, nextId,
                   acked, cleared, purged, dropped>>

\* LocalSessionRepository._delete in the worker thread.
WorkerDelete(t) ==
    LET c == task[t]
        Ends(pc) == task' = [task EXCEPT ![t].pc = pc]
        Drop == dropped' = dropped \cup 1..(nextId - 1) IN
    /\ c.pc = "deleting"
    /\ \/ DeleteAccepted(c.expected) /\ Ends("deleted") /\ Drop
       \/ DeleteRefused(c.expected) /\ Ends("refused") /\ UNCHANGED dropped
       \/ "after" \in Faults /\ DeleteAccepted(c.expected) /\ Ends("failed") /\ Drop
       \/ "before" \in Faults /\ UNCHANGED <<record, dropped>> /\ Ends("failed")
    /\ UNCHANGED <<handleVars, orphans, nextId, acked, cleared, purged, buried>>

DeleteReturns(t) ==
    LET c == task[t] IN
    /\ c.pc = "deleted"
    /\ durable' = [durable EXCEPT ![c.h] = None]
    /\ task' = [task EXCEPT ![t] = IdleTask]
    /\ buried' = TRUE
    /\ UNCHANGED <<record, status, mem, run, holder, orphans, nextId,
                   acked, cleared, purged, dropped>>

DeleteRaises(t) ==
    LET c == task[t] IN
    /\ c.op = "delete" /\ c.pc \in {"refused", "failed"}
    /\ task' = [task EXCEPT ![t] = IdleTask]
    /\ UNCHANGED <<record, handleVars, orphans, nextId, history>>

-----------------------------------------------------------------------------
\* The environment: cancellation of the awaiting task, process death, reopening.

\* What the worker thread still has of a call.
Request(c) == [IdleTask EXCEPT !.pc = c.pc, !.h = c.h, !.snap = c.snap,
                               !.expected = c.expected]

\* A cancelled await leaves the persist lock and forgets the result, but the
\* worker thread behind asyncio.to_thread still executes its request.
Cancel(t) ==
    LET c == task[t] IN
    /\ "cancel" \in Ops
    /\ c.op \notin {"none", "run"}
    /\ task' = [task EXCEPT ![t] = IdleTask]
    /\ orphans' = orphans \cup (IF c.pc \in {"saving", "deleting"} THEN {Request(c)} ELSE {})
    /\ holder' = IF holder[c.h] = t THEN [holder EXCEPT ![c.h] = NoTask] ELSE holder
    /\ UNCHANGED <<record, status, mem, durable, run, nextId, history>>

WorkerOrphan(c) ==
    /\ \/ /\ c.pc = "saving"
          /\ \/ SaveAccepted(c.snap, c.expected)
             \/ SaveRefused(c.snap, c.expected)
          /\ UNCHANGED dropped
       \/ /\ c.pc = "deleting"
          /\ \/ DeleteAccepted(c.expected) /\ dropped' = dropped \cup 1..(nextId - 1)
             \/ DeleteRefused(c.expected) /\ UNCHANGED dropped
    /\ orphans' = orphans \ {c}
    /\ UNCHANGED <<handleVars, task, nextId, acked, cleared, purged, buried>>

\* The process of h dies: the handle, its tasks and its worker threads with it.
Crash(h) ==
    /\ "crash" \in Ops
    /\ Live(h)
    /\ status' = [status EXCEPT ![h] = "none"]
    /\ mem' = [mem EXCEPT ![h] = Fresh]
    /\ durable' = [durable EXCEPT ![h] = None]
    /\ run' = [run EXCEPT ![h] = NoTask]
    /\ holder' = [holder EXCEPT ![h] = NoTask]
    /\ task' = [t \in Tasks |-> IF task[t].h = h THEN IdleTask ELSE task[t]]
    /\ orphans' = {c \in orphans : c.h # h}
    /\ UNCHANGED <<record, nextId, history>>

\* Session(...): a handle that knows of no record under its id.
New(h) ==
    /\ "new" \in Ops
    /\ status[h] = "none"
    /\ status' = [status EXCEPT ![h] = "open"]
    /\ buried' = FALSE
    /\ UNCHANGED <<record, mem, durable, run, holder, task, orphans, nextId,
                   acked, cleared, purged, dropped>>

\* Session.open: load and restore.  Nothing sees the handle between the two, so
\* a load that is stale by then is this step followed by idleness.
Open(h) ==
    /\ "open" \in Ops
    /\ status[h] = "none" /\ record # Absent
    /\ status' = [status EXCEPT ![h] = "open"]
    /\ mem' = [mem EXCEPT ![h] = record]
    /\ durable' = [durable EXCEPT ![h] = record.revision]
    /\ UNCHANGED <<record, run, holder, task, orphans, nextId, history>>

\* Every call has returned; a host may stop here.
Quiescent ==
    /\ \A t \in Tasks : Idle(t)
    /\ UNCHANGED vars

HostStep(t) ==
    \E h \in Handles :
        \/ Persist(t, h) \/ Enqueue(t, h) \/ ClearPending(t, h)
        \/ SetMetadata(t, h) \/ StartRun(t, h) \/ Delete(t, h)

RunStep(t) ==
    \/ CommitInitial(t) \/ ConsumePending(t) \/ CommitFacts(t)
    \/ CommitCompaction(t) \/ ReleaseRun(t)

WorkerStep(t) == WorkerSave(t) \/ WorkerLoad(t) \/ WorkerDelete(t)

Resume(t) ==
    \/ Grant(t) \/ SaveReturns(t) \/ SaveRaises(t)
    \/ DeleteLoaded(t) \/ DeleteReturns(t) \/ DeleteRaises(t)

Next ==
    \/ \E t \in Tasks : HostStep(t) \/ RunStep(t) \/ WorkerStep(t) \/ Resume(t)
                         \/ Cancel(t)
    \/ \E c \in orphans : WorkerOrphan(c)
    \/ \E h \in Handles : Close(h) \/ Crash(h) \/ New(h) \/ Open(h)
    \/ Quiescent

Spec == Init /\ [][Next]_vars

\* Worker threads finish, the event loop resumes every task it can, a Run leaves
\* its turns (max_turns bounds them), and the persist lock, whose waiters queue
\* first in first out, reaches each of them.
LiveSpec ==
    /\ Spec
    /\ \A t \in Tasks : WF_vars(WorkerStep(t)) /\ WF_vars(Resume(t))
                         /\ WF_vars(ReleaseRun(t)) /\ SF_vars(Grant(t))

-----------------------------------------------------------------------------
\* Properties.

Pcs == {"idle", "waiting", "saving", "saved", "refused", "failed", "initial",
        "turn", "ending", "loading", "loaded", "deleting", "deleted"}

TaskState == [op: AllOps \cup {"none"}, pc: Pcs,
              h: Handles \cup {NoTask}, ids: SUBSET Nat, need: Int, own: Seq(Nat),
              through: Nat, snap: Snapshot, expected: Int]

Types ==
    /\ record \in Snapshot
    /\ status \in [Handles -> {"none", "open", "closed"}]
    /\ mem \in [Handles -> Snapshot]
    /\ durable \in [Handles -> Int]
    /\ run \in [Handles -> Tasks \cup {NoTask}]
    /\ holder \in [Handles -> Tasks \cup {NoTask}]
    /\ task \in [Tasks -> TaskState]
    /\ orphans \subseteq TaskState
    /\ nextId \in Nat \ {0}
    /\ acked \subseteq Nat /\ cleared \subseteq Nat
    /\ purged \subseteq Nat /\ dropped \subseteq Nat
    /\ buried \in BOOLEAN

\* Call c is in the save for which it holds the persist lock of h.
SavesOn(c, h) ==
    /\ c.h = h /\ c.op # "delete"
    /\ c.pc \in {"saving", "saved", "refused", "failed"}

HoldersSave ==
    \A h \in Handles : holder[h] # NoTask => SavesOn(task[holder[h]], h)

OwnersRun ==
    \A h \in Handles : run[h] # NoTask =>
        /\ task[run[h]].h = h
        /\ task[run[h]].op = "run"

\* Type correctness; the persist lock and the ownership of a handle are held only
\* by a task that is in a save, or in a Run, on that very handle.
TypeOK == Types /\ HoldersSave /\ OwnersRun

\* An input whose receipt was returned by steer or follow_up is in the durable
\* record, queued or committed, until a clear_pending or a delete takes it out:
\* failed saves, cancelled callers, crashes and competing handles lose nothing.
AckedInputsDurable == acked \subseteq Ids(record) \cup cleared \cup dropped

\* An input whose clearing clear_pending confirmed is never queued again in the
\* durable record, whatever stale saves are still under way.
ClearedStaysCleared == purged \cap PendingIds(record) = {}

InOrder(ids) ==
    \A i, j \in DOMAIN ids :
        i < j /\ ids[i] # Reply /\ ids[j] # Reply => ids[i] < ids[j]

\* In every state, in memory and on disk, the transcript followed by the queue
\* lists the user messages in the order they were accepted, each at most once:
\* inputs that predate start() come before the Run's message, later ones after.
AcceptanceOrder ==
    \A s \in {record} \cup {mem[h] : h \in Handles} :
        InOrder(s.messages \o PendingMessages(s.pending))

IsPrefix(a, b) == Len(a) <= Len(b) /\ \A i \in 1..Len(a) : b[i] = a[i]

\* A call that mutated its handle returns normally only when the durable record has
\* reached the revision of that mutation, by its own save or by a later one that
\* overtook it while it waited for the lock.  On a closed handle a delete() may have
\* taken the record away under the call.
ReturnMeansDurable ==
    [][\A t \in Tasks :
          SaveReturns(t) \/ (Grant(t) /\ task'[t].pc # "saving")
              => \/ record.revision >= task[t].need
                 \/ status[task[t].h] = "closed"]_vars

\* A save never loses what an earlier save made durable: the stored revision only
\* rises, the stored transcript only grows at its end, and no input leaves the
\* record uncleared (no lost update, no last-write-wins between handles).
StoredHistoryGrows ==
    [][record # Absent /\ record' # Absent /\ record' # record =>
          /\ record'.revision > record.revision
          /\ Ids(record) \subseteq Ids(record') \cup cleared
          /\ IsPrefix(record.messages, record'.messages)]_vars

\* A handle that is the only writer and knows a revision is never refused: after a
\* failed save the next one names the revision the repository really has.  Not so when the
\* directory sync fails after the replacement (persistence.py:449): no run checks it.
SoleWriterNeverRefused ==
    \A t \in Tasks : task[t].pc = "refused" /\ task[t].op # "delete"
                      => task[t].expected = None

\* Where clear_pending would return at once because the queue in memory is empty,
\* and no call is under way, no input it dropped is still queued on disk.  Not so after a
\* failed save (session.py:397, 380): no run checks it.
ClearingIsDurable ==
    \A h \in Handles :
        Live(h) /\ mem[h].pending = <<>> /\ (\A t \in Tasks : task[t].h # h)
            => PendingIds(record) \cap cleared = {}

\* After delete() has returned no record exists until a new Session is made.
DeletedStaysDeleted == buried => record = Absent

\* Every call returns or raises: no cancellation, failure or crash leaves the
\* persist lock held or a Run's ownership taken.
CallsReturn == \A t \in Tasks : ~Idle(t) ~> Idle(t)
=============================================================================
