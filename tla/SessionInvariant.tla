-------------------------- MODULE SessionInvariant --------------------------
(***************************************************************************)
(* The inductive invariants behind the theorems about Session.  TypeInv    *)
(* and OrderInv hold for every host.  SafeInv and, on top of it, ClearInv  *)
(* are stated for hosts that never delete: a deleted record can be made    *)
(* again under the same revision numbers, and then they do not hold.       *)
(***************************************************************************)
EXTENDS Session

\* The idle task is IdleTask; a busy one is on a handle, in a phase of its own call.
ShapeOf(c) ==
    /\ c.pc = "idle" => c = IdleTask
    /\ c.pc # "idle" => c.h \in Handles
    /\ c.pc \in {"loading", "loaded", "deleting", "deleted"} => c.op = "delete"
    /\ c.pc \in {"initial", "turn", "ending"} => c.op = "run"
    /\ c.pc \in {"waiting", "saving", "saved"} => c.op # "delete"

TaskShape == \A t \in Tasks : ShapeOf(task[t])

TypeInv == TypeOK /\ TaskShape

\* new holds everything old holds, apart from the inputs in gone.
Descends(old, new, gone) ==
    /\ Ids(old) \subseteq Ids(new) \cup gone
    /\ IsPrefix(old.messages, new.messages)

RecordSafe == record.revision >= None /\ (record.revision = None => record = Absent)

\* A handle never believes more is durable than is, and where it is up to date its
\* runtime state descends from the record.
HandleSafe(h) ==
    IF Live(h)
    THEN /\ None <= durable[h] /\ durable[h] <= record.revision
         /\ 0 <= mem[h].revision /\ durable[h] <= mem[h].revision
         /\ durable[h] = record.revision => Descends(record, mem[h], cleared)
    ELSE mem[h] = Fresh /\ durable[h] = None

\* A save in flight is based on a revision the repository has or had, and where it
\* can still be accepted it descends from the record.
RequestSafe(r) ==
    /\ None <= r.expected /\ r.expected <= record.revision
    /\ r.expected < r.snap.revision
    /\ r.expected = record.revision => Descends(record, r.snap, cleared)

OrphanSafe(r) == r.pc = "saving" /\ r.h \in Handles /\ Live(r.h) /\ RequestSafe(r)

\* What a call is writing or wrote is a past state of its handle, no older than its
\* own mutation and with the input it is about ...
WriteSafe(c) ==
    /\ 0 <= c.snap.revision /\ c.snap.revision <= mem[c.h].revision
    /\ c.need <= c.snap.revision
    /\ Descends(c.snap, mem[c.h], cleared)
    /\ c.op = "steer" => c.ids \subseteq Ids(c.snap) \cup cleared

\* ... what it wrote is the record, or the record came after it ...
WrittenSafe(c) ==
    /\ c.snap.revision <= record.revision
    /\ c.snap.revision = record.revision => record = c.snap
    /\ Descends(c.snap, record, cleared)

\* ... and while it waits the runtime state has its input, as has the record once
\* the handle is durable up to the call's revision.
WaitSafe(c) ==
    /\ c.need <= mem[c.h].revision
    /\ c.op = "steer" =>
          /\ c.ids \subseteq Ids(mem[c.h]) \cup cleared
          /\ c.need <= durable[c.h] => c.ids \subseteq Ids(record) \cup cleared

TaskSafe(c) ==
    /\ c.op # "delete"
    /\ c.pc # "idle" => Live(c.h)
    /\ c.pc = "saving" => RequestSafe(c)
    /\ c.pc \in {"saving", "saved"} => WriteSafe(c)
    /\ c.pc = "saved" => WrittenSafe(c)
    /\ c.pc = "waiting" => WaitSafe(c)

\* A snapshot that covers the revision a call waits for has the input of the call.
Covers(d, c) ==
    /\ c.pc = "waiting" /\ c.op = "steer"
    /\ d.pc \in {"saving", "saved"} /\ d.h = c.h /\ c.need <= d.snap.revision
    => c.ids \subseteq Ids(d.snap) \cup cleared

SafeInv ==
    /\ TypeInv
    /\ RecordSafe
    /\ \A h \in Handles : HandleSafe(h)
    /\ \A t \in Tasks : TaskSafe(task[t])
    /\ \A t, u \in Tasks : Covers(task[u], task[t])
    /\ \A r \in orphans : OrphanSafe(r)
    /\ acked \subseteq Ids(record) \cup cleared

-----------------------------------------------------------------------------
\* The order of acceptance, for every host.

\* State s lists inputs numbered below next in order: those of the transcript, then
\* those of the queue, whose receipts bear sequence numbers handed out already.
Ordered(s, next) ==
    /\ InOrder(s.messages)
    /\ \A i \in DOMAIN s.messages : s.messages[i] < next
    /\ \A i \in DOMAIN s.pending :
          /\ 0 < s.pending[i].id /\ s.pending[i].id < next
          /\ s.pending[i].sequence <= s.sequence
          /\ \A k \in DOMAIN s.messages : s.messages[k] < s.pending[i].id
    /\ \A i, j \in DOMAIN s.pending : i < j => s.pending[i].id < s.pending[j].id

\* Until a Run has committed its message, the boundary it noted separates the inputs
\* accepted before the message from those accepted after it.
Boundary(c, s, next) ==
    /\ c.through <= s.sequence
    /\ \/ c.own = <<>>
       \/ \E id \in 1..(next - 1) :
             /\ c.own = <<id>>
             /\ \A i \in DOMAIN s.messages : s.messages[i] < id
             /\ \A i \in DOMAIN s.pending :
                   IF s.pending[i].sequence <= c.through
                   THEN s.pending[i].id < id ELSE id < s.pending[i].id

\* A Run owns its handle, so that no other one commits to its transcript.
RunOrder(t) ==
    task[t].op = "run" =>
        /\ Live(task[t].h) /\ run[task[t].h] = t
        /\ task[t].pc = "initial" => Boundary(task[t], mem[task[t].h], nextId)

OrderInv ==
    /\ TypeInv
    /\ Ordered(record, nextId)
    /\ \A h \in Handles : Ordered(mem[h], nextId)
    /\ \A t \in Tasks : Ordered(task[t].snap, nextId) /\ RunOrder(t)
    /\ \A r \in orphans : Ordered(r.snap, nextId)

-----------------------------------------------------------------------------
\* Confirmed clearing, for hosts that never delete.

\* The inputs that clear call c dropped are off the record for good: a save of its
\* handle has made a revision durable that is no older than the clearing.
Settled(c) ==
    /\ c.op = "clear" /\ c.pc \in {"waiting", "saved"}
    /\ \/ c.need <= durable[c.h]
       \/ \E u \in Tasks : /\ task[u].pc = "saved" /\ task[u].h = c.h
                           /\ c.need <= task[u].snap.revision

IsGone(x) == x \in purged \/ \E t \in Tasks : Settled(task[t]) /\ x \in task[t].ids

\* No such input is queued in state s.
Rid(s) == \A x \in PendingIds(s) : ~IsGone(x)

\* Handle h knows the revision of the record, or has a save under way that does.
IsCurrent(h) ==
    /\ Live(h)
    /\ \/ durable[h] = record.revision
       \/ \E u \in Tasks : /\ task[u].pc = "saved" /\ task[u].h = h
                           /\ task[u].snap.revision = record.revision

\* A clear call, until it returns: the inputs are out of the queue of the handle, and
\* of every snapshot of it no older than the clearing.
ClearSafe(c) ==
    c.op = "clear" =>
        /\ \A x \in c.ids : x < nextId
        /\ c.pc \in {"waiting", "saving", "saved"} =>
              /\ \A x \in PendingIds(mem[c.h]) : x \notin c.ids
              /\ \A u \in Tasks :
                    /\ task[u].pc \in {"saving", "saved"} /\ task[u].h = c.h
                    /\ c.need <= task[u].snap.revision
                    => \A x \in PendingIds(task[u].snap) : x \notin c.ids

ClearInv ==
    /\ SafeInv /\ OrderInv
    /\ \A x \in purged : x < nextId
    /\ \A t \in Tasks : ClearSafe(task[t])
    /\ Rid(record)
    /\ \A h \in Handles : IsCurrent(h) => Rid(mem[h])
    /\ \A t \in Tasks : task[t].pc = "saving" /\ task[t].expected = record.revision
                        => Rid(task[t].snap) /\ Rid(mem[task[t].h])
    /\ \A r \in orphans : r.expected = record.revision => Rid(r.snap)
=============================================================================
