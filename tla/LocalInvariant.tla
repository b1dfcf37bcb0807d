---------------------------- MODULE LocalInvariant ----------------------------
(***************************************************************************)
(* The inductive invariants behind the theorems about LocalRepository.     *)
(***************************************************************************)
EXTENDS LocalRepository

\* What the phase of a call says about its operation and its last answer.
PhaseShape(c) ==
    /\ c.pc = "idle" => c.op = "none" /\ c.answer # "unsynced"
    /\ c.pc \in {"lockShared", "read"} => c.op = "load"
    /\ c.pc \in {"write", "replace", "cleanup"} => c.op \in {"save", "load"}
    /\ c.pc = "unlink" => c.op = "delete"
    /\ c.pc \notin {"idle", "return"} => c.op # "none" /\ c.answer = "none"
    /\ c.pc = "return" => c.op # "none" /\ c.answer # "none"

\* Which lock a call holds in which phase.
LockOf(t) ==
    LET pc == call[t].pc IN
    /\ pc \in {"idle", "lock", "lockShared"} => exclusive # t /\ t \notin shared
    /\ pc = "read" => t \in shared
    /\ pc \in {"check", "write", "replace", "cleanup", "unlink", "sync"} => exclusive = t
    /\ pc = "return" => exclusive = t \/ (t \in shared /\ call[t].op = "load")

\* flock: one writer or any number of readers.
Excludes == exclusive # NoThread => shared = {}

LockInv == Excludes /\ \A t \in Threads : PhaseShape(call[t]) /\ LockOf(t)

\* What the holder of the exclusive lock checked is still so when it acts on it.
Checked(t) ==
    LET c == call[t] IN
    /\ c.pc \in {"write", "replace"} /\ c.op = "save" =>
         CasAccepts(file.revision, c.expected, c.payload.revision)
    /\ c.pc \in {"write", "replace"} /\ c.op = "load" => NeedsMigration(file)
    /\ c.pc = "unlink" => file.revision = c.expected

CheckedInv == \A t \in Threads : Checked(t)

\* Entries are ordered by the save or delete that wrote them; a writer about to
\* report success left one entry only, and confirmed ones are not after any.
DurableInv ==
    /\ \A i, j \in DOMAIN entries : i <= j => entries[i].at <= entries[j].at
    /\ file.at <= changes
    /\ ConfirmedSurvives
    /\ \A t \in Threads :
         call[t].pc = "return" /\ call[t].answer = "ok" /\ call[t].op # "load"
             => Len(entries) = 1

\* A payload that was or will be returned is older than the file, or has its ids.
Current(p) ==
    /\ p.at <= file.at
    /\ p.at = file.at => ~NeedsMigration(file) /\ p.ids = file.ids

\* The call of t has its answer, and will return it unless it dies.
Ready(t) == /\ call[t].op = "load"
            /\ call[t].pc = "sync" \/ (call[t].pc = "return" /\ call[t].answer = "ok")

Known == served \cup {call[t].payload : t \in {u \in Threads : Ready(u)}}

ServedInv ==
    /\ file.at <= changes
    /\ \A p \in Known : Current(p)
    /\ \A p, q \in Known : p.at = q.at => p.ids = q.ids

\* The temporary file exists only while its writer is about to use it.
TemporaryInv ==
    \A t \in temporary : call[t].pc \in {"replace", "cleanup"}
=============================================================================
