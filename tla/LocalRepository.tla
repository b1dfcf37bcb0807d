--------------------------- MODULE LocalRepository ---------------------------
(***************************************************************************)
(* LocalSessionRepository (roboagent/agent/persistence.py): one session's  *)
(* JSON file, its lock file, and the worker threads that load, save and    *)
(* delete it, in any number of processes.                                  *)
(*                                                                         *)
(* The file system is external and modelled from how the code uses it:     *)
(* flock excludes between open files and is dropped when a process dies,   *)
(* os.replace and unlink change the directory at once, and until the       *)
(* directory is synchronised a power cut may take its entry back to what   *)
(* it was after any of the changes since the last synchronisation.         *)
(***************************************************************************)
EXTENDS StoredFile, Sequences, FiniteSets

CONSTANTS
    Threads,       \* worker threads, each executing at most one call
    NoThread,
    Legacy,        \* may the stored file be of an older schema?
    Disturbances,  \* what may go wrong: system calls that fail, crashes
    MaxRevision,   \* bound: revisions callers write
    MaxChanges     \* bound: after so many changes of the file only calls that read it start

ASSUME LocalAssumption ==
    /\ NoThread \notin Threads
    /\ Legacy \in BOOLEAN
    /\ Disturbances \subseteq {"write", "replace", "unlink", "sync", "crash", "power"}
    /\ MaxRevision \in Nat
    /\ MaxChanges \in Nat

VARIABLES
    entries,       \* the file's directory entry since the last directory sync, oldest first
    changes,       \* the number of changes of the entry so far
    shared,        \* threads holding the flock shared
    exclusive,     \* the thread holding it exclusively, or NoThread
    temporary,     \* live threads whose temporary file exists
    call,          \* per thread: the call it executes, and its last answer
    confirmed,     \* history: the last save or delete that returned success
    served         \* history: the payloads that loads returned

locks == <<shared, exclusive>>
history == <<confirmed, served>>
vars == <<entries, changes, locks, temporary, call, history>>

\* The entry every process sees.
file == entries[Len(entries)]

Idle == [op |-> "none", pc |-> "idle", expected |-> None, payload |-> Missing,
         answer |-> "none"]

Init ==
    /\ entries \in {<<p>> : p \in {Missing} \cup (IF Legacy THEN {OldFile} ELSE {})}
    /\ changes = 0
    /\ shared = {} /\ exclusive = NoThread
    /\ temporary = {}
    /\ call = [t \in Threads |-> Idle]
    /\ confirmed = 0
    /\ served = {}

At(t, pc) == call[t].pc = pc
Goto(t, pc) == call' = [call EXCEPT ![t].pc = pc]
Ends(t, answer) == call' = [call EXCEPT ![t].pc = "return", ![t].answer = answer]

-----------------------------------------------------------------------------
\* Calls, with the arguments a Session passes: a snapshot moves the revision
\* forward, and its messages carry ids that were stored before, or new ones.
Call(op, pc, expected, p) ==
    [op |-> op, pc |-> pc, expected |-> expected, payload |-> p, answer |-> "none"]

Begin(t, c) ==
    /\ At(t, "idle")
    /\ call' = [call EXCEPT ![t] = c]
    /\ UNCHANGED <<entries, changes, locks, temporary, history>>

BeginSave(t) ==
    /\ changes < MaxChanges
    /\ \E expected \in None..MaxRevision, revision \in 0..MaxRevision, ids \in 0..changes :
         /\ expected < revision
         /\ Begin(t, Call("save", "lock", expected, Encoded(revision, ids)))

BeginDelete(t) ==
    /\ changes < MaxChanges
    /\ \E expected \in 0..MaxRevision : Begin(t, Call("delete", "lock", expected, Missing))

BeginLoad(t) ==
    /\ changes < MaxChanges \/ ~NeedsMigration(file)
    /\ Begin(t, Call("load", "lockShared", None, Missing))

\* flock(LOCK_SH) and flock(LOCK_EX) on the lock file.
LockShared(t) ==
    /\ At(t, "lockShared")
    /\ exclusive = NoThread
    /\ shared' = shared \cup {t}
    /\ Goto(t, "read")
    /\ UNCHANGED <<entries, changes, exclusive, temporary, history>>

\* Variant: a writer does not wait for the others.
LockNothing(t) ==
    /\ At(t, "lock")
    /\ exclusive' = t
    /\ Goto(t, "check")
    /\ UNCHANGED <<entries, changes, shared, temporary, history>>

LockExclusive(t) ==
    /\ At(t, "lock")
    /\ exclusive = NoThread /\ shared = {}
    /\ exclusive' = t
    /\ Goto(t, "check")
    /\ UNCHANGED <<entries, changes, shared, temporary, history>>

\* The thread answers its caller with what it read.
Serve(t) == call' = [call EXCEPT ![t].pc = "return", ![t].answer = "ok", ![t].payload = file]

\* Variant: the payload that was read under the shared lock is the one upgraded,
\* and the file is written without another look at it.
ReadAndUpgrade(t) ==
    /\ At(t, "read")
    /\ \/ NeedsMigration(file) /\ Goto(t, "write")
       \/ ~NeedsMigration(file) /\ Serve(t)
    /\ UNCHANGED <<entries, changes, locks, temporary, history>>

\* _load under the shared lock: a legacy payload is read again under the
\* exclusive lock, and everything else is the answer.
Read(t) ==
    /\ At(t, "read")
    /\ \/ /\ NeedsMigration(file)
          /\ shared' = shared \ {t}
          /\ Goto(t, "lock")
       \/ /\ ~NeedsMigration(file)
          /\ Serve(t)
          /\ UNCHANGED shared
    /\ UNCHANGED <<entries, changes, exclusive, temporary, history>>

\* Under the exclusive lock: save and delete compare the revision in the file,
\* and load looks whether the file is still of the older schema.
Check(t) ==
    LET c == call[t]
        Accepted == CasAccepts(file.revision, c.expected, c.payload.revision) IN
    /\ At(t, "check")
    /\ \/ c.op = "save" /\ Accepted /\ Goto(t, "write")
       \/ c.op = "save" /\ ~Accepted /\ Ends(t, "conflict")
       \/ c.op = "delete" /\ file.revision = c.expected /\ Goto(t, "unlink")
       \/ c.op = "delete" /\ file.revision # c.expected /\ Ends(t, "conflict")
       \/ c.op = "load" /\ NeedsMigration(file) /\ Goto(t, "write")
       \/ c.op = "load" /\ ~NeedsMigration(file) /\ Serve(t)
    /\ UNCHANGED <<entries, changes, locks, temporary, history>>

-----------------------------------------------------------------------------
\* _write_atomic, and unlink in _delete.

\* mkstemp, write, and fsync of the temporary file: the content is on the
\* medium before the directory names it.
WriteTemporary(t) ==
    /\ At(t, "write")
    /\ temporary' = temporary \cup {t}
    /\ \/ Goto(t, "replace")
       \/ "write" \in Disturbances /\ Goto(t, "cleanup")
    /\ UNCHANGED <<entries, changes, locks, history>>

\* The thread puts p in the file's place, and keeps it if it is to return it.
Change(t, p) ==
    /\ changes' = changes + 1
    /\ entries' = Append(entries, p)
    /\ call' = [call EXCEPT ![t].pc = "sync",
                            ![t].payload = IF call[t].op = "load" THEN p ELSE @]

Replace(t) ==
    LET c == call[t] IN
    /\ At(t, "replace")
    /\ \/ /\ Change(t, IF c.op = "load" THEN Upgraded(file, changes + 1)
                                        ELSE Written(c.payload, changes + 1))
          /\ temporary' = temporary \ {t}
       \/ /\ "replace" \in Disturbances
          /\ Goto(t, "cleanup")
          /\ UNCHANGED <<entries, changes, temporary>>
    /\ UNCHANGED <<locks, history>>

\* Variant: the temporary file of a failed replacement stays.
CleanupNothing(t) ==
    /\ At(t, "cleanup")
    /\ Ends(t, "error")
    /\ UNCHANGED <<entries, changes, locks, temporary, history>>

\* The finally clause of _write_atomic, when the replacement did not happen.
Cleanup(t) ==
    /\ At(t, "cleanup")
    /\ temporary' = temporary \ {t}
    /\ Ends(t, "error")
    /\ UNCHANGED <<entries, changes, locks, history>>

Unlink(t) ==
    /\ At(t, "unlink")
    /\ \/ Change(t, Removed(changes + 1))
       \/ "unlink" \in Disturbances /\ Ends(t, "error") /\ UNCHANGED <<entries, changes>>
    /\ UNCHANGED <<locks, temporary, history>>

\* Variant: the directory is not synchronised.
SkipSync(t) ==
    /\ At(t, "sync")
    /\ Ends(t, "ok")
    /\ UNCHANGED <<entries, changes, locks, temporary, history>>

\* _fsync_directory.  After an error nothing is known of the medium.
SyncDirectory(t) ==
    /\ At(t, "sync")
    /\ \/ entries' = <<file>> /\ Ends(t, "ok")
       \/ "sync" \in Disturbances /\ Ends(t, "unsynced") /\ UNCHANGED entries
    /\ UNCHANGED <<changes, locks, temporary, history>>

\* A directory that could not be synchronised is reported like any other error.
Told(answer) == IF answer = "unsynced" THEN "error" ELSE answer

\* The lock is dropped, and the call returns or raises.
Return(t) ==
    LET c == call[t]
        loaded == c.op = "load" /\ c.answer = "ok" IN
    /\ At(t, "return")
    /\ shared' = shared \ {t}
    /\ exclusive' = IF exclusive = t THEN NoThread ELSE exclusive
    /\ call' = [call EXCEPT ![t] =
           [Idle EXCEPT !.answer = Told(c.answer), !.payload = IF loaded THEN c.payload ELSE Missing]]
    /\ confirmed' = IF c.answer = "ok" /\ c.op # "load" THEN file.at ELSE confirmed
    /\ served' = IF loaded /\ c.payload.revision # None THEN served \cup {c.payload} ELSE served
    /\ UNCHANGED <<entries, changes, temporary>>

-----------------------------------------------------------------------------
\* Crashes.

\* The process of t dies: the kernel drops its locks.  A temporary file stays
\* behind under a name no call uses again, so it is not counted any more.
Crash(t) ==
    /\ "crash" \in Disturbances
    /\ ~At(t, "idle")
    /\ shared' = shared \ {t}
    /\ exclusive' = IF exclusive = t THEN NoThread ELSE exclusive
    /\ temporary' = temporary \ {t}
    /\ call' = [call EXCEPT ![t] = Idle]
    /\ UNCHANGED <<entries, changes, history>>

\* The machine loses power: any entry since the last synchronisation may be
\* the one that is found afterwards.
PowerCut ==
    /\ "power" \in Disturbances
    /\ \E i \in DOMAIN entries : entries' = <<entries[i]>>
    /\ shared' = {} /\ exclusive' = NoThread
    /\ temporary' = {}
    /\ call' = [t \in Threads |-> Idle]
    /\ UNCHANGED <<changes, history>>

Step(t) == \/ BeginSave(t) \/ BeginDelete(t) \/ BeginLoad(t) \/ LockShared(t)
           \/ LockExclusive(t) \/ Read(t) \/ Check(t)
           \/ WriteTemporary(t) \/ Replace(t) \/ Cleanup(t) \/ Unlink(t)
           \/ SyncDirectory(t) \/ Return(t) \/ Crash(t)

Next == (\E t \in Threads : Step(t)) \/ PowerCut

Spec == Init /\ [][Next]_vars

-----------------------------------------------------------------------------
Answers == {"none", "ok", "conflict", "error", "unsynced"}

Phases == {"idle", "lockShared", "read", "lock", "check", "write", "replace", "cleanup",
           "unlink", "sync", "return"}

CallState == [op: {"none", "load", "save", "delete"}, pc: Phases,
              expected: Int, payload: Payload, answer: Answers]

TypeOK ==
    /\ entries \in Seq(Payload) /\ entries # <<>>
    /\ changes \in Nat
    /\ shared \subseteq Threads
    /\ exclusive \in Threads \cup {NoThread}
    /\ temporary \subseteq Threads
    /\ call \in [Threads -> CallState]
    /\ confirmed \in Nat
    /\ served \subseteq Payload

\* A save or delete that returned success survives a power cut, however other
\* threads, their failures and their crashes are interleaved with it: no entry
\* the medium may still come back with is older (save, delete, _write_atomic).
ConfirmedSurvives == \A i \in DOMAIN entries : entries[i].at >= confirmed

\* Two loads that return what the same save wrote return the same message ids:
\* those of a legacy file are allocated once (_load's second read).
OneIdentity == \A p, q \in served : p.at = q.at => p.ids = q.ids

\* A call that ended, in whatever way, left neither its temporary file nor its
\* lock behind (the finally clauses of _load, _save, _delete, _write_atomic).
NothingLeft ==
    \A t \in Threads : At(t, "idle") => t \notin temporary \cup shared \cup {exclusive}

-----------------------------------------------------------------------------
\* How a call looks to its caller, and when it took effect: when the directory
\* entry changed, or when the file was read under a lock.
Stage(c) ==
    CASE c.pc = "idle" -> "idle"
      [] c.pc = "sync" \/ (c.pc = "return" /\ c.answer \in {"ok", "unsynced"}) -> "applied"
      [] c.pc = "return" /\ c.answer = "conflict" -> "refused"
      [] OTHER -> "called"

Seen(c) == [op |-> c.op, stage |-> Stage(c), expected |-> c.expected,
            payload |-> c.payload,
            answer |-> IF c.pc = "idle" THEN c.answer ELSE "none"]

Atomic == INSTANCE AtomicRepository WITH record <- file, changes <- changes,
                                         request <- [t \in Threads |-> Seen(call[t])]

\* Without power cuts, whatever else fails or dies, the threads of all processes
\* together behave like one repository whose calls are atomic.
Linearizable == Atomic!Spec
=============================================================================
