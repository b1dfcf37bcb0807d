----------------------------- MODULE LocalProofs -----------------------------
(***************************************************************************)
(* Theorems about LocalRepository, for every number of threads, revisions  *)
(* and changes.                                                            *)
(***************************************************************************)
EXTENDS LocalInvariant, TLAPS

\* What Append and a singleton do to the entry that everybody sees.
LEMMA AppendFile ==
    ASSUME NEW S, NEW s \in Seq(S), NEW x \in S
    PROVE  /\ Append(s, x) \in Seq(S)
           /\ Append(s, x) # <<>>
           /\ Len(Append(s, x)) = Len(s) + 1
           /\ Append(s, x)[Len(Append(s, x))] = x
           /\ \A i \in 1..Len(s) : Append(s, x)[i] = s[i]
OBVIOUS

LEMMA SingleFile ==
    ASSUME NEW S, NEW x \in S
    PROVE  /\ <<x>> \in Seq(S)
           /\ <<x>> # <<>>
           /\ Len(<<x>>) = 1
           /\ <<x>>[1] = x
           /\ DOMAIN <<x>> = {1}
OBVIOUS

LEMMA FileTyped ==
    ASSUME NEW S, NEW s \in Seq(S), s # <<>>
    PROVE  /\ Len(s) \in Nat \ {0}
           /\ DOMAIN s = 1..Len(s)
           /\ s[Len(s)] \in S
           /\ \A i \in 1..Len(s) : s[i] \in S
OBVIOUS

\* The payloads that changes of the file put there.
LEMMA PayloadsTyped ==
    /\ None \in Int
    /\ Missing \in Payload /\ OldFile \in Payload
    /\ Missing.revision = None /\ Missing.at = 0 /\ OldFile.at = 0
    /\ ~NeedsMigration(Missing)
BY DEF Missing, OldFile, Payload, NeedsMigration, SchemaVersion, None

LEMMA WrittenTyped ==
    ASSUME NEW n \in Nat, NEW p \in Payload
    PROVE  /\ Written(p, n) \in Payload
           /\ Written(p, n).at = n
           /\ Written(p, n).revision = p.revision
BY DEF Written, Payload

LEMMA RemovedTyped ==
    ASSUME NEW n \in Nat
    PROVE  /\ Removed(n) \in Payload
           /\ Removed(n).at = n
           /\ ~NeedsMigration(Removed(n))
BY DEF Removed, Missing, Payload, NeedsMigration, SchemaVersion, None

LEMMA UpgradedTyped ==
    ASSUME NEW n \in Nat, NEW p \in Payload
    PROVE  /\ Upgraded(p, n) \in Payload
           /\ Upgraded(p, n).at = p.at
           /\ Upgraded(p, n).ids = n
           /\ ~NeedsMigration(Upgraded(p, n))
BY DEF Upgraded, Payload, NeedsMigration, SchemaVersion

LEMMA IdleTyped == Idle \in CallState
BY PayloadsTyped DEF Idle, CallState, Phases, Answers

-----------------------------------------------------------------------------
\* Type correctness.

LEMMA TypeInit == ASSUME LocalAssumption, Init PROVE TypeOK
<1>1. PICK p \in Payload : entries = <<p>>
  BY PayloadsTyped DEF Init
<1>2. entries \in Seq(Payload) /\ entries # <<>>
  BY <1>1, SingleFile
<1>3. call \in [Threads -> CallState]
  BY IdleTyped DEF Init
<1>. QED
  BY <1>2, <1>3, LocalAssumption DEF Init, TypeOK, LocalAssumption

\* Every call a thread begins is of the right shape.
LEMMA BeginTyped ==
    ASSUME LocalAssumption, TypeOK, NEW t \in Threads,
           BeginSave(t) \/ BeginDelete(t) \/ BeginLoad(t)
    PROVE  \E c \in CallState :
              /\ Begin(t, c)
              /\ c.op # "none" /\ c.answer = "none"
              /\ c.pc = "lock" \/ (c.pc = "lockShared" /\ c.op = "load")
<1>1. \A op \in {"load", "save", "delete"}, pc \in {"lock", "lockShared"}, e \in Int, p \in Payload :
          /\ Call(op, pc, e, p) \in CallState
          /\ Call(op, pc, e, p).answer = "none"
          /\ Call(op, pc, e, p).pc = pc /\ Call(op, pc, e, p).op = op
  BY DEF Call, CallState, Phases, Answers
<1>2. CASE BeginSave(t)
  <2>1. PICK e \in None..MaxRevision, r \in 0..MaxRevision, i \in 0..changes :
            Begin(t, Call("save", "lock", e, Encoded(r, i)))
    BY <1>2 DEF BeginSave
  <2>2. e \in Int /\ r \in Int /\ i \in Nat
    BY LocalAssumption, PayloadsTyped DEF LocalAssumption, TypeOK
  <2>3. Encoded(r, i) \in Payload
    BY <2>2 DEF Encoded, Payload, SchemaVersion
  <2>. QED
    BY <1>1, <2>1, <2>2, <2>3
<1>3. CASE BeginDelete(t)
  <2>1. PICK e \in 0..MaxRevision : Begin(t, Call("delete", "lock", e, Missing))
    BY <1>3 DEF BeginDelete
  <2>. QED
    BY <1>1, <2>1, PayloadsTyped, LocalAssumption DEF LocalAssumption
<1>4. CASE BeginLoad(t)
  BY <1>1, <1>4, PayloadsTyped DEF BeginLoad
<1>. QED
  BY <1>2, <1>3, <1>4

\* The ways a call moves on keep its shape, and say what changes of it.
LEMMA CallMoves ==
    ASSUME TypeOK, NEW t \in Threads
    PROVE  /\ \A pc \in Phases : Goto(t, pc) => call' \in [Threads -> CallState]
           /\ \A a \in Answers : Ends(t, a) => call' \in [Threads -> CallState]
           /\ Serve(t) => call' \in [Threads -> CallState]
           /\ \A p \in Payload : Change(t, p) => call' \in [Threads -> CallState]
<1>0. file \in Payload /\ call[t] \in CallState /\ call \in [Threads -> CallState]
  BY FileTyped DEF TypeOK, file
<1>1. \A c \in CallState, pc \in Phases : [c EXCEPT !.pc = pc] \in CallState
  BY DEF CallState
<1>2. \A c \in CallState, a \in Answers : [c EXCEPT !.answer = a] \in CallState
  BY DEF CallState
<1>3. \A c \in CallState, p \in Payload : [c EXCEPT !.payload = p] \in CallState
  BY DEF CallState
<1>4. \A pc \in Phases : Goto(t, pc) => call' \in [Threads -> CallState]
  BY <1>0, <1>1 DEF Goto
<1>5. \A a \in Answers : Ends(t, a) => call' \in [Threads -> CallState]
  <2>1. SUFFICES ASSUME NEW a \in Answers, Ends(t, a) PROVE call' \in [Threads -> CallState]
    OBVIOUS
  <2>2. [call[t] EXCEPT !.pc = "return"] \in CallState
    BY <1>0, <1>1 DEF Phases
  <2>3. [[call[t] EXCEPT !.pc = "return"] EXCEPT !.answer = a] \in CallState
    BY <1>2, <2>2
  <2>4. call' = [call EXCEPT ![t] = [[call[t] EXCEPT !.pc = "return"] EXCEPT !.answer = a]]
    BY <1>0, <2>1 DEF Ends
  <2>. QED
    BY <1>0, <2>3, <2>4
<1>6. Serve(t) => call' \in [Threads -> CallState]
  <2>1. SUFFICES ASSUME Serve(t) PROVE call' \in [Threads -> CallState]
    OBVIOUS
  <2>2. [call[t] EXCEPT !.pc = "return"] \in CallState
    BY <1>0, <1>1 DEF Phases
  <2>3. [[call[t] EXCEPT !.pc = "return"] EXCEPT !.answer = "ok"] \in CallState
    BY <1>2, <2>2 DEF Answers
  <2>4. [[[call[t] EXCEPT !.pc = "return"] EXCEPT !.answer = "ok"] EXCEPT !.payload = file] \in CallState
    BY <1>0, <1>3, <2>3
  <2>5. call' = [call EXCEPT ![t] =
            [[[call[t] EXCEPT !.pc = "return"] EXCEPT !.answer = "ok"] EXCEPT !.payload = file]]
    BY <1>0, <2>1 DEF Serve
  <2>. QED
    BY <1>0, <2>4, <2>5
<1>7. \A p \in Payload : Change(t, p) => call' \in [Threads -> CallState]
  <2>1. SUFFICES ASSUME NEW p \in Payload, Change(t, p) PROVE call' \in [Threads -> CallState]
    OBVIOUS
  <2>2. PICK q \in Payload : q = IF call[t].op = "load" THEN p ELSE call[t].payload
    BY <1>0 DEF CallState
  <2>3. [call[t] EXCEPT !.pc = "sync"] \in CallState
    BY <1>0, <1>1 DEF Phases
  <2>4. [[call[t] EXCEPT !.pc = "sync"] EXCEPT !.payload = q] \in CallState
    BY <1>3, <2>3
  <2>5. call' = [call EXCEPT ![t] = [[call[t] EXCEPT !.pc = "sync"] EXCEPT !.payload = q]]
    BY <1>0, <2>1, <2>2 DEF Change, CallState
  <2>. QED
    BY <1>0, <2>4, <2>5
<1>. QED
  BY <1>4, <1>5, <1>6, <1>7

LEMMA TypeStep ==
    ASSUME LocalAssumption, TypeOK, NEW t \in Threads, Step(t)
    PROVE  TypeOK'
<1>. DEFINE f == file
<1>0. f \in Payload /\ Len(entries) \in Nat \ {0}
  BY FileTyped DEF TypeOK, file
<1>1. CASE BeginSave(t) \/ BeginDelete(t) \/ BeginLoad(t)
  BY <1>1, BeginTyped DEF TypeOK, Begin, locks, history
<1>2. CASE LockShared(t)
  BY <1>2, CallMoves DEF TypeOK, LockShared, Phases, history
<1>3. CASE LockExclusive(t)
  BY <1>3, CallMoves DEF TypeOK, LockExclusive, Phases, history
<1>4. CASE Read(t)
  BY <1>4, CallMoves DEF TypeOK, Read, Phases, history
<1>5. CASE Check(t)
  BY <1>5, CallMoves DEF TypeOK, Check, Phases, Answers, locks, history
<1>6. CASE WriteTemporary(t)
  BY <1>6, CallMoves DEF TypeOK, WriteTemporary, Phases, locks, history
<1>7. ASSUME NEW p \in Payload, Change(t, p)
      PROVE  /\ entries' \in Seq(Payload) /\ entries' # <<>>
             /\ changes' \in Nat
             /\ call' \in [Threads -> CallState]
  <2>1. entries' \in Seq(Payload) /\ entries' # <<>>
    BY <1>7, AppendFile DEF Change, TypeOK
  <2>2. call' \in [Threads -> CallState]
    BY <1>7, CallMoves
  <2>3. changes' \in Nat
    BY <1>7 DEF Change, TypeOK
  <2>. QED
    BY <2>1, <2>2, <2>3
<1>8. CASE Replace(t)
  <2>1. /\ Upgraded(f, changes + 1) \in Payload
        /\ Written(call[t].payload, changes + 1) \in Payload
    BY <1>0, WrittenTyped, UpgradedTyped DEF TypeOK, CallState
  <2>2. CASE Goto(t, "cleanup") /\ UNCHANGED <<entries, changes, temporary, locks, history>>
    BY <2>2, CallMoves DEF TypeOK, Phases, locks, history
  <2>3. ASSUME NEW p \in Payload, Change(t, p), temporary' = temporary \ {t},
               UNCHANGED <<locks, history>>
        PROVE  TypeOK'
    BY <1>7, <2>3 DEF TypeOK, locks, history
  <2>. QED
    BY <1>8, <2>1, <2>2, <2>3 DEF Replace
<1>9. CASE Cleanup(t)
  BY <1>9, CallMoves DEF TypeOK, Cleanup, Answers, locks, history
<1>10. CASE Unlink(t)
  <2>1. CASE Ends(t, "error") /\ UNCHANGED <<entries, changes, temporary, locks, history>>
    BY <2>1, CallMoves DEF TypeOK, Answers, locks, history
  <2>2. Removed(changes + 1) \in Payload
    BY RemovedTyped DEF TypeOK
  <2>3. CASE Change(t, Removed(changes + 1)) /\ UNCHANGED <<temporary, locks, history>>
    BY <1>7, <2>2, <2>3 DEF TypeOK, locks, history
  <2>. QED
    BY <1>10, <2>1, <2>3 DEF Unlink
<1>11. CASE SyncDirectory(t)
  <2>1. <<f>> \in Seq(Payload) /\ <<f>> # <<>>
    BY <1>0, SingleFile
  <2>. QED
    BY <1>11, <2>1, CallMoves DEF TypeOK, SyncDirectory, Answers, locks, history
<1>12. CASE Return(t)
  <2>1. PICK a \in Answers, p \in Payload :
            call' = [call EXCEPT ![t] = [[Idle EXCEPT !.answer = a] EXCEPT !.payload = p]]
    <3>1. Missing \in Payload /\ call[t].payload \in Payload /\ Told(call[t].answer) \in Answers
      BY PayloadsTyped DEF TypeOK, CallState, Told, Answers
    <3>. QED
      BY <1>12, <3>1 DEF Return
  <2>2. [Idle EXCEPT !.answer = a] \in CallState
    BY IdleTyped DEF CallState
  <2>3. [[Idle EXCEPT !.answer = a] EXCEPT !.payload = p] \in CallState
    BY <2>2 DEF CallState
  <2>4. f.at \in Nat
    BY <1>0 DEF Payload
  <2>5. served' \subseteq Payload
    BY <1>12 DEF Return, TypeOK, CallState
  <2>. QED
    BY <1>12, <2>1, <2>3, <2>4, <2>5 DEF TypeOK, Return, locks
<1>13. CASE Crash(t)
  BY <1>13, IdleTyped DEF TypeOK, Crash, history
<1>. QED
  BY <1>1, <1>2, <1>3, <1>4, <1>5, <1>6, <1>8, <1>9, <1>10, <1>11, <1>12, <1>13 DEF Step

LEMMA TypePower == ASSUME LocalAssumption, TypeOK, PowerCut PROVE TypeOK'
<1>1. PICK i \in 1..Len(entries) : entries' = <<entries[i]>>
  BY FileTyped DEF PowerCut, TypeOK
<1>2. entries' \in Seq(Payload) /\ entries' # <<>>
  BY <1>1, FileTyped, SingleFile DEF TypeOK
<1>. QED
  BY <1>2, IdleTyped DEF PowerCut, TypeOK, history

\* The repository's state keeps its types (TypeOK).
THEOREM LocalTypeCorrect == ASSUME LocalAssumption PROVE Spec => []TypeOK
<1>1. Init => TypeOK
  BY TypeInit, LocalAssumption
<1>2. TypeOK /\ [Next]_vars => TypeOK'
  <2>1. TypeOK /\ UNCHANGED vars => TypeOK'
    BY DEF TypeOK, vars, locks, history
  <2>. QED
    BY <2>1, TypeStep, TypePower, LocalAssumption DEF Next
<1>. QED
  BY <1>1, <1>2, PTL DEF Spec

-----------------------------------------------------------------------------
\* What a move leaves in the call of t, and that it leaves the other calls alone.

Others(t) == \A u \in Threads : u # t => call'[u] = call[u]

Kept(t) == call'[t].op = call[t].op /\ call'[t].expected = call[t].expected

LEMMA GotoSays ==
    ASSUME TypeOK, NEW t \in Threads, NEW pc, Goto(t, pc)
    PROVE  /\ Others(t) /\ Kept(t)
           /\ call'[t].pc = pc
           /\ call'[t].answer = call[t].answer
           /\ call'[t].payload = call[t].payload
BY DEF Goto, TypeOK, CallState, Others, Kept

LEMMA EndsSays ==
    ASSUME TypeOK, NEW t \in Threads, NEW answer, Ends(t, answer)
    PROVE  /\ Others(t) /\ Kept(t)
           /\ call'[t].pc = "return"
           /\ call'[t].answer = answer
           /\ call'[t].payload = call[t].payload
BY DEF Ends, TypeOK, CallState, Others, Kept

LEMMA ServeSays ==
    ASSUME TypeOK, NEW t \in Threads, Serve(t)
    PROVE  /\ Others(t) /\ Kept(t)
           /\ call'[t].pc = "return"
           /\ call'[t].answer = "ok"
           /\ call'[t].payload = file
BY DEF Serve, TypeOK, CallState, Others, Kept

LEMMA ChangeSays ==
    ASSUME TypeOK, NEW t \in Threads, NEW p, Change(t, p)
    PROVE  /\ Others(t) /\ Kept(t)
           /\ call'[t].pc = "sync"
           /\ call'[t].answer = call[t].answer
           /\ call'[t].payload = IF call[t].op = "load" THEN p ELSE call[t].payload
BY DEF Change, TypeOK, CallState, Others, Kept

LEMMA ReturnSays ==
    ASSUME TypeOK, NEW t \in Threads, Return(t)
    PROVE  /\ Others(t)
           /\ call'[t].op = "none" /\ call'[t].pc = "idle" /\ call'[t].expected = None
           /\ call'[t].answer = Told(call[t].answer)
           /\ call'[t].payload = IF call[t].op = "load" /\ call[t].answer = "ok"
                                 THEN call[t].payload ELSE Missing
BY DEF Return, Idle, TypeOK, CallState, Others

LEMMA BeginSays ==
    ASSUME TypeOK, NEW t \in Threads, NEW c, Begin(t, c)
    PROVE  Others(t) /\ call'[t] = c
BY DEF Begin, TypeOK, Others

LEMMA CrashSays ==
    ASSUME TypeOK, NEW t \in Threads, Crash(t)
    PROVE  Others(t) /\ call'[t] = Idle
BY DEF Crash, TypeOK, Others

-----------------------------------------------------------------------------
\* Locks: who holds them in which phase of a call.

LEMMA LockInit == ASSUME LocalAssumption, Init PROVE LockInv
BY LocalAssumption DEF LocalAssumption, Init, LockInv, Excludes, PhaseShape, LockOf, Idle

LEMMA LockStep ==
    ASSUME LocalAssumption, TypeOK, LockInv, NEW t \in Threads, Step(t)
    PROVE  LockInv'
<1>. SUFFICES ASSUME NEW u \in Threads
              PROVE  Excludes' /\ PhaseShape(call[u])' /\ LockOf(u)'
  BY DEF LockInv
<1>0. /\ Excludes /\ PhaseShape(call[u]) /\ LockOf(u) /\ PhaseShape(call[t]) /\ LockOf(t)
      /\ NoThread \notin Threads
      /\ call[t] \in CallState /\ call[u] \in CallState
  BY LocalAssumption DEF LockInv, LocalAssumption, TypeOK
<1>. USE <1>0 DEF Excludes, PhaseShape, LockOf, At, Others, Kept
<1>1. CASE BeginSave(t) \/ BeginDelete(t) \/ BeginLoad(t)
  <2>1. ASSUME NEW c \in CallState, Begin(t, c), c.op # "none", c.answer = "none",
               c.pc = "lock" \/ (c.pc = "lockShared" /\ c.op = "load")
        PROVE  Excludes' /\ PhaseShape(call[u])' /\ LockOf(u)'
    <3>1. Others(t) /\ call'[t] = c
      BY <2>1, BeginSays
    <3>2. call[t].pc = "idle" /\ UNCHANGED locks
      BY <2>1 DEF Begin
    <3>. QED
      BY <2>1, <3>1, <3>2 DEF locks
  <2>. QED
    BY <1>1, <2>1, BeginTyped
<1>2. CASE LockShared(t)
  BY <1>2, GotoSays DEF LockShared
<1>3. CASE LockExclusive(t)
  BY <1>3, GotoSays DEF LockExclusive
<1>4. CASE Read(t)
  BY <1>4, GotoSays, ServeSays DEF Read
<1>5. CASE Check(t)
  <2>1. UNCHANGED locks /\ call[t].pc = "check"
    BY <1>5 DEF Check
  <2>2. CASE Goto(t, "write") /\ call[t].op \in {"save", "load"}
    BY <2>1, <2>2, GotoSays DEF locks
  <2>3. CASE Goto(t, "unlink") /\ call[t].op = "delete"
    BY <2>1, <2>3, GotoSays DEF locks
  <2>4. CASE Ends(t, "conflict")
    BY <2>1, <2>4, EndsSays DEF locks
  <2>5. CASE Serve(t)
    BY <2>1, <2>5, ServeSays DEF locks
  <2>. QED
    BY <1>5, <2>2, <2>3, <2>4, <2>5 DEF Check
<1>6. CASE WriteTemporary(t)
  BY <1>6, GotoSays DEF WriteTemporary, locks
<1>7. ASSUME NEW p, Change(t, p), UNCHANGED locks, call[t].pc \in {"replace", "unlink"}
      PROVE  Excludes' /\ PhaseShape(call[u])' /\ LockOf(u)'
  BY <1>7, ChangeSays DEF locks
<1>8. CASE Replace(t)
  <2>1. CASE Goto(t, "cleanup") /\ UNCHANGED locks /\ At(t, "replace")
    BY <2>1, GotoSays DEF locks
  <2>. QED
    BY <1>7, <1>8, <2>1 DEF Replace
<1>9. CASE Cleanup(t)
  BY <1>9, EndsSays DEF Cleanup, locks
<1>10. CASE Unlink(t)
  <2>1. CASE Ends(t, "error") /\ UNCHANGED locks /\ At(t, "unlink")
    BY <2>1, EndsSays DEF locks
  <2>. QED
    BY <1>7, <1>10, <2>1 DEF Unlink
<1>11. CASE SyncDirectory(t)
  BY <1>11, EndsSays DEF SyncDirectory, locks
<1>12. ASSUME shared' = shared \ {t}, exclusive' = IF exclusive = t THEN NoThread ELSE exclusive,
              Others(t), call'[t].pc = "idle", call'[t].op = "none", call'[t].answer # "unsynced"
       PROVE  Excludes' /\ PhaseShape(call[u])' /\ LockOf(u)'
  <2>1. Excludes'
    BY <1>12
  <2>2. CASE u = t
    BY <1>12, <2>1, <2>2
  <2>3. CASE u # t
    <3>1. call'[u] = call[u] /\ (exclusive' = u <=> exclusive = u) /\ (u \in shared' <=> u \in shared)
      BY <1>12, <2>3
    <3>. QED
      BY <2>1, <3>1
  <2>. QED
    BY <2>2, <2>3
<1>13. CASE Return(t)
  <2>1. shared' = shared \ {t} /\ exclusive' = IF exclusive = t THEN NoThread ELSE exclusive
    BY <1>13 DEF Return
  <2>2. /\ Others(t) /\ call'[t].pc = "idle" /\ call'[t].op = "none"
        /\ call'[t].answer = Told(call[t].answer)
    BY <1>13, ReturnSays
  <2>3. call'[t].answer # "unsynced"
    BY <2>2 DEF Told
  <2>. QED
    BY <1>12, <2>1, <2>2, <2>3
<1>14. CASE Crash(t)
  <2>1. shared' = shared \ {t} /\ exclusive' = IF exclusive = t THEN NoThread ELSE exclusive
    BY <1>14 DEF Crash
  <2>2. Others(t) /\ call'[t].pc = "idle" /\ call'[t].op = "none" /\ call'[t].answer # "unsynced"
    BY <1>14, CrashSays DEF Idle
  <2>. QED
    BY <1>12, <2>1, <2>2
<1>. QED
  BY <1>1, <1>2, <1>3, <1>4, <1>5, <1>6, <1>8, <1>9, <1>10, <1>11, <1>13, <1>14 DEF Step

LEMMA LockPower == ASSUME LocalAssumption, PowerCut PROVE LockInv'
BY LocalAssumption DEF LocalAssumption, PowerCut, LockInv, Excludes, PhaseShape, LockOf, Idle

LEMMA LockInvariant == ASSUME LocalAssumption PROVE Spec => [](TypeOK /\ LockInv)
<1>1. Init => TypeOK /\ LockInv
  BY LockInit, TypeInit, LocalAssumption
<1>2. TypeOK /\ LockInv /\ [Next]_vars => (TypeOK /\ LockInv)'
  <2>1. TypeOK /\ LockInv /\ UNCHANGED vars => (TypeOK /\ LockInv)'
    BY DEF TypeOK, LockInv, Excludes, LockOf, vars, locks, history
  <2>. QED
    BY <2>1, TypeStep, LockStep, TypePower, LockPower, LocalAssumption DEF Next
<1>. QED
  BY <1>1, <1>2, PTL DEF Spec

\* A temporary file is there only while its writer is about to use it or to remove it.
LEMMA TemporaryStep ==
    ASSUME LocalAssumption, TypeOK, TemporaryInv, NEW t \in Threads, Step(t)
    PROVE  TemporaryInv'
<1>0. temporary \subseteq Threads
  BY DEF TypeOK
<1>1. ASSUME Others(t), temporary' \subseteq temporary, t \notin temporary'
      PROVE  TemporaryInv'
  BY <1>0, <1>1 DEF TemporaryInv, Others
<1>2. ASSUME Others(t), UNCHANGED temporary, call[t].pc \notin {"replace", "cleanup"}
      PROVE  TemporaryInv'
  BY <1>1, <1>2 DEF TemporaryInv
<1>3. CASE BeginSave(t) \/ BeginDelete(t) \/ BeginLoad(t)
  <2>1. PICK c : Begin(t, c)
    BY <1>3, BeginTyped
  <2>. QED
    BY <1>2, <2>1, BeginSays DEF Begin, At
<1>4. CASE LockShared(t) \/ LockExclusive(t) \/ Read(t)
  <2>1. Others(t)
    BY <1>4, GotoSays, ServeSays DEF LockShared, LockExclusive, Read
  <2>. QED
    BY <1>2, <1>4, <2>1 DEF LockShared, LockExclusive, Read, At
<1>5. CASE Check(t)
  <2>1. Others(t)
    BY <1>5, GotoSays, ServeSays, EndsSays DEF Check
  <2>. QED
    BY <1>2, <1>5, <2>1 DEF Check, At
<1>6. CASE WriteTemporary(t)
  <2>1. Others(t) /\ call'[t].pc \in {"replace", "cleanup"} /\ temporary' = temporary \cup {t}
    BY <1>6, GotoSays DEF WriteTemporary
  <2>. QED
    BY <1>0, <2>1 DEF TemporaryInv, Others
<1>7. CASE Replace(t)
  <2>1. CASE Goto(t, "cleanup") /\ UNCHANGED temporary
    BY <1>0, <2>1, GotoSays DEF TemporaryInv, Others
  <2>2. ASSUME NEW p, Change(t, p), temporary' = temporary \ {t} PROVE TemporaryInv'
    BY <1>1, <2>2, ChangeSays
  <2>. QED
    BY <1>7, <2>1, <2>2 DEF Replace
<1>8. CASE Cleanup(t)
  BY <1>1, <1>8, EndsSays DEF Cleanup
<1>9. CASE Unlink(t) \/ SyncDirectory(t)
  <2>1. Others(t)
    BY <1>9, ChangeSays, EndsSays DEF Unlink, SyncDirectory
  <2>. QED
    BY <1>2, <1>9, <2>1 DEF Unlink, SyncDirectory, At
<1>10. CASE Return(t)
  BY <1>2, <1>10, ReturnSays DEF Return, At
<1>11. CASE Crash(t)
  BY <1>1, <1>11, CrashSays DEF Crash
<1>. QED
  BY <1>3, <1>4, <1>5, <1>6, <1>7, <1>8, <1>9, <1>10, <1>11 DEF Step

\* The finally clauses of _load, _save, _delete and _write_atomic: a call that ended, in
\* whatever way, left neither its temporary file nor a lock behind.
THEOREM NothingIsLeft == ASSUME LocalAssumption PROVE Spec => []NothingLeft
<1>1. Init => TemporaryInv
  BY DEF Init, TemporaryInv
<1>2. TypeOK /\ TemporaryInv /\ [Next]_vars => TemporaryInv'
  <2>1. TemporaryInv /\ UNCHANGED vars => TemporaryInv'
    BY DEF TemporaryInv, vars
  <2>2. PowerCut => TemporaryInv'
    BY DEF PowerCut, TemporaryInv
  <2>. QED
    BY <2>1, <2>2, TemporaryStep, LocalAssumption DEF Next
<1>3. LockInv /\ TemporaryInv => NothingLeft
  BY DEF LockInv, LockOf, TemporaryInv, NothingLeft, At
<1>. QED
  BY <1>1, <1>2, <1>3, LockInvariant, PTL DEF Spec

\* No two threads are between taking the exclusive lock and dropping it.
LEMMA OneWriter ==
    ASSUME LocalAssumption, TypeOK, LockInv, NEW t \in Threads, NEW u \in Threads, u # t,
           call[t].pc \in {"check", "write", "replace", "cleanup", "unlink", "sync"}
    PROVE  call[u].pc \in {"idle", "lock", "lockShared"} /\ shared = {}
<1>1. exclusive = t /\ shared = {}
  BY LocalAssumption DEF LocalAssumption, LockInv, Excludes, LockOf
<1>2. call[u].pc \in Phases /\ LockOf(u)
  BY DEF TypeOK, CallState, LockInv
<1>. QED
  BY <1>1, <1>2 DEF Phases, LockOf

-----------------------------------------------------------------------------
\* What the holder of the exclusive lock checked stays so until it acts.

LEMMA FileStays ==
    ASSUME TypeOK, entries' = entries \/ entries' = <<file>>
    PROVE  file' = file
<1>1. file \in Payload
  BY FileTyped DEF TypeOK, file
<1>2. CASE entries' = entries
  BY <1>2 DEF file
<1>3. CASE entries' = <<file>>
  <2>1. PICK f \in Payload : f = file
    BY <1>1
  <2>2. entries' = <<f>> /\ Len(<<f>>) = 1 /\ <<f>>[1] = f
    BY <1>3, <2>1, SingleFile
  <2>3. file' = f
    BY <2>2 DEF file
  <2>. QED
    BY <2>1, <2>3
<1>. QED
  BY <1>2, <1>3

LEMMA FileChanges ==
    ASSUME TypeOK, NEW t \in Threads, NEW p \in Payload, Change(t, p)
    PROVE  /\ file' = p
           /\ Len(entries') = Len(entries) + 1
           /\ entries'[Len(entries) + 1] = p
           /\ \A i \in 1..Len(entries) : entries'[i] = entries[i]
<1>1. entries' = Append(entries, p)
  BY DEF Change
<1>. QED
  BY <1>1, AppendFile DEF TypeOK, file

\* Only the thread that is replacing or unlinking the file changes it.
LEMMA WhoChanges ==
    ASSUME TypeOK, NEW t \in Threads, Step(t)
    PROVE  \/ /\ file' = file /\ changes' = changes
              /\ entries' = entries \/ (At(t, "sync") /\ entries' = <<file>>)
           \/ /\ At(t, "replace") /\ call[t].op = "load"
              /\ Upgraded(file, changes + 1) \in Payload
              /\ Change(t, Upgraded(file, changes + 1))
           \/ /\ At(t, "replace") /\ call[t].op # "load"
              /\ Written(call[t].payload, changes + 1) \in Payload
              /\ Change(t, Written(call[t].payload, changes + 1))
           \/ /\ At(t, "unlink")
              /\ Removed(changes + 1) \in Payload
              /\ Change(t, Removed(changes + 1))
<1>0. /\ file \in Payload /\ changes + 1 \in Nat
      /\ call[t].payload \in Payload
  BY FileTyped DEF TypeOK, file, CallState
<1>1. CASE UNCHANGED <<entries, changes>>
  BY <1>1, FileStays
<1>2. CASE At(t, "sync") /\ entries' = <<file>> /\ UNCHANGED changes
  BY <1>2, FileStays
<1>3. CASE Replace(t)
  <2>1. CASE call[t].op = "load"
    BY <1>0, <1>1, <1>3, <2>1, UpgradedTyped DEF Replace
  <2>2. CASE call[t].op # "load"
    BY <1>0, <1>1, <1>3, <2>2, WrittenTyped DEF Replace
  <2>. QED
    BY <2>1, <2>2
<1>4. CASE Unlink(t)
  BY <1>0, <1>1, <1>4, RemovedTyped DEF Unlink
<1>5. CASE SyncDirectory(t)
  BY <1>1, <1>2, <1>5 DEF SyncDirectory
<1>6. CASE BeginSave(t) \/ BeginDelete(t) \/ BeginLoad(t)
  BY <1>1, <1>6 DEF BeginSave, BeginDelete, BeginLoad, Begin
<1>. QED
  BY <1>1, <1>3, <1>4, <1>5, <1>6
  DEF Step, LockShared, LockExclusive, Read, Check, WriteTemporary, Cleanup, Return, Crash

LEMMA CheckedStep ==
    ASSUME LocalAssumption, TypeOK, LockInv, CheckedInv, NEW t \in Threads, Step(t)
    PROVE  CheckedInv'
<1>. SUFFICES ASSUME NEW u \in Threads PROVE Checked(u)'
  BY DEF CheckedInv
<1>. DEFINE Acts(v) == call[v].pc \in {"write", "replace", "unlink"}
<1>0. Checked(u) /\ Checked(t) /\ PhaseShape(call[t])
  BY DEF CheckedInv, LockInv
<1>1. ASSUME ~Acts(u)'
      PROVE  Checked(u)'
  BY <1>1 DEF Checked
<1>2. ASSUME Others(t), u # t PROVE Checked(u)'
  <2>1. call'[u] = call[u]
    BY <1>2
       DEF Others
  <2>2. CASE file' = file
    BY <1>0, <2>1, <2>2 DEF Checked
  <2>3. CASE call[t].pc \in {"replace", "unlink"}
    BY <1>1, <1>2, <2>1, <2>3, OneWriter
  <2>. QED
    BY <2>2, <2>3, WhoChanges DEF At
<1>3. CASE BeginSave(t) \/ BeginDelete(t) \/ BeginLoad(t)
  <2>1. ASSUME NEW c \in CallState, Begin(t, c), c.pc = "lock" \/ (c.pc = "lockShared" /\ c.op = "load")
        PROVE  Checked(u)'
    <3>1. Others(t) /\ call'[t] = c
      BY <2>1, BeginSays
    <3>. QED
      BY <1>1, <1>2, <2>1, <3>1
  <2>. QED
    BY <1>3, <2>1, BeginTyped
<1>4. CASE LockShared(t)
  <2>1. Goto(t, "read")
    BY <1>4 DEF LockShared
  <2>. QED
    BY <1>1, <1>2, <2>1, GotoSays
<1>5. CASE LockExclusive(t)
  <2>1. Goto(t, "check")
    BY <1>5 DEF LockExclusive
  <2>. QED
    BY <1>1, <1>2, <2>1, GotoSays
<1>6. CASE Read(t)
  <2>1. Goto(t, "lock") \/ Serve(t)
    BY <1>6 DEF Read
  <2>. QED
    BY <1>1, <1>2, <2>1, GotoSays, ServeSays
<1>7. CASE Check(t)
  <2>1. file' = file /\ call[t].pc = "check"
    BY <1>7, FileStays DEF Check, At
  <2>2. CASE Ends(t, "conflict")
    BY <1>1, <1>2, <2>2, EndsSays
  <2>3. CASE Serve(t)
    BY <1>1, <1>2, <2>3, ServeSays
  <2>4. CASE /\ call[t].op = "save"
             /\ CasAccepts(file.revision, call[t].expected, call[t].payload.revision)
             /\ Goto(t, "write")
    BY <1>2, <2>1, <2>4, GotoSays DEF Checked, Kept
  <2>5. CASE call[t].op = "delete" /\ file.revision = call[t].expected /\ Goto(t, "unlink")
    BY <1>2, <2>1, <2>5, GotoSays DEF Checked, Kept
  <2>6. CASE call[t].op = "load" /\ NeedsMigration(file) /\ Goto(t, "write")
    BY <1>2, <2>1, <2>6, GotoSays DEF Checked, Kept
  <2>. QED
    BY <1>7, <2>2, <2>3, <2>4, <2>5, <2>6 DEF Check
<1>8. CASE WriteTemporary(t)
  <2>1. file' = file /\ call[t].pc = "write"
    BY <1>8, FileStays DEF WriteTemporary, At
  <2>2. CASE Goto(t, "cleanup")
    BY <1>1, <1>2, <2>2, GotoSays
  <2>3. CASE Goto(t, "replace")
    BY <1>0, <1>2, <2>1, <2>3, GotoSays DEF Checked, Kept
  <2>. QED
    BY <1>8, <2>2, <2>3 DEF WriteTemporary
<1>9. ASSUME NEW p, Change(t, p) PROVE Checked(u)'
  BY <1>1, <1>2, <1>9, ChangeSays
<1>10. CASE Replace(t)
  <2>1. CASE Goto(t, "cleanup")
    BY <1>1, <1>2, <2>1, GotoSays
  <2>. QED
    BY <1>9, <1>10, <2>1 DEF Replace
<1>11. CASE Cleanup(t)
  <2>1. Ends(t, "error")
    BY <1>11 DEF Cleanup
  <2>. QED
    BY <1>1, <1>2, <2>1, EndsSays
<1>12. CASE Unlink(t)
  <2>1. CASE Ends(t, "error")
    BY <1>1, <1>2, <2>1, EndsSays
  <2>. QED
    BY <1>9, <1>12, <2>1 DEF Unlink
<1>13. CASE SyncDirectory(t)
  <2>1. PICK a : Ends(t, a)
    BY <1>13 DEF SyncDirectory
  <2>. QED
    BY <1>1, <1>2, <2>1, EndsSays
<1>14. CASE Return(t)
  <2>1. Others(t) /\ call'[t].pc = "idle"
    BY <1>14, ReturnSays
  <2>. QED
    BY <1>1, <1>2, <2>1
<1>15. CASE Crash(t)
  <2>1. Others(t) /\ call'[t].pc = "idle"
    BY <1>15, CrashSays DEF Idle
  <2>. QED
    BY <1>1, <1>2, <2>1
<1>. QED
  BY <1>3, <1>4, <1>5, <1>6, <1>7, <1>8, <1>10, <1>11, <1>12, <1>13, <1>14, <1>15 DEF Step

LEMMA CheckedInvariant ==
    ASSUME LocalAssumption PROVE Spec => [](TypeOK /\ LockInv /\ CheckedInv)
<1>1. Init => CheckedInv
  BY DEF Init, Idle, CheckedInv, Checked
<1>2. TypeOK /\ LockInv /\ CheckedInv /\ [Next]_vars => CheckedInv'
  <2>1. CheckedInv /\ UNCHANGED vars => CheckedInv'
    BY DEF CheckedInv, Checked, vars, file
  <2>2. PowerCut => CheckedInv'
    BY DEF PowerCut, CheckedInv, Checked, Idle
  <2>. QED
    BY <2>1, <2>2, CheckedStep, LocalAssumption DEF Next
<1>. QED
  BY <1>1, <1>2, LockInvariant, LocalAssumption, PTL DEF Spec

-----------------------------------------------------------------------------
\* Durability.

LEMMA DurableInit == ASSUME LocalAssumption, Init PROVE DurableInv
<1>1. PICK p \in Payload : entries = <<p>> /\ p.at = 0
  BY PayloadsTyped DEF Init
<1>2. Len(<<p>>) = 1 /\ <<p>>[1] = p /\ DOMAIN <<p>> = {1}
  BY SingleFile
<1>. QED
  BY <1>1, <1>2 DEF Init, DurableInv, ConfirmedSurvives, file, Idle

\* The order of the entries survives a change of the file, and it may start anew
\* from any of them.
LEMMA OrderKept ==
    ASSUME TypeOK, DurableInv, NEW t \in Threads, NEW p \in Payload, Change(t, p),
           p.at = file.at \/ p.at = changes + 1
    PROVE  /\ \A i, j \in DOMAIN entries' : i <= j => entries'[i].at <= entries'[j].at
           /\ file.at' <= changes'
           /\ confirmed' = confirmed => ConfirmedSurvives'
<1>1. /\ Len(entries') = Len(entries) + 1
      /\ entries'[Len(entries) + 1] = p
      /\ \A i \in 1..Len(entries) : entries'[i] = entries[i]
      /\ file' = p
      /\ changes' = changes + 1
  BY FileChanges DEF Change
<1>2. entries' \in Seq(Payload) /\ entries \in Seq(Payload)
  BY AppendFile DEF Change, TypeOK
<1>3. /\ DOMAIN entries' = 1..(Len(entries) + 1)
      /\ DOMAIN entries = 1..Len(entries)
      /\ Len(entries) \in Nat \ {0}
      /\ \A i \in 1..Len(entries) : entries[i].at \in Nat
      /\ p.at \in Nat /\ changes \in Nat
  <2>1. Len(entries) \in Nat \ {0} /\ \A i \in 1..Len(entries) : entries[i] \in Payload
    BY FileTyped DEF TypeOK
  <2>2. \A q \in Payload : q.at \in Nat
    BY DEF Payload
  <2>3. DOMAIN entries' = 1..Len(entries') /\ DOMAIN entries = 1..Len(entries)
    BY <1>2
  <2>. QED
    BY <1>1, <2>1, <2>2, <2>3 DEF TypeOK
<1>4. \A i \in 1..Len(entries) : entries[i].at <= file.at
  BY <1>3 DEF DurableInv, file
<1>5. file.at <= changes /\ file.at <= p.at /\ p.at <= changes + 1
  <2>1. file.at <= changes
    BY DEF DurableInv
  <2>2. file.at \in Nat
    BY <1>3 DEF file
  <2>. QED
    BY <2>1, <2>2, <1>3
<1>6. \A i \in 1..Len(entries) : entries[i].at <= p.at
  BY <1>3, <1>4, <1>5 DEF file
<1>7. \A i, j \in DOMAIN entries' : i <= j => entries'[i].at <= entries'[j].at
  <2>. SUFFICES ASSUME NEW i \in 1..(Len(entries) + 1), NEW j \in 1..(Len(entries) + 1), i <= j
                PROVE  entries'[i].at <= entries'[j].at
    BY <1>3
  <2>1. CASE j \in 1..Len(entries)
    <3>1. i \in 1..Len(entries)
      BY <2>1, <1>3
    <3>. QED
      BY <1>1, <1>3, <2>1, <3>1 DEF DurableInv
  <2>2. CASE j = Len(entries) + 1 /\ i \in 1..Len(entries)
    BY <1>1, <1>6, <2>2
  <2>3. CASE j = Len(entries) + 1 /\ i = j
    BY <1>1, <1>3, <2>3
  <2>. QED
    BY <1>3, <2>1, <2>2, <2>3
<1>8. ASSUME confirmed' = confirmed
      PROVE  ConfirmedSurvives'
  <2>1. \A i \in 1..Len(entries) : entries[i].at >= confirmed
    BY <1>3 DEF DurableInv, ConfirmedSurvives
  <2>2. p.at >= confirmed
    BY <2>1, <1>3, <1>6 DEF TypeOK
  <2>. QED
    BY <1>1, <1>3, <1>8, <2>1, <2>2 DEF ConfirmedSurvives
<1>. QED
  BY <1>1, <1>5, <1>7, <1>8

LEMMA DurableStep ==
    ASSUME LocalAssumption, TypeOK, LockInv, DurableInv, NEW t \in Threads, Step(t)
    PROVE  DurableInv'
<1>. DEFINE Ordered == \A i, j \in DOMAIN entries : i <= j => entries[i].at <= entries[j].at
            Succeeds(u) == call[u].pc = "return" /\ call[u].answer = "ok" /\ call[u].op # "load"
<1>0. /\ Ordered /\ file.at <= changes /\ ConfirmedSurvives
      /\ \A u \in Threads : Succeeds(u) => Len(entries) = 1
      /\ file \in Payload /\ DOMAIN entries = 1..Len(entries) /\ Len(entries) \in Nat \ {0}
  BY FileTyped DEF DurableInv, TypeOK, file
\* A sequence with one entry is ordered.
<1>1. ASSUME entries' = <<file>>, changes' = changes, confirmed' = confirmed
      PROVE  Ordered' /\ file'.at <= changes' /\ ConfirmedSurvives' /\ Len(entries') = 1
  <2>1. /\ DOMAIN <<file>> = {1} /\ <<file>>[1] = file /\ Len(<<file>>) = 1
        /\ file.at \in Nat
    BY <1>0, SingleFile DEF Payload
  <2>2. file.at >= confirmed
    BY <1>0 DEF ConfirmedSurvives, file
  <2>3. file' = file
    BY <1>1, FileStays
  <2>. QED
    BY <1>0, <1>1, <2>1, <2>2, <2>3 DEF ConfirmedSurvives
<1>2. ASSUME entries' = entries, changes' = changes, confirmed' = confirmed
      PROVE  Ordered' /\ file'.at <= changes' /\ ConfirmedSurvives'
  BY <1>0, <1>2 DEF ConfirmedSurvives, file
\* A thread that will report success holds the exclusive lock.
<1>3. ASSUME NEW u \in Threads, Succeeds(u)
      PROVE  exclusive = u /\ shared = {} /\ u # NoThread
  <2>1. PhaseShape(call[u]) /\ LockOf(u) /\ Excludes
    BY DEF LockInv
  <2>. QED
    BY <1>3, <2>1, LocalAssumption DEF LocalAssumption, PhaseShape, LockOf, Excludes
<1>4. ASSUME NEW u \in Threads, Others(t), u # t, Succeeds(u)'
      PROVE  Len(entries') = 1
  <2>1. Succeeds(u)
    BY <1>4 DEF Others
  <2>2. Len(entries) = 1 /\ exclusive = u
    BY <1>0, <1>3, <2>1
  <2>3. ~At(t, "replace") /\ ~At(t, "unlink") /\ ~At(t, "sync")
    BY <1>4, <2>2 DEF LockInv, LockOf, At
  <2>4. entries' = entries
    BY <2>3, WhoChanges
  <2>. QED
    BY <2>2, <2>4
<1>5. ASSUME Others(t), call'[t].pc # "return" \/ call'[t].answer # "ok" \/ call'[t].op = "load",
             confirmed' = confirmed, entries' = entries \/ entries' = <<file>>, changes' = changes
      PROVE  DurableInv'
  <2>1. Ordered' /\ file'.at <= changes' /\ ConfirmedSurvives'
    BY <1>1, <1>2, <1>5
  <2>2. ASSUME NEW u \in Threads, Succeeds(u)' PROVE Len(entries') = 1
    BY <1>4, <1>5, <2>2
  <2>. QED
    BY <2>1, <2>2 DEF DurableInv
<1>6. ASSUME NEW p \in Payload, Change(t, p), p.at = file.at \/ p.at = changes + 1,
             confirmed' = confirmed
      PROVE  DurableInv'
  <2>1. Ordered' /\ file'.at <= changes' /\ ConfirmedSurvives'
    BY <1>6, OrderKept
  <2>2. ASSUME NEW u \in Threads, Succeeds(u)' PROVE Len(entries') = 1
    BY <1>4, <1>6, <2>2, ChangeSays
  <2>. QED
    BY <2>1, <2>2 DEF DurableInv
<1>7. CASE BeginSave(t) \/ BeginDelete(t) \/ BeginLoad(t)
  <2>1. ASSUME NEW c \in CallState, Begin(t, c), c.answer = "none"
        PROVE  DurableInv'
    <3>1. Others(t) /\ call'[t].answer = "none"
      BY <2>1, BeginSays
    <3>. QED
      BY <1>5, <2>1, <3>1 DEF Begin, history
  <2>. QED
    BY <1>7, <2>1, BeginTyped
<1>8. CASE LockShared(t)
  <2>1. Goto(t, "read") /\ UNCHANGED <<entries, changes, confirmed>>
    BY <1>8 DEF LockShared, history
  <2>. QED
    BY <1>5, <2>1, GotoSays
<1>9. CASE LockExclusive(t)
  <2>1. Goto(t, "check") /\ UNCHANGED <<entries, changes, confirmed>>
    BY <1>9 DEF LockExclusive, history
  <2>. QED
    BY <1>5, <2>1, GotoSays
<1>10. CASE Read(t)
  <2>1. /\ Goto(t, "lock") \/ (Serve(t) /\ call[t].op = "load")
        /\ UNCHANGED <<entries, changes, confirmed>>
    BY <1>10 DEF Read, history, At, LockInv, PhaseShape
  <2>. QED
    BY <1>5, <2>1, GotoSays, ServeSays DEF Kept
<1>11. CASE Check(t)
  <2>1. /\ \/ Goto(t, "write") \/ Goto(t, "unlink") \/ Ends(t, "conflict")
           \/ Serve(t) /\ call[t].op = "load"
        /\ UNCHANGED <<entries, changes, confirmed>>
    BY <1>11 DEF Check, history
  <2>. QED
    BY <1>5, <2>1, GotoSays, EndsSays, ServeSays DEF Kept
<1>12. CASE WriteTemporary(t)
  <2>1. (Goto(t, "replace") \/ Goto(t, "cleanup")) /\ UNCHANGED <<entries, changes, confirmed>>
    BY <1>12 DEF WriteTemporary, history
  <2>. QED
    BY <1>5, <2>1, GotoSays
<1>13. CASE Replace(t)
  <2>1. CASE Goto(t, "cleanup") /\ UNCHANGED <<entries, changes, confirmed>>
    BY <1>5, <2>1, GotoSays
  <2>2. Upgraded(file, changes + 1) \in Payload /\ Upgraded(file, changes + 1).at = file.at
    BY <1>0, UpgradedTyped DEF TypeOK
  <2>3. /\ Written(call[t].payload, changes + 1) \in Payload
        /\ Written(call[t].payload, changes + 1).at = changes + 1
    BY WrittenTyped DEF TypeOK, CallState
  <2>4. CASE Change(t, Upgraded(file, changes + 1)) /\ UNCHANGED confirmed
    BY <1>6, <2>2, <2>4
  <2>5. CASE Change(t, Written(call[t].payload, changes + 1)) /\ UNCHANGED confirmed
    BY <1>6, <2>3, <2>5
  <2>. QED
    BY <1>13, <2>1, <2>4, <2>5 DEF Replace, history
<1>14. CASE Cleanup(t)
  <2>1. Ends(t, "error") /\ UNCHANGED <<entries, changes, confirmed>>
    BY <1>14 DEF Cleanup, history
  <2>. QED
    BY <1>5, <2>1, EndsSays
<1>15. CASE Unlink(t)
  <2>1. CASE Ends(t, "error") /\ UNCHANGED <<entries, changes, confirmed>>
    BY <1>5, <2>1, EndsSays
  <2>2. Removed(changes + 1) \in Payload /\ Removed(changes + 1).at = changes + 1
    BY RemovedTyped DEF TypeOK
  <2>3. CASE Change(t, Removed(changes + 1)) /\ UNCHANGED confirmed
    BY <1>6, <2>2, <2>3
  <2>. QED
    BY <1>15, <2>1, <2>3 DEF Unlink, history
<1>16. CASE SyncDirectory(t)
  <2>1. CASE Ends(t, "unsynced") /\ UNCHANGED <<entries, changes, confirmed>>
    BY <1>5, <2>1, EndsSays
  <2>2. CASE Ends(t, "ok") /\ entries' = <<file>> /\ UNCHANGED <<changes, confirmed>>
    <3>1. Ordered' /\ file'.at <= changes' /\ ConfirmedSurvives' /\ Len(entries') = 1
      BY <1>1, <2>2
    <3>. QED
      BY <3>1 DEF DurableInv
  <2>. QED
    BY <1>16, <2>1, <2>2 DEF SyncDirectory, history
<1>17. CASE Return(t)
  <2>1. Others(t) /\ call'[t].pc = "idle" /\ UNCHANGED <<entries, changes>>
    BY <1>17, ReturnSays DEF Return
  <2>2. CASE confirmed' = confirmed
    BY <1>5, <2>1, <2>2
  <2>3. CASE confirmed' = file.at /\ Succeeds(t)
    <3>1. Len(entries) = 1 /\ file = entries[1] /\ file.at \in Nat
      BY <1>0, <2>3 DEF file, Payload
    <3>2. Ordered' /\ file'.at <= changes' /\ ConfirmedSurvives' /\ Len(entries') = 1
      BY <1>0, <2>1, <2>3, <3>1 DEF ConfirmedSurvives, file
    <3>. QED
      BY <3>2 DEF DurableInv
  <2>. QED
    BY <1>17, <2>2, <2>3 DEF Return, At
<1>18. CASE Crash(t)
  <2>1. Others(t) /\ call'[t].pc = "idle"
    BY <1>18, CrashSays DEF Idle
  <2>2. UNCHANGED <<entries, changes, confirmed>>
    BY <1>18 DEF Crash, history
  <2>. QED
    BY <1>5, <2>1, <2>2
<1>. QED
  BY <1>7, <1>8, <1>9, <1>10, <1>11, <1>12, <1>13, <1>14, <1>15, <1>16, <1>17, <1>18 DEF Step

LEMMA DurablePower == ASSUME TypeOK, DurableInv, PowerCut PROVE DurableInv'
<1>1. PICK i \in DOMAIN entries : entries' = <<entries[i]>>
  BY DEF PowerCut
<1>2. i \in 1..Len(entries) /\ entries[i] \in Payload
  BY FileTyped DEF TypeOK
<1>3. PICK p \in Payload : p = entries[i]
  BY <1>2
<1>4. DOMAIN <<p>> = {1} /\ <<p>>[1] = p /\ Len(<<p>>) = 1 /\ p.at \in Nat
  BY SingleFile DEF Payload
<1>5. p.at <= file.at /\ file.at <= changes /\ p.at >= confirmed /\ file.at \in Nat /\ changes \in Nat
  <2>1. Len(entries) \in DOMAIN entries /\ i <= Len(entries) /\ file \in Payload
    BY <1>2, FileTyped DEF TypeOK, file
  <2>. QED
    BY <1>1, <1>3, <2>1 DEF DurableInv, ConfirmedSurvives, file, TypeOK, Payload
<1>6. file' = p
  BY <1>1, <1>3, <1>4 DEF file
<1>7. UNCHANGED <<changes, confirmed>> /\ call' = [u \in Threads |-> Idle]
  BY DEF PowerCut, history
<1>8. \A i1, j \in DOMAIN entries' : i1 <= j => entries'[i1].at <= entries'[j].at
  BY <1>1, <1>3, <1>4
<1>9. ConfirmedSurvives'
  BY <1>1, <1>3, <1>4, <1>5, <1>7 DEF ConfirmedSurvives
<1>. QED
  BY <1>4, <1>5, <1>6, <1>7, <1>8, <1>9 DEF DurableInv, Idle

\* A save or delete that returned success survives any later power cut.
THEOREM ConfirmedDurable == ASSUME LocalAssumption PROVE Spec => []ConfirmedSurvives
<1>1. Init => DurableInv
  BY DurableInit, LocalAssumption
<1>2. TypeOK /\ LockInv /\ DurableInv /\ [Next]_vars => DurableInv'
  <2>1. DurableInv /\ UNCHANGED vars => DurableInv'
    BY DEF DurableInv, ConfirmedSurvives, vars, history, file
  <2>. QED
    BY <2>1, DurablePower, DurableStep, LocalAssumption DEF Next
<1>3. DurableInv => ConfirmedSurvives
  BY DEF DurableInv
<1>. QED
  BY <1>1, <1>2, <1>3, LockInvariant, LocalAssumption, PTL DEF Spec

-----------------------------------------------------------------------------
\* The ids of a legacy file are allocated once, unless the power is cut.

\* A step of t adds at most x to the payloads that are or will be returned.
LEMMA KnownGrows ==
    ASSUME NEW t \in Threads, NEW x, Others(t),
           \A p \in served' : p \in served \/ (Ready(t) /\ p = call[t].payload),
           Ready(t)' => call'[t].payload = x \/ (Ready(t) /\ call'[t].payload = call[t].payload)
    PROVE  \A p \in Known' : p \in Known \/ (Ready(t)' /\ p = x)
<1>. SUFFICES ASSUME NEW p \in Known' PROVE p \in Known \/ (Ready(t)' /\ p = x)
  OBVIOUS
<1>1. CASE p \in served'
  BY <1>1 DEF Known
<1>2. ASSUME NEW u \in Threads, Ready(u)', p = call'[u].payload
      PROVE  p \in Known \/ (Ready(t)' /\ p = x)
  <2>1. CASE u = t
    BY <1>2, <2>1 DEF Known
  <2>2. CASE u # t
    <3>1. Ready(u) /\ p = call[u].payload
      BY <1>2, <2>2 DEF Ready, Others
    <3>. QED
      BY <3>1 DEF Known
  <2>. QED
    BY <2>1, <2>2
<1>. QED
  BY <1>1, <1>2 DEF Known

LEMMA FileNumbered == ASSUME TypeOK PROVE file \in Payload /\ file.at \in Nat
<1>1. file \in Payload
  BY FileTyped DEF TypeOK, file
<1>. QED
  BY <1>1 DEF Payload

LEMMA KnownTyped == ASSUME TypeOK PROVE \A p \in Known : p \in Payload /\ p.at \in Nat
BY DEF TypeOK, Known, CallState, Payload

\* The file stays, and what becomes known is the file, already upgraded.
LEMMA ServedSame ==
    ASSUME TypeOK, ServedInv, file' = file, changes' = changes,
           \A p \in Known' : p \in Known \/ (p = file /\ ~NeedsMigration(file))
    PROVE  ServedInv'
<1>1. \A p \in Known' : p.at <= file.at /\ (p.at = file.at => ~NeedsMigration(file) /\ p.ids = file.ids)
  BY FileNumbered DEF ServedInv, Current
<1>2. \A p, q \in Known' : p.at = q.at => p.ids = q.ids
  BY <1>1 DEF ServedInv, Current
<1>3. file.at <= changes
  BY DEF ServedInv
<1>. QED
  BY <1>1, <1>2, <1>3 DEF ServedInv, Current

\* A save or delete gives the file a number that nothing known has.
LEMMA ServedWritten ==
    ASSUME TypeOK, ServedInv, changes' = changes + 1, file'.at = changes + 1,
           \A p \in Known' : p \in Known
    PROVE  ServedInv'
<1>1. file.at \in Nat /\ file.at <= changes /\ changes \in Nat
  BY FileNumbered DEF TypeOK, ServedInv
<1>2. \A p \in Known' : p.at <= file'.at /\ p.at # file'.at
  <2>1. \A p \in Known : p.at \in Nat /\ p.at <= file.at
    BY KnownTyped DEF ServedInv, Current
  <2>. QED
    BY <1>1, <2>1
<1>3. \A p, q \in Known' : p.at = q.at => p.ids = q.ids
  BY DEF ServedInv
<1>4. file'.at <= changes'
  BY <1>1
<1>. QED
  BY <1>2, <1>3, <1>4 DEF ServedInv, Current

\* Nothing known has the number of a file that is still to be upgraded.
LEMMA ServedUpgraded ==
    ASSUME TypeOK, ServedInv, NeedsMigration(file), changes' = changes + 1,
           file'.at = file.at, ~NeedsMigration(file'),
           \A p \in Known' : p \in Known \/ p = file'
    PROVE  ServedInv'
<1>1. file.at \in Nat /\ file.at <= changes /\ changes \in Nat
  BY FileNumbered DEF TypeOK, ServedInv
<1>2. \A p \in Known : p.at <= file.at /\ p.at # file.at
  BY DEF ServedInv, Current
<1>3. \A p \in Known' : p.at <= file'.at /\ (p.at = file'.at => p.ids = file'.ids)
  BY <1>1, <1>2
<1>4. \A p, q \in Known' : p.at = q.at => p.ids = q.ids
  BY <1>2 DEF ServedInv
<1>5. file'.at <= changes'
  BY <1>1
<1>6. \A p \in Known' : Current(p)'
  BY <1>3 DEF Current
<1>. QED
  BY <1>4, <1>5, <1>6 DEF ServedInv

LEMMA ServedStep ==
    ASSUME LocalAssumption, TypeOK, LockInv, CheckedInv, ServedInv, NEW t \in Threads, Step(t)
    PROVE  ServedInv'
<1>. DEFINE Quietly == UNCHANGED served /\ file' = file /\ changes' = changes
<1>0. PhaseShape(call[t]) /\ Checked(t)
  BY DEF LockInv, CheckedInv
<1>1. ASSUME Others(t), Quietly, ~Ready(t)' PROVE ServedInv'
  BY <1>1, KnownGrows, ServedSame
<1>2. ASSUME Others(t), Quietly, call'[t].payload = file, ~NeedsMigration(file) PROVE ServedInv'
  BY <1>2, KnownGrows, ServedSame
<1>3. ASSUME Others(t), Quietly, Ready(t)' => Ready(t), call'[t].payload = call[t].payload
      PROVE  ServedInv'
  BY <1>3, KnownGrows, ServedSame
<1>4. ASSUME NEW pc, Goto(t, pc), pc \notin {"sync", "return"}, Quietly PROVE ServedInv'
  BY <1>1, <1>4, GotoSays DEF Ready
<1>5. ASSUME NEW a, Ends(t, a), a # "ok", Quietly PROVE ServedInv'
  BY <1>1, <1>5, EndsSays DEF Ready
<1>6. ASSUME Serve(t), ~NeedsMigration(file), Quietly PROVE ServedInv'
  BY <1>2, <1>6, ServeSays
<1>7. CASE BeginSave(t) \/ BeginDelete(t) \/ BeginLoad(t)
  <2>1. ASSUME NEW c \in CallState, Begin(t, c), c.pc = "lock" \/ (c.pc = "lockShared" /\ c.op = "load")
        PROVE  ServedInv'
    <3>1. Others(t) /\ call'[t] = c
      BY <2>1, BeginSays
    <3>2. Quietly
      BY <2>1, FileStays DEF Begin, history
    <3>. QED
      BY <1>1, <2>1, <3>1, <3>2 DEF Ready
  <2>. QED
    BY <1>7, <2>1, BeginTyped
<1>8. CASE LockShared(t)
  <2>1. Goto(t, "read") /\ Quietly
    BY <1>8, FileStays DEF LockShared, history
  <2>. QED
    BY <1>4, <2>1
<1>9. CASE LockExclusive(t)
  <2>1. Goto(t, "check") /\ Quietly
    BY <1>9, FileStays DEF LockExclusive, history
  <2>. QED
    BY <1>4, <2>1
<1>10. CASE Read(t)
  <2>1. (Goto(t, "lock") \/ (Serve(t) /\ ~NeedsMigration(file))) /\ Quietly
    BY <1>10, FileStays DEF Read, history
  <2>. QED
    BY <1>4, <1>6, <2>1
<1>11. CASE Check(t)
  <2>1. /\ \/ Goto(t, "write") \/ Goto(t, "unlink") \/ Ends(t, "conflict")
           \/ Serve(t) /\ ~NeedsMigration(file)
        /\ Quietly
    BY <1>11, FileStays DEF Check, history
  <2>. QED
    BY <1>4, <1>5, <1>6, <2>1
<1>12. CASE WriteTemporary(t)
  <2>1. (Goto(t, "replace") \/ Goto(t, "cleanup")) /\ Quietly
    BY <1>12, FileStays DEF WriteTemporary, history
  <2>. QED
    BY <1>4, <2>1
<1>13. CASE Replace(t)
  <2>1. CASE Goto(t, "cleanup") /\ UNCHANGED <<entries, changes, served>>
    BY <1>4, <2>1, FileStays
  <2>2. CASE call[t].op = "load" /\ Change(t, Upgraded(file, changes + 1)) /\ UNCHANGED served
    <3>1. PICK q \in Payload : /\ q = Upgraded(file, changes + 1)
                               /\ q.at = file.at /\ ~NeedsMigration(q)
      BY UpgradedTyped, FileTyped DEF TypeOK, file
    <3>2. Change(t, q)
      BY <2>2, <3>1
    <3>3. file' = q /\ changes' = changes + 1
      BY <3>2, FileChanges DEF Change
    <3>4. Others(t) /\ call'[t].payload = q
      BY <2>2, <3>2, ChangeSays
    <3>5. NeedsMigration(file)
      BY <1>0, <1>13, <2>2 DEF Replace, At, Checked
    <3>6. \A p \in Known' : p \in Known \/ p = q
      BY <2>2, <3>4, KnownGrows
    <3>. QED
      BY <3>1, <3>3, <3>5, <3>6, ServedUpgraded
  <2>3. CASE call[t].op # "load" /\ Change(t, Written(call[t].payload, changes + 1)) /\ UNCHANGED served
    <3>1. PICK q \in Payload : q = Written(call[t].payload, changes + 1) /\ q.at = changes + 1
      BY WrittenTyped DEF TypeOK, CallState
    <3>2. Change(t, q)
      BY <2>3, <3>1
    <3>3. file' = q /\ changes' = changes + 1
      BY <3>2, FileChanges DEF Change
    <3>4. Others(t) /\ call'[t].op # "load"
      BY <2>3, <3>2, ChangeSays DEF Kept
    <3>5. \A p \in Known' : p \in Known
      BY <2>3, <3>4, KnownGrows DEF Ready
    <3>. QED
      BY <3>1, <3>3, <3>5, ServedWritten
  <2>. QED
    BY <1>13, <2>1, <2>2, <2>3 DEF Replace, history
<1>14. CASE Cleanup(t)
  <2>1. Ends(t, "error") /\ Quietly
    BY <1>14, FileStays DEF Cleanup, history
  <2>. QED
    BY <1>5, <2>1
<1>15. CASE Unlink(t)
  <2>1. CASE Ends(t, "error") /\ UNCHANGED <<entries, changes, served>>
    BY <1>5, <2>1, FileStays
  <2>2. CASE Change(t, Removed(changes + 1)) /\ UNCHANGED served
    <3>1. PICK q \in Payload : q = Removed(changes + 1) /\ q.at = changes + 1
      BY RemovedTyped DEF TypeOK
    <3>2. file' = q /\ changes' = changes + 1 /\ Others(t) /\ call'[t].op # "load"
      BY <1>0, <1>15, <2>2, <3>1, FileChanges, ChangeSays DEF Change, Kept, Unlink, At, PhaseShape
    <3>3. \A p \in Known' : p \in Known
      BY <2>2, <3>2, KnownGrows DEF Ready
    <3>. QED
      BY <3>1, <3>2, <3>3, ServedWritten
  <2>. QED
    BY <1>15, <2>1, <2>2 DEF Unlink, history
<1>16. CASE SyncDirectory(t)
  <2>1. Quietly
    BY <1>16, FileStays DEF SyncDirectory, history
  <2>2. PICK a : Ends(t, a) /\ call[t].pc = "sync"
    BY <1>16 DEF SyncDirectory, At
  <2>3. Others(t) /\ call'[t].payload = call[t].payload /\ (Ready(t)' => Ready(t))
    BY <2>2, EndsSays DEF Ready, Kept
  <2>. QED
    BY <1>3, <2>1, <2>3
<1>17. CASE Return(t)
  <2>1. Others(t) /\ ~Ready(t)'
    BY <1>17, ReturnSays DEF Ready
  <2>2. file' = file /\ changes' = changes
    BY <1>17, FileStays DEF Return
  <2>3. \A p \in served' : p \in served \/ (Ready(t) /\ p = call[t].payload)
    BY <1>17 DEF Return, Ready, At
  <2>4. \A p \in Known' : p \in Known
    BY <2>1, <2>3, KnownGrows
  <2>. QED
    BY <2>2, <2>4, ServedSame
<1>18. CASE Crash(t)
  <2>1. Others(t) /\ call'[t].pc = "idle"
    BY <1>18, CrashSays DEF Idle
  <2>2. Quietly
    BY <1>18, FileStays DEF Crash, history
  <2>. QED
    BY <1>1, <2>1, <2>2 DEF Ready
<1>. QED
  BY <1>7, <1>8, <1>9, <1>10, <1>11, <1>12, <1>13, <1>14, <1>15, <1>16, <1>17, <1>18 DEF Step

LEMMA ServedInit == ASSUME Init PROVE ServedInv
<1>1. PICK p \in Payload : entries = <<p>> /\ p.at = 0
  BY PayloadsTyped DEF Init
<1>2. file = p
  BY <1>1, SingleFile DEF file
<1>3. Known = {}
  BY DEF Init, Known, Ready, Idle
<1>. QED
  BY <1>1, <1>2, <1>3 DEF Init, ServedInv

\* Loads that return what one save wrote return the same message ids, if the
\* power is never cut, whatever else fails or dies.
THEOREM IdentityAllocatedOnce ==
    ASSUME LocalAssumption, "power" \notin Disturbances
    PROVE  Spec => []OneIdentity
<1>1. Init => ServedInv
  BY ServedInit
<1>2. TypeOK /\ LockInv /\ CheckedInv /\ ServedInv /\ [Next]_vars => ServedInv'
  <2>1. TypeOK /\ ServedInv /\ UNCHANGED vars => ServedInv'
    BY DEF ServedInv, Current, Known, Ready, vars, history, file
  <2>2. ~PowerCut
    BY DEF PowerCut
  <2>. QED
    BY <2>1, <2>2, ServedStep, LocalAssumption DEF Next
<1>3. ServedInv => OneIdentity
  BY DEF ServedInv, OneIdentity, Known
<1>. QED
  BY <1>1, <1>2, <1>3, CheckedInvariant, LocalAssumption, PTL DEF Spec

-----------------------------------------------------------------------------
\* LocalRepository implements AtomicRepository.

Requests == [u \in Threads |-> Seen(call[u])]

\* The atomic request of a thread, field by field.
LEMMA SeenSays ==
    ASSUME NEW c
    PROVE  /\ Seen(c).op = c.op /\ Seen(c).expected = c.expected /\ Seen(c).payload = c.payload
           /\ Seen(c).stage = Stage(c)
           /\ Seen(c).answer = IF c.pc = "idle" THEN c.answer ELSE "none"
BY DEF Seen

LEMMA StageSays ==
    ASSUME NEW c
    PROVE  /\ c.pc = "idle" => Stage(c) = "idle"
           /\ c.pc = "sync" => Stage(c) = "applied"
           /\ c.pc = "return" /\ c.answer \in {"ok", "unsynced"} => Stage(c) = "applied"
           /\ c.pc = "return" /\ c.answer = "conflict" => Stage(c) = "refused"
           /\ c.pc = "return" /\ c.answer = "error" => Stage(c) = "called"
           /\ c.pc \in Phases \ {"idle", "sync", "return"} => Stage(c) = "called"
BY DEF Stage, Phases

\* A step of t changes the request of t only.
LEMMA RequestsStep ==
    ASSUME NEW t \in Threads, Others(t)
    PROVE  Requests' = [Requests EXCEPT ![t] = Seen(call[t])']
BY DEF Others, Requests

LEMMA Stutters ==
    ASSUME NEW t \in Threads, Others(t), file' = file, changes' = changes,
           Seen(call[t])' = Seen(call[t])
    PROVE  UNCHANGED Atomic!vars
<1>1. Requests' = Requests
  BY RequestsStep DEF Requests
<1>. QED
  BY <1>1 DEF Atomic!vars, Requests

\* A call that goes on without having taken effect looks the same.
LEMMA GoingOn ==
    ASSUME TypeOK, NEW t \in Threads, NEW pc \in Phases, Goto(t, pc),
           pc \notin {"idle", "sync", "return"}, call[t].pc \notin {"idle", "sync", "return"}
    PROVE  Seen(call[t])' = Seen(call[t])
<1>1. Stage(call[t]) = "called" /\ Stage(call[t])' = "called"
  BY StageSays, GotoSays DEF TypeOK, CallState
<1>. QED
  BY <1>1, GotoSays DEF Seen, Kept

\* How a call that takes effect looks to its caller.
LEMMA SeenApplied ==
    ASSUME NEW c, NEW d, c.pc # "idle", d.pc # "idle", Stage(d) = "applied",
           d.op = c.op, d.expected = c.expected
    PROVE  /\ Seen(d) = [[Seen(c) EXCEPT !.stage = "applied"] EXCEPT !.payload = d.payload]
           /\ d.payload = c.payload => Seen(d) = [Seen(c) EXCEPT !.stage = "applied"]
<1>0. PICK p : p = d.payload
  OBVIOUS
<1>1. Seen(d) = [op |-> c.op, stage |-> "applied", expected |-> c.expected, payload |-> p,
                 answer |-> "none"]
  BY <1>0 DEF Seen
<1>2. PICK r : r = [op |-> c.op, stage |-> Stage(c), expected |-> c.expected,
                    payload |-> c.payload, answer |-> "none"]
  OBVIOUS
<1>3. Seen(c) = r
  BY <1>2 DEF Seen
<1>4. PICK q : q = [op |-> c.op, stage |-> "applied", expected |-> c.expected,
                    payload |-> c.payload, answer |-> "none"]
  OBVIOUS
<1>5. [r EXCEPT !.stage = "applied"] = q
  BY <1>2, <1>4
<1>6. [q EXCEPT !.payload = p] = [op |-> c.op, stage |-> "applied", expected |-> c.expected,
                                  payload |-> p, answer |-> "none"]
  BY <1>4
<1>7. d.payload = c.payload => Seen(d) = q
  BY <1>0, <1>1, <1>4
<1>. QED
  BY <1>0, <1>1, <1>3, <1>5, <1>6, <1>7

LEMMA AtomicStep ==
    ASSUME LocalAssumption, TypeOK, LockInv, CheckedInv, NEW t \in Threads, Step(t)
    PROVE  Atomic!Next \/ UNCHANGED Atomic!vars
<1>. DEFINE R == Requests
<1>0. /\ PhaseShape(call[t]) /\ Checked(t)
      /\ call[t] \in CallState
      /\ R = [u \in Threads |-> Seen(call[u])]
      /\ R[t] = Seen(call[t])
  BY DEF LockInv, CheckedInv, Requests, TypeOK
<1>1. ASSUME NEW r, Others(t), Seen(call[t])' = r, file' = file, changes' = changes,
             Stage(call[t]) = "idle",
             \/ \E e \in None..MaxRevision, v \in 0..MaxRevision, i \in 0..changes :
                  r = Atomic!Request("save", e, Encoded(v, i))
             \/ \E e \in 0..MaxRevision : r = Atomic!Request("delete", e, Missing)
             \/ r = Atomic!Request("load", None, Missing)
      PROVE  Atomic!Next
  <2>1. R' = [R EXCEPT ![t] = r]
    BY <1>1, RequestsStep
  <2>2. R[t].stage = "idle"
    BY <1>0, <1>1, SeenSays
  <2>3. Atomic!Begin(t, r)
    BY <1>1, <2>1, <2>2 DEF Atomic!Begin, Requests
  <2>4. \A e, v, i : Encoded(v, i) = Atomic!Encoded(v, i)
    BY DEF Encoded, Atomic!Encoded, Atomic!SchemaVersion, SchemaVersion
  <2>5. None = Atomic!None /\ Missing = Atomic!Missing
    BY DEF Atomic!None, None, Atomic!Missing, Missing, Atomic!SchemaVersion, SchemaVersion
  <2>6. Atomic!Invoke(t)
    <3>1. CASE \E e \in None..MaxRevision, v \in 0..MaxRevision, i \in 0..changes :
                  r = Atomic!Request("save", e, Encoded(v, i))
      <4>1. PICK e \in None..MaxRevision, v \in 0..MaxRevision, i \in 0..changes :
                  r = Atomic!Request("save", e, Atomic!Encoded(v, i))
        BY <2>4, <3>1
      <4>. QED
        BY <2>3, <2>5, <4>1 DEF Atomic!Invoke
    <3>2. CASE \E e \in 0..MaxRevision : r = Atomic!Request("delete", e, Missing)
      BY <2>3, <2>5, <3>2 DEF Atomic!Invoke
    <3>3. CASE r = Atomic!Request("load", None, Missing)
      BY <2>3, <2>5, <3>3 DEF Atomic!Invoke
    <3>. QED
      BY <1>1, <3>1, <3>2, <3>3
  <2>. QED
    BY <2>6 DEF Atomic!Next
<1>2. CASE BeginSave(t)
  <2>1. PICK e \in None..MaxRevision, v \in 0..MaxRevision, i \in 0..changes :
            Begin(t, Call("save", "lock", e, Encoded(v, i)))
    BY <1>2 DEF BeginSave
  <2>2. Others(t) /\ call'[t] = Call("save", "lock", e, Encoded(v, i))
    BY <2>1, BeginSays
  <2>3. Seen(call[t])' = Atomic!Request("save", e, Encoded(v, i))
    BY <2>2 DEF Seen, Stage, Call, Atomic!Request, Atomic!Encoded, Encoded
  <2>4. call[t].pc = "idle" /\ file' = file /\ changes' = changes
    BY <2>1, FileStays DEF Begin, At
  <2>. QED
    BY <1>1, <2>2, <2>3, <2>4, StageSays
<1>3. CASE BeginDelete(t)
  <2>1. PICK e \in 0..MaxRevision : Begin(t, Call("delete", "lock", e, Missing))
    BY <1>3 DEF BeginDelete
  <2>2. Others(t) /\ call'[t] = Call("delete", "lock", e, Missing)
    BY <2>1, BeginSays
  <2>3. Seen(call[t])' = Atomic!Request("delete", e, Missing)
    BY <2>2 DEF Seen, Stage, Call, Atomic!Request
  <2>4. call[t].pc = "idle" /\ file' = file /\ changes' = changes
    BY <2>1, FileStays DEF Begin, At
  <2>. QED
    BY <1>1, <2>2, <2>3, <2>4, StageSays
<1>4. CASE BeginLoad(t)
  <2>1. Begin(t, Call("load", "lockShared", None, Missing))
    BY <1>4 DEF BeginLoad
  <2>2. Others(t) /\ call'[t] = Call("load", "lockShared", None, Missing)
    BY <2>1, BeginSays
  <2>3. Seen(call[t])' = Atomic!Request("load", None, Missing)
    BY <2>2 DEF Seen, Stage, Call, Atomic!Request
  <2>4. call[t].pc = "idle" /\ file' = file /\ changes' = changes
    BY <2>1, FileStays DEF Begin, At
  <2>. QED
    BY <1>1, <2>2, <2>3, <2>4, StageSays
<1>5. ASSUME NEW pc \in Phases \ {"idle", "sync", "return"}, Goto(t, pc),
             call[t].pc \notin {"idle", "sync", "return"}, UNCHANGED <<entries, changes>>
      PROVE  UNCHANGED Atomic!vars
  BY <1>5, GoingOn, GotoSays, FileStays, Stutters
\* The call is refused because the revision it names is not the file's.
<1>6. ASSUME Ends(t, "conflict"), At(t, "check"), UNCHANGED <<entries, changes>>,
             \/ /\ call[t].op = "save"
                /\ ~CasAccepts(file.revision, call[t].expected, call[t].payload.revision)
             \/ call[t].op = "delete" /\ file.revision # call[t].expected
      PROVE  Atomic!Next
  <2>1. Others(t) /\ Stage(call[t]) = "called" /\ file' = file /\ changes' = changes
    BY <1>6, EndsSays, StageSays, FileStays DEF At, Phases
  <2>2. Seen(call[t])' = [Seen(call[t]) EXCEPT !.stage = "refused"]
    BY <1>6, EndsSays, StageSays DEF Seen, Kept, At
  <2>3. R' = [R EXCEPT ![t] = [Seen(call[t]) EXCEPT !.stage = "refused"]]
    BY <2>1, <2>2, RequestsStep
  <2>4. Atomic!Refuse(t)
    BY <1>0, <2>1, <2>3 DEF Atomic!Refuse, Requests
  <2>5. R[t].stage = "called" /\ R[t].op = call[t].op /\ R[t].expected = call[t].expected
        /\ R[t].payload = call[t].payload
    BY <1>0, <2>1, SeenSays
  <2>6. Atomic!Save(t) \/ Atomic!Delete(t)
    BY <1>6, <2>4, <2>5 DEF Atomic!Save, Atomic!Delete, Atomic!CasAccepts, CasAccepts, Requests,
                            Atomic!None, None
  <2>. QED
    BY <2>6 DEF Atomic!Next
\* The call is answered with the file, which needs no migration.
<1>7. ASSUME Serve(t), call[t].op = "load", At(t, "read") \/ At(t, "check"), ~NeedsMigration(file),
             UNCHANGED <<entries, changes>>
      PROVE  Atomic!Next
  <2>1. Others(t) /\ Stage(call[t]) = "called" /\ file' = file /\ changes' = changes
    BY <1>7, ServeSays, StageSays, FileStays DEF At, Phases
  <2>2. Seen(call[t])' = [[Seen(call[t]) EXCEPT !.stage = "applied"] EXCEPT !.payload = file]
    <3>1. PICK c, d, p : c = call[t] /\ d = call'[t] /\ p = file
      OBVIOUS
    <3>2. Stage(d) = "applied" /\ d.pc # "idle" /\ c.pc # "idle" /\ d.payload = p
          /\ d.op = c.op /\ d.expected = c.expected
      BY <1>7, <3>1, ServeSays, StageSays DEF Kept, At
    <3>3. Seen(call[t])' = Seen(d)
      BY <3>1 DEF Seen, Stage
    <3>4. Seen(d) = [[Seen(c) EXCEPT !.stage = "applied"] EXCEPT !.payload = p]
      <4>1. Seen(d) = [[Seen(c) EXCEPT !.stage = "applied"] EXCEPT !.payload = d.payload]
        BY <3>2, SeenApplied, Zenon
      <4>. QED
        BY <3>2, <4>1, Zenon
    <3>. QED
      BY <3>1, <3>3, <3>4, Zenon
  <2>3. R' = [R EXCEPT ![t] = [[Seen(call[t]) EXCEPT !.stage = "applied"] EXCEPT !.payload = file']]
    BY <2>1, <2>2, RequestsStep
  <2>4. R[t].stage = "called" /\ R[t].op = "load"
    BY <1>0, <1>7, <2>1, SeenSays
  <2>5. Atomic!Load(t)
    BY <1>0, <1>7, <2>1, <2>3, <2>4
       DEF Atomic!Load, Atomic!NeedsMigration, Atomic!SchemaVersion, NeedsMigration, SchemaVersion, Requests
  <2>. QED
    BY <2>5 DEF Atomic!Next
<1>8. CASE LockShared(t)
  <2>1. Goto(t, "read") /\ At(t, "lockShared") /\ UNCHANGED <<entries, changes>>
    BY <1>8 DEF LockShared
  <2>. QED
    BY <1>5, <2>1 DEF At, Phases
<1>9. CASE LockExclusive(t)
  <2>1. Goto(t, "check") /\ At(t, "lock") /\ UNCHANGED <<entries, changes>>
    BY <1>9 DEF LockExclusive
  <2>. QED
    BY <1>5, <2>1 DEF At, Phases
<1>10. CASE Read(t)
  <2>1. At(t, "read") /\ call[t].op = "load" /\ UNCHANGED <<entries, changes>>
    BY <1>0, <1>10 DEF Read, At, PhaseShape
  <2>2. CASE Goto(t, "lock")
    BY <1>5, <2>1, <2>2 DEF At, Phases
  <2>3. CASE Serve(t) /\ ~NeedsMigration(file)
    BY <1>7, <2>1, <2>3
  <2>. QED
    BY <1>10, <2>2, <2>3 DEF Read
<1>11. CASE Check(t)
  <2>1. At(t, "check") /\ UNCHANGED <<entries, changes>>
    BY <1>11 DEF Check
  <2>2. CASE Goto(t, "write") \/ Goto(t, "unlink")
    BY <1>5, <2>1, <2>2 DEF At, Phases
  <2>. QED
    BY <1>6, <1>7, <1>11, <2>1, <2>2 DEF Check
<1>12. CASE WriteTemporary(t)
  <2>1. At(t, "write") /\ (Goto(t, "replace") \/ Goto(t, "cleanup")) /\ UNCHANGED <<entries, changes>>
    BY <1>12 DEF WriteTemporary
  <2>. QED
    BY <1>5, <2>1 DEF At, Phases
\* The call takes effect: the file changes to p.
<1>13. ASSUME NEW p \in Payload, Change(t, p), At(t, "replace") \/ At(t, "unlink")
       PROVE  /\ file' = p /\ changes' = changes + 1
              /\ R[t].stage = "called"
              /\ R' = [R EXCEPT ![t] = Seen(call[t])']
              /\ Seen(call[t])' = IF call[t].op = "load"
                                    THEN [[Seen(call[t]) EXCEPT !.stage = "applied"] EXCEPT !.payload = p]
                                    ELSE [Seen(call[t]) EXCEPT !.stage = "applied"]
  <2>1. file' = p /\ changes' = changes + 1
    BY <1>13, FileChanges DEF Change
  <2>2. Stage(call[t]) = "called" /\ Stage(call[t])' = "applied"
    BY <1>13, ChangeSays, StageSays DEF At, Phases
  <2>3. R[t].stage = "called" /\ R' = [R EXCEPT ![t] = Seen(call[t])']
    BY <1>0, <1>13, <2>2, ChangeSays, RequestsStep, SeenSays
  <2>4. Seen(call[t])' = IF call[t].op = "load"
                          THEN [[Seen(call[t]) EXCEPT !.stage = "applied"] EXCEPT !.payload = p]
                          ELSE [Seen(call[t]) EXCEPT !.stage = "applied"]
    <3>1. PICK c, d : c = call[t] /\ d = call'[t]
      OBVIOUS
    <3>2. /\ Stage(d) = "applied" /\ d.pc # "idle" /\ c.pc # "idle"
          /\ d.op = c.op /\ d.expected = c.expected
          /\ d.payload = IF c.op = "load" THEN p ELSE c.payload
      <4>1. Others(t) /\ Kept(t) /\ call'[t].pc = "sync"
            /\ call'[t].payload = IF call[t].op = "load" THEN p ELSE call[t].payload
        BY <1>13, ChangeSays
      <4>2. call[t].pc # "idle"
        BY <1>13 DEF At
      <4>3. Stage(d) = "applied"
        BY <3>1, <4>1, StageSays
      <4>. QED
        BY <3>1, <4>1, <4>2, <4>3 DEF Kept
    <3>3. Seen(call[t])' = Seen(d)
      BY <3>1 DEF Seen, Stage
    <3>4. Seen(d) = IF c.op = "load"
                    THEN [[Seen(c) EXCEPT !.stage = "applied"] EXCEPT !.payload = p]
                    ELSE [Seen(c) EXCEPT !.stage = "applied"]
      <4>1. CASE c.op = "load"
        <5>1. d.payload = p
          BY <3>2, <4>1
        <5>2. Seen(d) = [[Seen(c) EXCEPT !.stage = "applied"] EXCEPT !.payload = d.payload]
          BY <3>2, SeenApplied, Zenon
        <5>. QED
          BY <4>1, <5>1, <5>2, Zenon
      <4>2. CASE c.op # "load"
        <5>1. d.payload = c.payload
          BY <3>2, <4>2
        <5>2. Seen(d) = [Seen(c) EXCEPT !.stage = "applied"]
          BY <3>2, <5>1, SeenApplied, Zenon
        <5>. QED
          BY <4>2, <5>2
      <4>. QED
        BY <4>1, <4>2
    <3>. QED
      BY <3>1, <3>3, <3>4, Zenon
  <2>. QED
    BY <2>1, <2>2, <2>3, <2>4
<1>14. CASE Replace(t)
  <2>1. At(t, "replace") /\ call[t].op \in {"save", "load"}
    BY <1>0, <1>14 DEF Replace, At, PhaseShape
  <2>2. CASE Goto(t, "cleanup") /\ UNCHANGED <<entries, changes>>
    BY <1>5, <2>1, <2>2 DEF At, Phases
  <2>3. CASE call[t].op = "load" /\ Change(t, Upgraded(file, changes + 1))
    <3>1. PICK p \in Payload : p = Upgraded(file, changes + 1)
      BY UpgradedTyped, FileNumbered DEF TypeOK
    <3>2. Change(t, p)
      BY <2>3, <3>1
    <3>3. /\ R[t].stage = "called" /\ R[t].op = "load"
          /\ file' = p /\ changes' = changes + 1
          /\ R' = [R EXCEPT ![t] = [[R[t] EXCEPT !.stage = "applied"] EXCEPT !.payload = file']]
      BY ZenonT(40), <1>0, <1>13, <2>1, <2>3, <3>2, SeenSays
    <3>4. NeedsMigration(file)
      BY <1>0, <2>1, <2>3 DEF Checked, At
    <3>5. Atomic!Load(t)
      BY <3>1, <3>3, <3>4
         DEF Atomic!Load, Atomic!NeedsMigration, Atomic!SchemaVersion, NeedsMigration, SchemaVersion,
             Requests, Atomic!Upgraded, Upgraded
    <3>. QED
      BY <3>5 DEF Atomic!Next
  <2>4. CASE call[t].op = "save" /\ Change(t, Written(call[t].payload, changes + 1))
    <3>1. PICK p \in Payload : p = Written(call[t].payload, changes + 1)
      BY WrittenTyped DEF TypeOK, CallState
    <3>2. Change(t, p)
      BY <2>4, <3>1
    <3>3. /\ R[t].stage = "called" /\ R[t].op = "save"
          /\ R[t].payload = call[t].payload /\ R[t].expected = call[t].expected
          /\ file' = p /\ changes' = changes + 1
      BY <1>0, <1>13, <2>1, <2>4, <3>2, SeenSays
    <3>4. R' = [R EXCEPT ![t] = [R[t] EXCEPT !.stage = "applied"]]
      BY <1>0, <1>13, <2>1, <2>4, <3>2
    <3>5. CasAccepts(file.revision, call[t].expected, call[t].payload.revision)
      BY <1>0, <2>1, <2>4 DEF Checked, At
    <3>6. Atomic!Save(t)
      BY <3>1, <3>3, <3>4, <3>5
         DEF Atomic!Save, Atomic!CasAccepts, CasAccepts, Atomic!Written, Written, Requests,
             Atomic!None, None
    <3>. QED
      BY <3>6 DEF Atomic!Next
  <2>. QED
    BY <1>14, <2>1, <2>2, <2>3, <2>4 DEF Replace
<1>15. CASE Cleanup(t)
  <2>1. Ends(t, "error") /\ At(t, "cleanup") /\ UNCHANGED <<entries, changes>>
    BY <1>15 DEF Cleanup
  <2>2. Seen(call[t])' = Seen(call[t])
    BY <2>1, EndsSays, StageSays DEF Seen, Kept, At, Phases
  <2>. QED
    BY <2>1, <2>2, EndsSays, FileStays, Stutters
<1>16. CASE Unlink(t)
  <2>1. At(t, "unlink") /\ call[t].op = "delete"
    BY <1>0, <1>16 DEF Unlink, At, PhaseShape
  <2>2. CASE Ends(t, "error") /\ UNCHANGED <<entries, changes>>
    <3>1. Seen(call[t])' = Seen(call[t])
      BY <2>1, <2>2, EndsSays, StageSays DEF Seen, Kept, At, Phases
    <3>. QED
      BY <2>2, <3>1, EndsSays, FileStays, Stutters
  <2>3. CASE Change(t, Removed(changes + 1))
    <3>1. PICK p \in Payload : p = Removed(changes + 1)
      BY RemovedTyped DEF TypeOK
    <3>2. Change(t, p)
      BY <2>3, <3>1
    <3>3. /\ R[t].stage = "called" /\ R[t].op = "delete"
          /\ R[t].expected = call[t].expected
          /\ file' = p /\ changes' = changes + 1
      BY <1>0, <1>13, <2>1, <3>2, SeenSays
    <3>4. R' = [R EXCEPT ![t] = [R[t] EXCEPT !.stage = "applied"]]
      BY <1>0, <1>13, <2>1, <3>2
    <3>5. file.revision = call[t].expected
      BY <1>0, <2>1 DEF Checked, At
    <3>6. Atomic!Delete(t)
      BY <3>1, <3>3, <3>4, <3>5
         DEF Atomic!Delete, Atomic!Removed, Removed, Atomic!Missing, Missing, Requests, Atomic!None, None,
             Atomic!SchemaVersion, SchemaVersion
    <3>. QED
      BY <3>6 DEF Atomic!Next
  <2>. QED
    BY <1>16, <2>2, <2>3 DEF Unlink
<1>17. CASE SyncDirectory(t)
  <2>1. /\ At(t, "sync") /\ (Ends(t, "ok") \/ Ends(t, "unsynced"))
        /\ file' = file /\ changes' = changes
    BY <1>17, FileStays DEF SyncDirectory
  <2>2. Seen(call[t])' = Seen(call[t])
    BY <2>1, EndsSays, StageSays DEF Seen, Kept, At
  <2>. QED
    BY <2>1, <2>2, EndsSays, Stutters
<1>18. CASE Return(t)
  <2>1. Others(t) /\ file' = file /\ changes' = changes /\ At(t, "return")
    BY <1>18, ReturnSays, FileStays DEF Return
  <2>2. call[t].answer \in {"ok", "conflict", "error", "unsynced"}
    BY <1>0, <2>1 DEF PhaseShape, CallState, Answers, At
  <2>3. PICK a : a = Told(call[t].answer)
    OBVIOUS
  <2>4. R[t].stage # "idle" /\ a \in Atomic!Answers(R[t].stage)
    <3>1. R[t].stage = Stage(call[t])
      BY <1>0, SeenSays
    <3>2. CASE call[t].answer = "ok"
      BY <2>1, <2>3, <3>1, <3>2, StageSays DEF At, Told, Atomic!Answers
    <3>3. CASE call[t].answer = "unsynced"
      BY <2>1, <2>3, <3>1, <3>3, StageSays DEF At, Told, Atomic!Answers
    <3>4. CASE call[t].answer = "conflict"
      BY <2>1, <2>3, <3>1, <3>4, StageSays DEF At, Told, Atomic!Answers
    <3>5. CASE call[t].answer = "error"
      BY <2>1, <2>3, <3>1, <3>5, StageSays DEF At, Told, Atomic!Answers
    <3>. QED
      BY <2>2, <3>2, <3>3, <3>4, <3>5
  <2>5. Seen(call[t])' = Atomic!Answered(R[t], a)
    <3>1. PICK d : d = call'[t]
      OBVIOUS
    <3>2. PICK p : p = IF call[t].op = "load" /\ call[t].answer = "ok" THEN call[t].payload
                                                                     ELSE Missing
      OBVIOUS
    <3>3. /\ d.op = "none" /\ d.pc = "idle" /\ d.expected = None
          /\ d.answer = a /\ d.payload = p
      BY <1>18, <2>3, <3>1, <3>2, ReturnSays
    <3>4. Seen(d) = [op |-> "none", stage |-> "idle", expected |-> None, payload |-> p,
                     answer |-> a]
      BY <3>3, StageSays DEF Seen
    <3>5. a = "ok" <=> call[t].answer = "ok"
      BY <2>2, <2>3 DEF Told
    <3>6. p = IF R[t].op = "load" /\ a = "ok" THEN R[t].payload ELSE Atomic!Missing
      BY <1>0, <3>2, <3>5, SeenSays
         DEF Atomic!None, None, Atomic!Missing, Missing, Atomic!SchemaVersion, SchemaVersion
    <3>7. Atomic!Answered(R[t], a) = [op |-> "none", stage |-> "idle", expected |-> None,
                                      payload |-> p, answer |-> a]
      <4>1. PICK q : q = Atomic!Quiet
        OBVIOUS
      <4>2. PICK r : r = [op |-> "none", stage |-> "idle", expected |-> None,
                          payload |-> Atomic!Missing, answer |-> a]
        OBVIOUS
      <4>3. [q EXCEPT !.answer = a] = r
        BY <4>1, <4>2 DEF Atomic!Quiet, Atomic!None, None
      <4>4. [r EXCEPT !.payload = p] = [op |-> "none", stage |-> "idle", expected |-> None,
                                        payload |-> p, answer |-> a]
        BY <4>2
      <4>5. Atomic!Answered(R[t], a) = [[q EXCEPT !.answer = a] EXCEPT !.payload = p]
        BY <3>6, <4>1, Zenon DEF Atomic!Answered
      <4>. QED
        BY <4>3, <4>4, <4>5
    <3>8. Seen(call[t])' = Seen(d)
      BY <3>1 DEF Seen, Stage
    <3>. QED
      BY <3>4, <3>7, <3>8, Zenon
  <2>6. R' = [R EXCEPT ![t] = Atomic!Answered(R[t], a)]
    BY <2>1, <2>5, RequestsStep
  <2>7. Atomic!Return(t)
    BY <2>1, <2>4, <2>6 DEF Atomic!Return, Requests
  <2>. QED
    BY <2>7 DEF Atomic!Next
<1>19. CASE Crash(t)
  <2>1. Others(t) /\ call'[t] = Idle /\ file' = file /\ changes' = changes
    BY <1>19, CrashSays, FileStays DEF Crash
  <2>2. Seen(call[t])' = Atomic!Quiet
    BY <2>1 DEF Seen, Idle, Stage, Atomic!Quiet, Atomic!None, None, Atomic!Missing, Missing,
                Atomic!SchemaVersion, SchemaVersion
  <2>3. R' = [R EXCEPT ![t] = Atomic!Quiet]
    BY <2>1, <2>2, RequestsStep
  <2>4. Atomic!Vanish(t)
    BY <2>1, <2>3 DEF Atomic!Vanish, Requests
  <2>. QED
    BY <2>4 DEF Atomic!Next
<1>. QED
  BY <1>2, <1>3, <1>4, <1>8, <1>9, <1>10, <1>11, <1>12, <1>14, <1>15, <1>16, <1>17, <1>18, <1>19 DEF Step

LEMMA AtomicInit == ASSUME Init PROVE Atomic!Init
<1>1. PICK p \in {Missing} \cup (IF Legacy THEN {OldFile} ELSE {}) : entries = <<p>>
  BY DEF Init
<1>2. file = p
  BY <1>1, SingleFile DEF file
<1>3. Seen(Idle) = Atomic!Quiet
  BY DEF Seen, Idle, Stage, Atomic!Quiet, Atomic!None, None, Atomic!Missing, Missing,
         Atomic!SchemaVersion, SchemaVersion
<1>4. [u \in Threads |-> Seen(call[u])] = [u \in Threads |-> Atomic!Quiet]
  BY <1>3 DEF Init
<1>5. Missing = Atomic!Missing /\ OldFile = Atomic!OldFile
  BY DEF Missing, OldFile, Atomic!Missing, Atomic!OldFile, Atomic!None, None, Atomic!SchemaVersion, SchemaVersion
<1>. QED
  BY <1>1, <1>2, <1>4, <1>5 DEF Init, Atomic!Init

\* If the power is never cut, all threads of all processes together behave like
\* one repository whose calls are atomic, whatever else fails or dies.
THEOREM LocalIsAtomic ==
    ASSUME LocalAssumption, "power" \notin Disturbances
    PROVE  Spec => Linearizable
<1>1. Init => Atomic!Init
  BY AtomicInit
<1>2. TypeOK /\ LockInv /\ CheckedInv /\ [Next]_vars => [Atomic!Next]_(Atomic!vars)
  <2>1. UNCHANGED vars => UNCHANGED Atomic!vars
    BY DEF vars, Atomic!vars, file
  <2>2. ~PowerCut
    BY DEF PowerCut
  <2>. QED
    BY <2>1, <2>2, AtomicStep, LocalAssumption DEF Next
<1>. QED
  BY <1>1, <1>2, CheckedInvariant, LocalAssumption, PTL DEF Spec, Linearizable, Atomic!Spec
=============================================================================
