------------------------------ MODULE RunProofs ------------------------------
(***************************************************************************)
(* Theorems about Run, for any number of turns and of steered inputs: the  *)
(* outcome is what happened, a retry is called safe only when it is, and   *)
(* the root outlives its child; with the inductive invariant that says     *)
(* where the child may be while the root is somewhere, and what a Run      *)
(* knows of itself from phase to phase.                                    *)
(***************************************************************************)
EXTENDS Run, TLAPS

Late == {"ended", "finalizing", "closing", "releasing"} \cup Over
Judged == {"closing", "releasing"} \cup Over
RunPcs == {"idle", "starting"} \cup LoopPcs \cup Late

Errors == {"none", "other", "timeout", "max_turns", "hook_error", "context_error", "model_error",
           "tool_error", "transcript_commit_error", "session_persistence_error",
           "materialization_failed", "cleanup_error", "cleanup_hook_error"}

RunRecords ==
    [pc : RunPcs, turn : 0..MaxTurns, status : {"none", "completed", "failed", "cancelled"},
     error : Errors, output : BOOLEAN, unclean : BOOLEAN, retrySafe : BOOLEAN]
SessionRecords ==
    [owner : BOOLEAN, closed : BOOLEAN, pending : Nat, answered : BOOLEAN, inputs : Nat]

Events == Runs \X {"started", "terminal"}

RunTypes ==
    /\ run \in [Runs -> RunRecords]
    /\ token \in [Runs -> {"no", "user", "timeout"}]
    /\ timer \in [Runs -> BOOLEAN]
    /\ session \in [Runs -> SessionRecords]
    /\ effect \in [Runs -> {"none", "done", "committed"}]
    /\ log \in Seq(Events)
    /\ abandoned \in BOOLEAN /\ lost \in BOOLEAN

\* What a Run knows of itself: it has a status from the moment the loop is left, and a
\* completed one has answered, with nothing gone wrong since.
KnowsItself(r) ==
    /\ run[r].pc \notin {"idle"} \cup Over <=> session[r].owner
    /\ run[r].status = "none" <=> run[r].pc \notin Late
    /\ run[r].pc \notin Late => run[r].error = "none" /\ ~run[r].unclean
    /\ run[r].status = "failed" <=> run[r].error # "none"
    /\ run[r].status = "completed" => session[r].answered /\ ~run[r].unclean
    /\ run[r].pc \in Late => ~timer[r]

\* The token of the root stays what it was when the Run was found cancelled: nothing
\* can time out any more.
CancelledInv ==
    /\ \A r \in Runs : KnowsItself(r)
    /\ run[Root].status = "cancelled" => token[Root] # "timeout"

\* The child is under way only while the root waits for it, unless it was abandoned; and
\* the root's terminal event is the last thing it does.
ChildInv ==
    /\ run[Root].pc = "delegating" => run[Child].pc # "idle"
    /\ run[Child].pc = "idle" => session[Child].closed
    /\ Mute(Root) <=> run[Root].pc = "done"
    /\ run[Root].pc # "died"
    /\ abandoned => run[Root].pc \in Late
    /\ ~abandoned =>
         /\ run[Child].pc \in {"idle", "done"} \/ run[Root].pc = "delegating"
         /\ run[Child].pc # "died"
         /\ run[Child].pc = "done" /\ run[Root].pc # "delegating" => session[Child].closed

\* Once judged safe nothing is done, in the Run or below it, but by an abandoned child.
EffectInv ==
    /\ lost => abandoned
    /\ run[Root].pc \in Judged /\ run[Root].retrySafe /\ ~abandoned =>
         \A r \in Runs : effect[r] # "done"
    /\ run[Root].retrySafe => run[Root].pc \in Judged

RunInv == RunTypes /\ CancelledInv /\ ChildInv /\ EffectInv

-----------------------------------------------------------------------------
LEMMA RunInitSafe == RunInit => RunInv
<1> SUFFICES ASSUME RunInit PROVE RunInv
  OBVIOUS
<1>1. Idle \in RunRecords /\ Idle.pc = "idle" /\ Idle.status = "none" /\ Idle.error = "none"
      /\ ~Idle.unclean /\ ~Idle.retrySafe
  BY RunAssumption DEF Idle, RunRecords, RunPcs, Errors
<1>2. \A r \in Runs : run[r] = Idle /\ ~session[r].owner /\ session[r] \in SessionRecords
                      /\ (r = Child => session[r].closed)
  BY DEF RunInit, SessionRecords
<1>3. RunTypes
  <2>1. <<>> \in Seq(Events)
    OBVIOUS
  <2> QED
    BY <1>1, <1>2, <2>1 DEF RunInit, RunTypes
<1>4. CancelledInv
  BY <1>1, <1>2 DEF RunInit, CancelledInv, KnowsItself, Late, Over, Root, Runs
<1>5. ChildInv
  BY <1>1, <1>2 DEF RunInit, ChildInv, Mute, Root, Child, Runs
<1>6. EffectInv
  BY <1>1, <1>2 DEF RunInit, EffectInv, Judged, Over, Root, Runs
<1> QED
  BY <1>3, <1>4, <1>5, <1>6 DEF RunInv

-----------------------------------------------------------------------------
\* Steps of the loop.

\* A Run in its loop, but not one that waits for its child, goes on to another step of
\* it, or leaves it.
Busy == ({"starting"} \cup LoopPcs) \ {"delegating"}
LoopMove(r) ==
    LET x == run[r]  y == run'[r] IN
    /\ x.pc \in Busy
    /\ y.retrySafe = x.retrySafe /\ y.unclean = x.unclean
    /\ \/ y.pc \in Busy \ {"starting"} /\ y.status = x.status /\ y.error = x.error
       \/ /\ y.pc = "ended" /\ ~timer'[r]
          /\ \/ y.status = "completed" /\ y.error = "none" /\ session'[r].answered
             \/ y.status = "failed" /\ y.error # "none"
             \/ y.status = "cancelled" /\ y.error = "none" /\ Reason(r) # "timeout"

LEMMA LoopMoveSafe ==
    ASSUME RunInv, RunTypes', NEW r \in Runs, LoopMove(r),
           UNCHANGED <<token, toolToken, abandoned>>, (Mute(Root)' <=> Mute(Root)),
           \A q \in Runs \ {r} : run'[q] = run[q] /\ timer'[q] = timer[q]
                                 /\ session'[q] = session[q],
           session'[r].owner = session[r].owner, session'[r].closed = session[r].closed,
           session[r].answered => session'[r].answered,
           lost' => lost \/ Frozen(r),
           \/ \A q \in Runs : effect'[q] = "done" => effect[q] = "done"
           \/ ~Frozen(r) /\ \A q \in Runs \ {r} : effect'[q] = effect[q]
    PROVE  RunInv'
<1> USE DEF Runs, Root, Child
<1>1. \A q \in Runs : KnowsItself(q)
  BY DEF RunInv, CancelledInv
<1>2. KnowsItself(r)'
  BY <1>1 DEF KnowsItself, LoopMove, Busy, LoopPcs, Late, Over
<1>3. \A q \in Runs \ {r} : KnowsItself(q)'
  BY <1>1 DEF KnowsItself
<1>4. CancelledInv'
  BY <1>2, <1>3 DEF RunInv, CancelledInv, LoopMove, Reason
<1>5. ChildInv'
  BY DEF RunInv, ChildInv, LoopMove, Busy, LoopPcs, Late, Over
<1>6. EffectInv'
  BY DEF RunInv, EffectInv, ChildInv, LoopMove, Busy, LoopPcs, Late, Over, Judged, Frozen
<1> QED
  BY <1>4, <1>5, <1>6 DEF RunInv

LEMMA MuteAfter ==
    ASSUME log \in Seq(Events), NEW e \in Events, log' = Append(log, e)
    PROVE  log' \in Seq(Events) /\ (Mute(Root)' <=> Mute(Root) \/ e = <<Root, "terminal">>)
<1>1. log' \in Seq(Events) /\ Len(log') = Len(log) + 1 /\ Len(log) \in Nat
  OBVIOUS
<1>2. \A i \in 1..Len(log) : log'[i] = log[i]
  OBVIOUS
<1>3. log'[Len(log) + 1] = e
  OBVIOUS
<1>4. Mute(Root) => Mute(Root)'
  BY <1>1, <1>2 DEF Mute
<1>5. e = <<Root, "terminal">> => Mute(Root)'
  BY SMTT(30), <1>1, <1>3 DEF Mute
<1>6. ASSUME NEW i \in 1..Len(log'), log'[i] = <<Root, "terminal">>
      PROVE  Mute(Root) \/ e = <<Root, "terminal">>
  <2>1. CASE i = Len(log) + 1
    BY <1>3, <1>6, <2>1
  <2>2. CASE i # Len(log) + 1
    <3>1. i \in 1..Len(log)
      BY <1>1, <2>2
    <3> QED
      BY <1>2, <1>6, <3>1 DEF Mute
  <2> QED
    BY <2>1, <2>2
<1> QED
  BY <1>1, <1>4, <1>5, <1>6 DEF Mute

\* What a step of the loop makes of its Run and of the timer.
RunMoved(r) ==
    /\ run' \in [Runs -> RunRecords] /\ timer' \in [Runs -> BOOLEAN]
    /\ \A q \in Runs \ {r} : run'[q] = run[q] /\ timer'[q] = timer[q]
    /\ run'[r].retrySafe = run[r].retrySafe /\ run'[r].unclean = run[r].unclean

LEMMA GoesOnFields ==
    ASSUME RunTypes, NEW r \in Runs, NEW pc \in RunPcs, GoesOn(r, pc)
    PROVE  /\ RunMoved(r) /\ run'[r].pc = pc /\ run'[r].status = run[r].status
           /\ run'[r].error = run[r].error
<1>1. run[r] \in RunRecords /\ run \in [Runs -> RunRecords]
  BY DEF RunTypes
<1> DEFINE y == [run[r] EXCEPT !.pc = pc]
<1>2. /\ y \in RunRecords /\ y.pc = pc /\ y.status = run[r].status /\ y.error = run[r].error
      /\ y.retrySafe = run[r].retrySafe /\ y.unclean = run[r].unclean
  BY <1>1 DEF RunRecords
<1>3. run' = [run EXCEPT ![r] = y] /\ timer' = timer
  BY DEF GoesOn, Goto
<1> HIDE DEF y
<1> QED
  BY <1>1, <1>2, <1>3 DEF RunMoved, RunTypes

LEMMA EndsFields ==
    ASSUME RunTypes, NEW r \in Runs, NEW status \in {"completed", "failed", "cancelled"},
           NEW error \in Errors, Ends(r, status, error)
    PROVE  /\ RunMoved(r) /\ run'[r].pc = "ended" /\ run'[r].status = status
           /\ run'[r].error = error /\ ~timer'[r]
<1>1. run[r] \in RunRecords /\ run \in [Runs -> RunRecords] /\ timer \in [Runs -> BOOLEAN]
  BY DEF RunTypes
<1> DEFINE y == [run[r] EXCEPT !.pc = "ended", !.status = status, !.error = error]
<1>2. /\ y \in RunRecords /\ y.pc = "ended" /\ y.status = status /\ y.error = error
      /\ y.retrySafe = run[r].retrySafe /\ y.unclean = run[r].unclean
  BY <1>1 DEF RunRecords, RunPcs, Late
<1>3. run' = [run EXCEPT ![r] = y] /\ timer' = [timer EXCEPT ![r] = FALSE]
  BY DEF Ends
<1> HIDE DEF y
<1> QED
  BY <1>1, <1>2, <1>3 DEF RunMoved

\* The ways on from a step of the loop, other than with an answer.
OnOrOut(r, pcs) ==
    \/ \E pc \in pcs : GoesOn(r, pc)
    \/ EndsCancelled(r)
    \/ \E error \in Errors \ {"none"} : Fails(r, error)

LEMMA OnOrOutMoves ==
    ASSUME RunTypes, NEW r \in Runs, run[r].pc \in Busy, OnOrOut(r, Busy \ {"starting"})
    PROVE  LoopMove(r) /\ RunMoved(r)
<1>1. Busy \ {"starting"} \subseteq RunPcs
  BY DEF Busy, RunPcs
<1>2. ASSUME NEW pc \in Busy \ {"starting"}, GoesOn(r, pc) PROVE LoopMove(r) /\ RunMoved(r)
  BY <1>1, <1>2, GoesOnFields DEF LoopMove, RunMoved
<1>3. ASSUME NEW error \in Errors \ {"none"}, Fails(r, error) PROVE LoopMove(r) /\ RunMoved(r)
  BY <1>3, EndsFields DEF Fails, LoopMove, RunMoved
<1>4. CASE EndsCancelled(r)
  <2>1. CASE Reason(r) = "timeout"
    BY <1>3, <1>4, <2>1 DEF EndsCancelled, Errors
  <2>2. CASE Reason(r) # "timeout"
    <3>1. Ends(r, "cancelled", "none") /\ "none" \in Errors
      BY <1>4, <2>2 DEF EndsCancelled, Errors
    <3> QED
      BY <2>2, <3>1, EndsFields DEF LoopMove, RunMoved
  <2> QED
    BY <2>1, <2>2
<1> QED
  BY <1>2, <1>3, <1>4 DEF OnOrOut

\* A step that changes only its Run and the timer, but for its scope's effects.
LEMMA LoopStepSafe ==
    ASSUME RunInv, NEW r \in Runs, run[r].pc \in Busy, OnOrOut(r, Busy \ {"starting"}),
           UNCHANGED <<token, toolToken, session, abandoned>>,
           log' \in Seq(Events), (Mute(Root)' <=> Mute(Root)),
           effect' \in [Runs -> {"none", "done", "committed"}], lost' \in BOOLEAN,
           lost' => lost \/ Frozen(r),
           \/ \A q \in Runs : effect'[q] = "done" => effect[q] = "done"
           \/ ~Frozen(r) /\ \A q \in Runs \ {r} : effect'[q] = effect[q]
    PROVE  RunInv'
<1>1. LoopMove(r) /\ RunMoved(r)
  BY OnOrOutMoves DEF RunInv
<1>2. RunTypes'
  BY <1>1 DEF RunInv, RunTypes, RunMoved
<1> QED
  BY <1>1, <1>2, LoopMoveSafe DEF RunMoved

LEMMA OutcomeSafe ==
    ASSUME RunInv, NEW r \in Runs, run[r].pc \in Busy,
           Outcome(OnOrOut(r, Busy \ {"starting"}))
    PROVE  RunInv'
<1>1. (Mute(Root)' <=> Mute(Root))
  BY DEF Outcome, Mute
<1> QED
  BY <1>1, LoopStepSafe DEF Outcome, RunInv, RunTypes

LEMMA BeginSafe == ASSUME RunInv, NEW r \in Runs, Begin(r) PROVE RunInv'
<1>1. /\ run[r].pc \in Busy /\ OnOrOut(r, Busy \ {"starting"})
      /\ UNCHANGED <<token, toolToken, session, effect, abandoned, lost>>
  BY DEF Begin, At, Busy, LoopPcs, OnOrOut, Interruptible, Errors
<1>2. log' = log \/ log' = Append(log, <<r, "started">>)
  BY DEF Begin
<1>3. log' \in Seq(Events) /\ (Mute(Root)' <=> Mute(Root))
  <2>1. log \in Seq(Events) /\ <<r, "started">> \in Events
    BY DEF RunInv, RunTypes, Events
  <2>2. <<r, "started">> # <<Root, "terminal">>
    OBVIOUS
  <2>3. CASE log' = log
    BY <2>1, <2>3 DEF Mute
  <2>4. CASE log' = Append(log, <<r, "started">>)
    BY <2>1, <2>2, <2>4, MuteAfter
  <2> QED
    BY <1>2, <2>3, <2>4
<1> QED
  BY <1>1, <1>3, LoopStepSafe DEF RunInv, RunTypes

LEMMA CommitInitialSafe == ASSUME RunInv, NEW r \in Runs, CommitInitial(r) PROVE RunInv'
<1>1. run[r].pc \in Busy /\ Outcome(OnOrOut(r, Busy \ {"starting"}))
  BY DEF CommitInitial, Outcome, At, Busy, LoopPcs, OnOrOut, Interruptible, Errors
<1> QED
  BY <1>1, OutcomeSafe

LEMMA PrepareSafe == ASSUME RunInv, NEW r \in Runs, Prepare(r) PROVE RunInv'
<1>1. run[r].pc \in Busy /\ Outcome(OnOrOut(r, Busy \ {"starting"}))
  BY DEF Prepare, Outcome, At, Busy, LoopPcs, OnOrOut, Interruptible, Errors
<1> QED
  BY <1>1, OutcomeSafe

LEMMA BeforeModelSafe == ASSUME RunInv, NEW r \in Runs, BeforeModel(r) PROVE RunInv'
<1>1. run[r].pc \in Busy /\ Outcome(OnOrOut(r, Busy \ {"starting"}))
  BY DEF BeforeModel, Outcome, At, Busy, LoopPcs, OnOrOut, Interruptible, Checked, Errors
<1> QED
  BY <1>1, OutcomeSafe

LEMMA ModelSafe == ASSUME RunInv, NEW r \in Runs, Model(r) PROVE RunInv'
<1>1. run[r].pc \in Busy /\ Outcome(OnOrOut(r, Busy \ {"starting"}))
  BY DEF Model, Outcome, At, Busy, LoopPcs, OnOrOut, Interruptible, Errors
<1> QED
  BY <1>1, OutcomeSafe

LEMMA TurnSafe == ASSUME RunInv, NEW r \in Runs, Turn(r) PROVE RunInv'
<1>1. /\ run[r].pc = "turn" /\ run[r].pc \in Busy
      /\ UNCHANGED <<token, toolToken, effect, log, abandoned, lost>>
      /\ run \in [Runs -> RunRecords] /\ session \in [Runs -> SessionRecords]
  BY DEF Turn, At, Busy, LoopPcs, RunInv, RunTypes
<1>2. CASE OnOrOut(r, Busy \ {"starting"}) /\ UNCHANGED session
  <2>1. (Mute(Root)' <=> Mute(Root))
    BY <1>1 DEF Mute
  <2> QED
    BY <1>1, <1>2, <2>1, LoopStepSafe DEF RunInv, RunTypes
<1>3. CASE /\ run[r].turn < MaxTurns
           /\ run' = [run EXCEPT ![r] = [@ EXCEPT !.pc = "prepare", !.turn = run[r].turn + 1]]
           /\ session' = [session EXCEPT ![r].pending = IF run[r].turn = 0 THEN @ ELSE 0]
           /\ UNCHANGED timer
  <2> DEFINE y == [run[r] EXCEPT !.pc = "prepare", !.turn = run[r].turn + 1]
             z == [session[r] EXCEPT !.pending = IF run[r].turn = 0 THEN session[r].pending ELSE 0]
  <2>1. /\ y \in RunRecords /\ y.pc = "prepare" /\ y.status = run[r].status
        /\ y.error = run[r].error /\ y.retrySafe = run[r].retrySafe /\ y.unclean = run[r].unclean
    <3>1. run[r].turn + 1 \in 0..MaxTurns
      BY <1>1, <1>3, RunAssumption DEF RunRecords
    <3> QED
      BY <1>1, <3>1 DEF RunRecords, RunPcs, LoopPcs
  <2>2. /\ z \in SessionRecords /\ z.owner = session[r].owner /\ z.closed = session[r].closed
        /\ z.answered = session[r].answered
    BY <1>1 DEF SessionRecords
  <2>3. run' = [run EXCEPT ![r] = y] /\ session' = [session EXCEPT ![r] = z]
    <3>1. run' = [run EXCEPT ![r] = y]
      BY <1>1, <1>3
    <3>2. session' = [session EXCEPT ![r] = z]
      BY <1>1, <1>3 DEF SessionRecords
    <3> QED
      BY <3>1, <3>2
  <2> HIDE DEF y, z
  <2>4. RunTypes'
    BY <1>1, <1>3, <2>1, <2>2, <2>3 DEF RunInv, RunTypes
  <2>5. LoopMove(r)
    BY <1>1, <2>1, <2>3 DEF LoopMove, Busy, LoopPcs
  <2>6. (Mute(Root)' <=> Mute(Root))
    BY <1>1 DEF Mute
  <2> QED
    BY <1>1, <1>3, <2>2, <2>3, <2>4, <2>5, <2>6, LoopMoveSafe
<1>4. Turn(r) => \/ OnOrOut(r, Busy \ {"starting"}) /\ UNCHANGED session
                 \/ /\ run[r].turn < MaxTurns
                    /\ run' = [run EXCEPT ![r] = [@ EXCEPT !.pc = "prepare", !.turn = run[r].turn + 1]]
                    /\ session' = [session EXCEPT ![r].pending = IF run[r].turn = 0 THEN @ ELSE 0]
                    /\ UNCHANGED timer
  BY DEF Turn, OnOrOut, Errors
<1> QED
  BY <1>2, <1>3, <1>4

LEMMA AfterModelSafe == ASSUME RunInv, NEW r \in Runs, AfterModel(r) PROVE RunInv'
<1>1. /\ run[r].pc = "after" /\ run[r].pc \in Busy /\ run \in [Runs -> RunRecords]
      /\ UNCHANGED <<token, toolToken, session, effect, log, abandoned, lost>>
      /\ (Mute(Root)' <=> Mute(Root))
  BY DEF AfterModel, Outcome, At, Busy, LoopPcs, RunInv, RunTypes, Mute
<1>2. ASSUME NEW pc \in {"answer", "tools"}, UNCHANGED timer,
             run' = [run EXCEPT ![r] = [@ EXCEPT !.pc = pc, !.output = TRUE]]
      PROVE  RunInv'
  <2> DEFINE y == [run[r] EXCEPT !.pc = pc, !.output = TRUE]
  <2>1. /\ y \in RunRecords /\ y.pc = pc /\ y.status = run[r].status
        /\ y.error = run[r].error /\ y.retrySafe = run[r].retrySafe /\ y.unclean = run[r].unclean
    BY <1>1 DEF RunRecords, RunPcs, LoopPcs
  <2>2. run' = [run EXCEPT ![r] = y]
    BY <1>1, <1>2
  <2> HIDE DEF y
  <2>3. RunTypes'
    BY <1>1, <1>2, <2>1, <2>2 DEF RunInv, RunTypes
  <2>4. LoopMove(r)
    BY <1>1, <2>1, <2>2 DEF LoopMove, Busy, LoopPcs
  <2> QED
    BY <1>1, <1>2, <2>2, <2>3, <2>4, LoopMoveSafe
<1>3. CASE OnOrOut(r, Busy \ {"starting"})
  BY <1>1, <1>3, LoopStepSafe DEF RunInv, RunTypes
<1> QED
  BY <1>2, <1>3 DEF AfterModel, Outcome, Checked, OnOrOut, Errors

LEMMA AnswerSafe == ASSUME RunInv, NEW r \in Runs, Answer(r) PROVE RunInv'
<1>1. /\ run[r].pc = "answer" /\ run[r].pc \in Busy /\ session \in [Runs -> SessionRecords]
      /\ UNCHANGED <<token, toolToken, effect, log, abandoned, lost>>
      /\ (Mute(Root)' <=> Mute(Root))
  BY DEF Answer, At, Busy, LoopPcs, RunInv, RunTypes, Mute
<1> DEFINE z == [session[r] EXCEPT !.answered = TRUE]
<1>2. /\ z \in SessionRecords /\ z.owner = session[r].owner /\ z.closed = session[r].closed
      /\ z.answered
  BY <1>1 DEF SessionRecords
<1>3. session' = [session EXCEPT ![r] = z]
  BY <1>1 DEF Answer
<1> HIDE DEF z
<1>4. /\ session' \in [Runs -> SessionRecords] /\ session'[r] = z
      /\ \A q \in Runs \ {r} : session'[q] = session[q]
  BY <1>1, <1>2, <1>3
<1>5. LoopMove(r) /\ RunMoved(r)
  <2>1. CASE OnOrOut(r, Busy \ {"starting"})
    BY <1>1, <2>1, OnOrOutMoves DEF RunInv
  <2>2. CASE Ends(r, "completed", "none")
    <3>1. "none" \in Errors
      BY DEF Errors
    <3> QED
      BY <1>1, <1>2, <1>4, <2>2, <3>1, EndsFields DEF RunInv, LoopMove, RunMoved
  <2> QED
    BY <2>1, <2>2 DEF Answer, OnOrOut, Errors, Busy, LoopPcs
<1>6. RunTypes'
  BY <1>1, <1>4, <1>5 DEF RunInv, RunTypes, RunMoved
<1> QED
  BY <1>1, <1>2, <1>4, <1>5, <1>6, LoopMoveSafe DEF RunMoved

LEMMA ToolsSafe == ASSUME RunInv, NEW r \in Runs, Tools(r) PROVE RunInv'
<1>1. /\ run[r].pc = "tools" /\ run[r].pc \in Busy
      /\ UNCHANGED <<token, toolToken, session, log, abandoned>>
      /\ (Mute(Root)' <=> Mute(Root)) /\ OnOrOut(r, Busy \ {"starting"})
  BY DEF Tools, At, Busy, LoopPcs, Mute, OnOrOut, Errors
<1>2. PICK touches \in BOOLEAN :
         /\ lost' = (lost \/ (touches /\ Frozen(r)))
         /\ effect' = [effect EXCEPT ![r] = IF touches /\ ~Frozen(r) THEN "done" ELSE @]
  BY DEF Tools
<1>3. /\ effect' \in [Runs -> {"none", "done", "committed"}] /\ lost' \in BOOLEAN
      /\ lost' => lost \/ Frozen(r)
      /\ \/ \A q \in Runs : effect'[q] = "done" => effect[q] = "done"
         \/ ~Frozen(r) /\ \A q \in Runs \ {r} : effect'[q] = effect[q]
  BY <1>2 DEF RunInv, RunTypes
<1> QED
  BY <1>1, <1>3, LoopStepSafe DEF RunInv, RunTypes

LEMMA ExchangeSafe == ASSUME RunInv, NEW r \in Runs, Exchange(r) PROVE RunInv'
<1>1. /\ run[r].pc \in Busy /\ UNCHANGED <<token, toolToken, session, log, abandoned, lost>>
      /\ (Mute(Root)' <=> Mute(Root)) /\ OnOrOut(r, Busy \ {"starting"})
  BY DEF Exchange, At, Busy, LoopPcs, Mute, OnOrOut, Errors, Checked
<1>2. effect' = effect \/ effect' = [q \in Runs |-> Committed(effect[q])]
  BY DEF Exchange
<1>3. /\ effect' \in [Runs -> {"none", "done", "committed"}]
      /\ \A q \in Runs : effect'[q] = "done" => effect[q] = "done"
  BY <1>2 DEF RunInv, RunTypes, Committed
<1> QED
  BY <1>1, <1>3, LoopStepSafe DEF RunInv, RunTypes

-----------------------------------------------------------------------------
\* Starting, delegating and coming back.

LEMMA StartSafe == ASSUME RunInv, Start PROVE RunInv'
<1>1. PICK timed \in BOOLEAN :
        /\ run' = [run EXCEPT ![Root].pc = "starting"]
        /\ timer' = [timer EXCEPT ![Root] = timed]
        /\ session' = [session EXCEPT ![Root] = [@ EXCEPT !.owner = TRUE, !.closed = FALSE]]
  BY DEF Start, Starting
<1>2. /\ run[Root].pc = "idle" /\ UNCHANGED <<token, toolToken, effect, log, abandoned, lost>>
      /\ run \in [Runs -> RunRecords] /\ session \in [Runs -> SessionRecords]
      /\ timer \in [Runs -> BOOLEAN] /\ Root \in Runs /\ Child \in Runs /\ Root # Child
      /\ Runs = {Root, Child}
  BY DEF Start, Starting, At, RunInv, RunTypes, Runs, Root, Child
<1> DEFINE y == [run[Root] EXCEPT !.pc = "starting"]
           z == [session[Root] EXCEPT !.owner = TRUE, !.closed = FALSE]
<1>3. /\ y \in RunRecords /\ y.pc = "starting" /\ y.status = run[Root].status
      /\ y.error = run[Root].error /\ y.retrySafe = run[Root].retrySafe
      /\ y.unclean = run[Root].unclean
  BY <1>2 DEF RunRecords, RunPcs
<1>4. z \in SessionRecords /\ z.owner
  BY <1>2 DEF SessionRecords
<1>5. run' = [run EXCEPT ![Root] = y] /\ session' = [session EXCEPT ![Root] = z]
  BY <1>1, <1>2
<1> HIDE DEF y, z
<1>6. RunTypes'
  BY <1>1, <1>2, <1>3, <1>4, <1>5 DEF RunInv, RunTypes
<1>7. KnowsItself(Root)' /\ KnowsItself(Child)'
  BY <1>1, <1>2, <1>3, <1>4, <1>5 DEF RunInv, CancelledInv, KnowsItself, Late, Over
<1>8. CancelledInv'
  BY <1>2, <1>3, <1>5, <1>7 DEF RunInv, CancelledInv
<1>9. ChildInv' /\ EffectInv'
  BY <1>2, <1>3, <1>5 DEF RunInv, ChildInv, EffectInv, Mute, Late, Over, Judged
<1> QED
  BY <1>6, <1>8, <1>9 DEF RunInv

LEMMA DelegateSafe == ASSUME RunInv, Delegate PROVE RunInv'
<1>1. /\ run[Root].pc = "tools" /\ run[Child].pc = "idle"
      /\ UNCHANGED <<token, toolToken, effect, log, abandoned, lost>>
      /\ run \in [Runs -> RunRecords] /\ session \in [Runs -> SessionRecords]
      /\ timer \in [Runs -> BOOLEAN] /\ Root \in Runs /\ Child \in Runs /\ Root # Child
      /\ Runs = {Root, Child}
  BY DEF Delegate, At, RunInv, RunTypes, Runs, Root, Child
<1>2. CASE GoesOn(Root, "exchange") /\ UNCHANGED session
  <2>1. run[Root].pc \in Busy /\ OnOrOut(Root, Busy \ {"starting"}) /\ (Mute(Root)' <=> Mute(Root))
    BY <1>1, <1>2 DEF Busy, LoopPcs, OnOrOut, Mute
  <2> QED
    BY <1>1, <1>2, <2>1, LoopStepSafe DEF RunInv, RunTypes
<1>3. CASE \E timed \in BOOLEAN :
             /\ run' = [run EXCEPT ![Root].pc = "delegating", ![Child].pc = "starting"]
             /\ timer' = [timer EXCEPT ![Child] = timed]
             /\ session' = [session EXCEPT ![Child] = [@ EXCEPT !.owner = TRUE, !.closed = FALSE]]
  <2>0. PICK timed \in BOOLEAN :
             /\ run' = [run EXCEPT ![Root].pc = "delegating", ![Child].pc = "starting"]
             /\ timer' = [timer EXCEPT ![Child] = timed]
             /\ session' = [session EXCEPT ![Child] = [@ EXCEPT !.owner = TRUE, !.closed = FALSE]]
    BY <1>3
  <2> DEFINE x == [run[Root] EXCEPT !.pc = "delegating"]
             y == [run[Child] EXCEPT !.pc = "starting"]
             z == [session[Child] EXCEPT !.owner = TRUE, !.closed = FALSE]
  <2>1. /\ x \in RunRecords /\ x.pc = "delegating" /\ x.status = run[Root].status
        /\ x.error = run[Root].error /\ x.retrySafe = run[Root].retrySafe
        /\ x.unclean = run[Root].unclean
        /\ y \in RunRecords /\ y.pc = "starting" /\ y.status = run[Child].status
        /\ y.error = run[Child].error /\ y.unclean = run[Child].unclean
    BY <1>1 DEF RunRecords, RunPcs, LoopPcs
  <2>2. z \in SessionRecords /\ z.owner
    BY <1>1 DEF SessionRecords
  <2>3. run' \in [Runs -> RunRecords] /\ run'[Root] = x /\ run'[Child] = y
    BY <1>1, <2>0, <2>1
  <2>4. session' = [session EXCEPT ![Child] = z] /\ timer' \in [Runs -> BOOLEAN]
    BY <1>1, <2>0
  <2> HIDE DEF x, y, z
  <2>5. RunTypes'
    BY <1>1, <2>2, <2>3, <2>4 DEF RunInv, RunTypes
  <2>6. KnowsItself(Root)' /\ KnowsItself(Child)'
    BY <1>1, <2>1, <2>2, <2>3, <2>4 DEF RunInv, CancelledInv, KnowsItself, Late, Over, LoopPcs
  <2>7. CancelledInv'
    BY <1>1, <2>1, <2>3, <2>6 DEF RunInv, CancelledInv
  <2>8. ChildInv' /\ EffectInv'
    BY <1>1, <2>1, <2>3, <2>4 DEF RunInv, ChildInv, EffectInv, Mute, Late, Over, Judged
  <2> QED
    BY <2>5, <2>7, <2>8 DEF RunInv
<1> QED
  BY <1>2, <1>3 DEF Delegate

\* The root stops waiting for the child, which has returned or is left behind.
LEMMA ParentGoesOnSafe ==
    ASSUME RunInv, run[Root].pc = "delegating",
           EndsCancelled(Root) \/ (GoesOn(Root, "exchange") /\ ~abandoned'),
           session' = [session EXCEPT ![Child].closed = TRUE],
           abandoned' \in BOOLEAN, abandoned => abandoned',
           abandoned' \/ run[Child].pc = "done",
           UNCHANGED <<token, toolToken, effect, log, lost>>
    PROVE  RunInv'
<1>1. /\ run \in [Runs -> RunRecords] /\ session \in [Runs -> SessionRecords]
      /\ timer \in [Runs -> BOOLEAN] /\ Root \in Runs /\ Child \in Runs /\ Root # Child
      /\ Runs = {Root, Child} /\ (Mute(Root)' <=> Mute(Root))
  BY DEF RunInv, RunTypes, Runs, Root, Child, Mute
<1> DEFINE z == [session[Child] EXCEPT !.closed = TRUE]
<1>2. z \in SessionRecords /\ z.owner = session[Child].owner /\ z.answered = session[Child].answered
      /\ z.closed
  BY <1>1 DEF SessionRecords
<1>3. session' = [session EXCEPT ![Child] = z]
  BY <1>1
<1> HIDE DEF z
<1>4. /\ RunMoved(Root)
      /\ \/ /\ run'[Root].pc = "exchange" /\ run'[Root].status = run[Root].status
            /\ run'[Root].error = run[Root].error /\ ~abandoned'
         \/ /\ run'[Root].pc = "ended" /\ ~timer'[Root]
            /\ \/ run'[Root].status = "failed" /\ run'[Root].error # "none"
               \/ /\ run'[Root].status = "cancelled" /\ run'[Root].error = "none"
                  /\ token[Root] # "timeout"
  <2>1. CASE GoesOn(Root, "exchange") /\ ~abandoned'
    <3>1. "exchange" \in RunPcs
      BY DEF RunPcs, LoopPcs
    <3> QED
      BY <1>1, <2>1, <3>1, GoesOnFields DEF RunInv
  <2>2. CASE EndsCancelled(Root) /\ token[Root] = "timeout"
    <3>1. Ends(Root, "failed", "timeout") /\ "timeout" \in Errors
      BY <2>2 DEF EndsCancelled, Reason, Fails, Errors
    <3> QED
      BY <1>1, <3>1, EndsFields DEF RunInv
  <2>3. CASE EndsCancelled(Root) /\ token[Root] # "timeout"
    <3>1. Ends(Root, "cancelled", "none") /\ "none" \in Errors
      BY <2>3 DEF EndsCancelled, Reason, Errors
    <3> QED
      BY <1>1, <2>3, <3>1, EndsFields DEF RunInv
  <2> QED
    BY <2>1, <2>2, <2>3
<1>5. RunTypes'
  BY ZenonT(40), <1>1, <1>2, <1>3, <1>4 DEF RunInv, RunTypes, RunMoved
<1>6. KnowsItself(Root)' /\ KnowsItself(Child)'
  BY <1>1, <1>2, <1>3, <1>4 DEF RunInv, CancelledInv, KnowsItself, RunMoved, Late, Over
<1>7. CancelledInv'
  BY <1>1, <1>4, <1>6 DEF RunInv, CancelledInv
<1>8. ChildInv' /\ EffectInv'
  BY <1>1, <1>2, <1>3, <1>4 DEF RunInv, ChildInv, EffectInv, RunMoved, Late, Over, Judged
<1> QED
  BY <1>5, <1>7, <1>8 DEF RunInv

LEMMA ChildReturnsSafe == ASSUME RunInv, ChildReturns PROVE RunInv'
<1>1. /\ run[Root].pc = "delegating" /\ run[Child].pc = "done"
      /\ session' = [session EXCEPT ![Child].closed = TRUE]
      /\ EndsCancelled(Root) \/ GoesOn(Root, "exchange")
      /\ UNCHANGED <<token, toolToken, effect, log, abandoned, lost>>
  BY DEF ChildReturns, At
<1>2. ~abandoned /\ abandoned \in BOOLEAN
  BY <1>1 DEF RunInv, ChildInv, RunTypes, Late, Over
<1> QED
  BY <1>1, <1>2, ParentGoesOnSafe

LEMMA AbandonChildSafe == ASSUME RunInv, AbandonChild PROVE RunInv'
<1>1. /\ run[Root].pc = "delegating" /\ EndsCancelled(Root) /\ abandoned' = TRUE
      /\ session' = [session EXCEPT ![Child].closed = TRUE]
      /\ UNCHANGED <<token, toolToken, effect, log, lost>>
  BY DEF AbandonChild, At
<1> QED
  BY <1>1, ParentGoesOnSafe

-----------------------------------------------------------------------------
\* Ending.

\* A Run that is ending goes on to the next of its last steps: a success may turn into
\* a failure, but nothing else changes, and the root judges its effects on the way.
LEMMA EndingSafe ==
    ASSUME RunInv, NEW r \in Runs, NEW y \in RunRecords, run' = [run EXCEPT ![r] = y],
           UNCHANGED <<signals, session, effect, log, abandoned, lost>>,
           \/ run[r].pc = "ended" /\ y.pc = "finalizing" /\ y.retrySafe = run[r].retrySafe
           \/ run[r].pc = "finalizing" /\ y.pc = "closing" /\ y.retrySafe = SafeToRetry(r)
           \/ run[r].pc = "closing" /\ y.pc = "releasing" /\ y.retrySafe = run[r].retrySafe,
           \/ y.status = run[r].status /\ y.error = run[r].error
              /\ (y.status = "completed" => y.unclean = run[r].unclean)
           \/ run[r].status = "completed" /\ y.status = "failed" /\ y.error # "none"
           \/ r = Child /\ run[r].status = "completed" /\ y.status = "cancelled" /\ y.error = "none"
    PROVE  RunInv'
<1>1. /\ run \in [Runs -> RunRecords] /\ Root \in Runs /\ Child \in Runs /\ Root # Child
      /\ Runs = {Root, Child} /\ (Mute(Root)' <=> Mute(Root)) /\ run'[r] = y
      /\ \A q \in Runs \ {r} : run'[q] = run[q]
  BY DEF RunInv, RunTypes, Runs, Root, Child, Mute
<1>2. RunTypes'
  BY <1>1 DEF RunInv, RunTypes, signals
<1>3. \A q \in Runs : KnowsItself(q)'
  BY <1>1 DEF RunInv, CancelledInv, KnowsItself, Late, Over, signals
<1>4. CancelledInv'
  BY <1>1, <1>3 DEF RunInv, CancelledInv, signals
<1>5. ChildInv'
  BY <1>1 DEF RunInv, ChildInv, Late, Over
<1>6. EffectInv'
  BY <1>1 DEF RunInv, EffectInv, Late, Over, Judged, SafeToRetry
<1> QED
  BY <1>2, <1>4, <1>5, <1>6 DEF RunInv

LEMMA AfterTroubleFields ==
    ASSUME NEW x \in RunRecords, NEW error \in Errors \ {"none"}
    PROVE  LET y == AfterTrouble(x, error) IN
           /\ y \in RunRecords /\ y.pc = x.pc /\ y.retrySafe = x.retrySafe
           /\ IF x.status = "completed" /\ x.error = "none"
              THEN y.status = "failed" /\ y.error # "none"
              ELSE y.status = x.status /\ y.error = x.error
  BY DEF AfterTrouble, RunRecords

LEMMA ProcessOutputSafe == ASSUME RunInv, NEW r \in Runs, ProcessOutput(r) PROVE RunInv'
<1>1. /\ run[r].pc = "ended" /\ run[r] \in RunRecords /\ run \in [Runs -> RunRecords]
      /\ UNCHANGED <<signals, session, effect, log, abandoned, lost>>
  BY DEF ProcessOutput, At, RunInv, RunTypes
<1>2. CASE Goto(r, "finalizing")
  <2> DEFINE y == [run[r] EXCEPT !.pc = "finalizing"]
  <2>1. /\ y \in RunRecords /\ y.pc = "finalizing" /\ y.retrySafe = run[r].retrySafe
        /\ y.status = run[r].status /\ y.error = run[r].error /\ y.unclean = run[r].unclean
    BY <1>1 DEF RunRecords, RunPcs, Late
  <2>2. run' = [run EXCEPT ![r] = y]
    BY <1>1, <1>2 DEF Goto
  <2> HIDE DEF y
  <2> QED
    BY <1>1, <2>1, <2>2, EndingSafe
<1>3. ASSUME NEW o \in {<<"cancelled", "none">>, <<"failed", "materialization_failed">>},
             r = Child, run[r].status = "completed",
             run' = [run EXCEPT ![r] = [@ EXCEPT !.pc = "finalizing", !.status = o[1],
                                                !.error = o[2], !.output = FALSE]]
      PROVE  RunInv'
  <2> DEFINE y == [run[r] EXCEPT !.pc = "finalizing", !.status = o[1], !.error = o[2],
                                 !.output = FALSE]
  <2>1. /\ y \in RunRecords /\ y.pc = "finalizing" /\ y.retrySafe = run[r].retrySafe
        /\ \/ y.status = "cancelled" /\ y.error = "none"
           \/ y.status = "failed" /\ y.error # "none"
    <3>1. CASE o = <<"cancelled", "none">>
      <4>1. o[1] = "cancelled" /\ o[2] = "none"
        BY <3>1
      <4> QED
        BY <1>1, <4>1 DEF RunRecords, RunPcs, Late, Errors
    <3>2. CASE o = <<"failed", "materialization_failed">>
      <4>1. o[1] = "failed" /\ o[2] = "materialization_failed"
        BY <3>2
      <4> QED
        BY <1>1, <4>1 DEF RunRecords, RunPcs, Late, Errors
    <3> QED
      BY <3>1, <3>2
  <2>2. run' = [run EXCEPT ![r] = y]
    BY <1>1, <1>3
  <2> HIDE DEF y
  <2> QED
    BY <1>1, <1>3, <2>1, <2>2, EndingSafe
<1> QED
  BY <1>2, <1>3 DEF ProcessOutput

\* Trouble or not: what Finalize and OnRunEnd do with the record they made.
LEMMA TroubleSafe ==
    ASSUME RunInv, NEW r \in Runs, NEW x \in RunRecords, NEW error \in Errors \ {"none"},
           run' = [run EXCEPT ![r] = x] \/ run' = [run EXCEPT ![r] = AfterTrouble(x, error)],
           UNCHANGED <<signals, session, effect, log, abandoned, lost>>,
           x.status = run[r].status, x.error = run[r].error, x.unclean = run[r].unclean,
           \/ run[r].pc = "finalizing" /\ x.pc = "closing" /\ x.retrySafe = SafeToRetry(r)
           \/ run[r].pc = "closing" /\ x.pc = "releasing" /\ x.retrySafe = run[r].retrySafe
    PROVE  RunInv'
<1>1. x.status = "completed" => x.error = "none"
  BY DEF RunInv, RunTypes, CancelledInv, KnowsItself, RunRecords
<1>2. CASE run' = [run EXCEPT ![r] = x]
  BY <1>2, EndingSafe
<1>3. CASE run' = [run EXCEPT ![r] = AfterTrouble(x, error)]
  <2> DEFINE y == AfterTrouble(x, error)
  <2>1. /\ y \in RunRecords /\ y.pc = x.pc /\ y.retrySafe = x.retrySafe
        /\ IF x.status = "completed" /\ x.error = "none"
           THEN y.status = "failed" /\ y.error # "none"
           ELSE y.status = x.status /\ y.error = x.error
    BY AfterTroubleFields
  <2>2. run' = [run EXCEPT ![r] = y]
    BY <1>3
  <2> HIDE DEF y
  <2> QED
    BY <1>1, <2>1, <2>2, EndingSafe
<1> QED
  BY <1>2, <1>3

LEMMA FinalizeSafe == ASSUME RunInv, NEW r \in Runs, Finalize(r) PROVE RunInv'
<1>1. /\ run[r].pc = "finalizing" /\ run[r] \in RunRecords
      /\ UNCHANGED <<signals, session, effect, log, abandoned, lost>>
  BY DEF Finalize, At, RunInv, RunTypes
<1> DEFINE x == [run[r] EXCEPT !.pc = "closing", !.retrySafe = SafeToRetry(r)]
<1>2. /\ x \in RunRecords /\ x.pc = "closing" /\ x.retrySafe = SafeToRetry(r)
      /\ x.status = run[r].status /\ x.error = run[r].error /\ x.unclean = run[r].unclean
  <2>1. SafeToRetry(r) \in BOOLEAN
    BY DEF SafeToRetry
  <2> QED
    BY <1>1, <2>1 DEF RunRecords, RunPcs, Late
<1>3. \/ run' = [run EXCEPT ![r] = x]
      \/ run' = [run EXCEPT ![r] = AfterTrouble(x, "cleanup_error")]
  BY DEF Finalize
<1>4. "cleanup_error" \in Errors \ {"none"}
  BY DEF Errors
<1> HIDE DEF x
<1> QED
  BY <1>1, <1>2, <1>3, <1>4, TroubleSafe

LEMMA OnRunEndSafe == ASSUME RunInv, NEW r \in Runs, OnRunEnd(r) PROVE RunInv'
<1>1. /\ run[r].pc = "closing" /\ run[r] \in RunRecords
      /\ UNCHANGED <<signals, session, effect, log, abandoned, lost>>
  BY DEF OnRunEnd, At, RunInv, RunTypes
<1> DEFINE x == [run[r] EXCEPT !.pc = "releasing"]
<1>2. /\ x \in RunRecords /\ x.pc = "releasing" /\ x.retrySafe = run[r].retrySafe
      /\ x.status = run[r].status /\ x.error = run[r].error /\ x.unclean = run[r].unclean
  BY <1>1 DEF RunRecords, RunPcs, Late
<1>3. \/ run' = [run EXCEPT ![r] = x]
      \/ run' = [run EXCEPT ![r] = AfterTrouble(x, "cleanup_hook_error")]
  BY DEF OnRunEnd
<1>4. "cleanup_hook_error" \in Errors \ {"none"}
  BY DEF Errors
<1> HIDE DEF x
<1> QED
  BY <1>1, <1>2, <1>3, <1>4, TroubleSafe

LEMMA FinishSafe == ASSUME RunInv, NEW r \in Runs, Finish(r) PROVE RunInv'
<1>1. /\ run[r].pc = "releasing" /\ run \in [Runs -> RunRecords]
      /\ session \in [Runs -> SessionRecords] /\ log \in Seq(Events)
      /\ UNCHANGED <<signals, effect, abandoned, lost>>
      /\ Root \in Runs /\ Child \in Runs /\ Root # Child /\ Runs = {Root, Child}
      /\ Mute(r) <=> Mute(Root)
  BY DEF Finish, At, RunInv, RunTypes, Runs, Root, Child, Mute
<1>2. PICK pc \in {"done", "died"} :
        /\ Goto(r, pc)
        /\ IF pc = "done" THEN ~Mute(Root) /\ log' = Append(log, <<r, "terminal">>)
           ELSE Mute(Root) /\ log' = log
  BY <1>1 DEF Finish
<1> DEFINE y == [run[r] EXCEPT !.pc = pc]
           z == [session[r] EXCEPT !.owner = FALSE]
<1>3. /\ y \in RunRecords /\ y.pc = pc /\ y.retrySafe = run[r].retrySafe
      /\ y.status = run[r].status /\ y.error = run[r].error /\ y.unclean = run[r].unclean
  BY <1>1 DEF RunRecords, RunPcs, Late, Over
<1>4. /\ z \in SessionRecords /\ ~z.owner /\ z.closed = session[r].closed
      /\ z.answered = session[r].answered
  BY <1>1 DEF SessionRecords
<1>5. run' = [run EXCEPT ![r] = y] /\ session' = [session EXCEPT ![r] = z]
  BY <1>1, <1>2 DEF Goto, Finish
<1> HIDE DEF y, z
<1>6. log' \in Seq(Events) /\ (Mute(Root)' <=> Mute(Root) \/ (r = Root /\ pc = "done"))
  <2>1. CASE pc = "died"
    BY <1>1, <1>2, <2>1 DEF Mute
  <2>2. CASE pc = "done"
    <3>1. <<r, "terminal">> \in Events /\ (<<r, "terminal">> = <<Root, "terminal">> <=> r = Root)
      BY DEF Events
    <3> QED
      BY <1>1, <1>2, <2>2, <3>1, MuteAfter
  <2> QED
    BY <2>1, <2>2
<1>7. RunTypes'
  BY <1>1, <1>3, <1>4, <1>5, <1>6 DEF RunInv, RunTypes, signals
<1>8. \A q \in Runs : KnowsItself(q)'
  BY <1>1, <1>3, <1>4, <1>5 DEF RunInv, CancelledInv, KnowsItself, Late, Over, signals
<1>9. CancelledInv'
  BY <1>1, <1>3, <1>5, <1>8 DEF RunInv, CancelledInv, signals
<1>10. ChildInv'
  BY <1>1, <1>2, <1>3, <1>4, <1>5, <1>6 DEF RunInv, ChildInv, Late, Over
<1>11. EffectInv'
  BY <1>1, <1>3, <1>5 DEF RunInv, EffectInv, Late, Over, Judged
<1> QED
  BY <1>7, <1>9, <1>10, <1>11 DEF RunInv

-----------------------------------------------------------------------------
\* What comes from outside.

LEMMA SignalSafe ==
    ASSUME RunInv, token' \in [Runs -> {"no", "user", "timeout"}], timer' \in [Runs -> BOOLEAN],
           session' \in [Runs -> SessionRecords],
           \A q \in Runs : /\ timer'[q] => timer[q]
                           /\ session'[q].owner = session[q].owner
                           /\ session'[q].closed = session[q].closed
                           /\ session'[q].answered = session[q].answered,
           token'[Root] = "timeout" => token[Root] = "timeout" \/ timer[Root],
           UNCHANGED <<run, effect, log, abandoned, lost>>
    PROVE  RunInv'
<1>1. Root \in Runs /\ Child \in Runs /\ Runs = {Root, Child} /\ (Mute(Root)' <=> Mute(Root))
  BY DEF Runs, Mute
<1>2. RunTypes'
  BY DEF RunInv, RunTypes
<1>3. \A q \in Runs : KnowsItself(q)'
  BY <1>1 DEF RunInv, CancelledInv, KnowsItself
<1>4. CancelledInv'
  BY <1>1, <1>3 DEF RunInv, CancelledInv, KnowsItself
<1>5. ChildInv' /\ EffectInv'
  BY <1>1 DEF RunInv, ChildInv, EffectInv
<1> QED
  BY <1>2, <1>4, <1>5 DEF RunInv

LEMMA OutsideSafe ==
    ASSUME RunInv, \/ ToolTimesOut \/ CancelRun \/ Steer
                   \/ \E r \in Runs : TimesOut(r)
    PROVE  RunInv'
<1>1. /\ token \in [Runs -> {"no", "user", "timeout"}] /\ timer \in [Runs -> BOOLEAN]
      /\ session \in [Runs -> SessionRecords] /\ Root \in Runs
  BY DEF RunInv, RunTypes, Runs
<1>2. CASE ToolTimesOut
  BY <1>1, <1>2, SignalSafe DEF ToolTimesOut
<1>3. CASE CancelRun
  BY <1>1, <1>3, SignalSafe DEF CancelRun
<1>4. CASE Steer
  <2> DEFINE z == [session[Root] EXCEPT !.pending = session[Root].pending + 1,
                                   !.inputs = session[Root].inputs + 1]
  <2>1. /\ z \in SessionRecords /\ z.owner = session[Root].owner
        /\ z.closed = session[Root].closed /\ z.answered = session[Root].answered
    <3>1. session[Root] \in SessionRecords
      BY <1>1
    <3>2. session[Root].pending + 1 \in Nat /\ session[Root].inputs + 1 \in Nat
      BY <3>1 DEF SessionRecords
    <3> QED
      BY <3>1, <3>2, Zenon DEF SessionRecords
  <2>2. session' = [session EXCEPT ![Root] = z]
    BY <1>1, <1>4 DEF Steer
  <2> HIDE DEF z
  <2>3. UNCHANGED <<run, token, timer, effect, log, abandoned, lost>>
    BY <1>4 DEF Steer, signals
  <2> QED
    BY <1>1, <2>1, <2>2, <2>3, SignalSafe
<1>5. ASSUME NEW r \in Runs, TimesOut(r) PROVE RunInv'
  BY <1>1, <1>5, SignalSafe DEF TimesOut
<1> QED
  BY <1>2, <1>3, <1>4, <1>5

LEMMA RunNextSafe == RunInv /\ [RunNext]_runVars => RunInv'
<1> SUFFICES ASSUME RunInv, [RunNext]_runVars PROVE RunInv'
  OBVIOUS
<1>1. ASSUME NEW r \in Runs, Step(r) PROVE RunInv'
  <2>1. Begin(r) \/ CommitInitial(r) \/ Turn(r) \/ Prepare(r) => RunInv'
    BY BeginSafe, CommitInitialSafe, TurnSafe, PrepareSafe
  <2>2. BeforeModel(r) \/ Model(r) \/ AfterModel(r) \/ Answer(r) => RunInv'
    BY BeforeModelSafe, ModelSafe, AfterModelSafe, AnswerSafe
  <2>3. Tools(r) \/ Exchange(r) => RunInv'
    BY ToolsSafe, ExchangeSafe
  <2>4. ProcessOutput(r) \/ Finalize(r) \/ OnRunEnd(r) \/ Finish(r) => RunInv'
    BY ProcessOutputSafe, FinalizeSafe, OnRunEndSafe, FinishSafe
  <2> QED
    BY <1>1, <2>1, <2>2, <2>3, <2>4 DEF Step
<1>2. CASE Start \/ Delegate \/ ChildReturns \/ AbandonChild
  BY <1>2, StartSafe, DelegateSafe, ChildReturnsSafe, AbandonChildSafe
<1>3. CASE ToolTimesOut \/ CancelRun \/ Steer \/ \E r \in Runs : TimesOut(r)
  BY <1>3, OutsideSafe
<1>4. CASE UNCHANGED runVars
  <2>1. UNCHANGED <<run, token, timer, session, effect, log, abandoned, lost>>
    BY <1>4 DEF runVars, signals
  <2> QED
    BY <2>1, SignalSafe DEF RunInv, RunTypes
<1> QED
  BY <1>1, <1>2, <1>3, <1>4 DEF RunNext

\* _execute, finalize and run_child: whatever hooks, Models, Tools, saves, timers and
\* hosts do, a Run knows how it ended, and where its child may be.
THEOREM RunInvariant == RunSpec => []RunInv
<1>1. RunInit => RunInv
  BY RunInitSafe
<1>2. RunInv /\ [RunNext]_runVars => RunInv'
  BY RunNextSafe
<1> QED
  BY <1>1, <1>2, PTL DEF RunSpec

\* RunResult: a success is one to the very end, a failure has its first error, and a Run
\* that ran out of time is not reported as cancelled.
THEOREM OutcomesAreTrue == RunSpec => []OutcomeIsTrue
<1>1. RunInv => OutcomeIsTrue
  <2> SUFFICES ASSUME RunInv PROVE OutcomeIsTrue
    OBVIOUS
  <2>1. \A r \in Runs : KnowsItself(r) /\ run[r] \in RunRecords
    BY DEF RunInv, CancelledInv, RunTypes
  <2>2. RunTypeOK
    BY <2>1 DEF RunTypeOK, KnowsItself, RunRecords, LoopPcs, Late, Over
  <2>3. run[Root].pc \in Over /\ run[Root].status = "cancelled" => Reason(Root) # "timeout"
    BY DEF RunInv, CancelledInv, Reason
  <2> QED
    BY <2>1, <2>2, <2>3 DEF OutcomeIsTrue, KnowsItself
<1> QED
  BY <1>1, RunInvariant, PTL

\* retry_safe in finalize: once the root called a retry safe there is no side effect, its
\* own or its child's, that the transcript does not tell of, and none can come any more.
THEOREM RetriesAreSafe == RunSpec => []RetrySafeIsTrue
<1>1. RunInv => RetrySafeIsTrue
  BY DEF RunInv, EffectInv, RetrySafeIsTrue, Judged
<1> QED
  BY <1>1, RunInvariant, PTL

\* run_child and the shared emitter: when the root has emitted its terminal event the
\* child has ended before it, and its Session is closed and free.
THEOREM RootEndsLast == RunSpec => []ChildEndsFirst
<1>1. RunInv => ChildEndsFirst
  <2> SUFFICES ASSUME RunInv, run[Root].pc = "done", ~abandoned
               PROVE  /\ run[Child].pc \in {"idle", "done"}
                      /\ session[Child].closed /\ ~session[Child].owner
    BY DEF ChildEndsFirst, At
  <2>1. run[Child].pc \in {"idle", "done"} /\ session[Child].closed
    BY DEF RunInv, ChildInv
  <2>2. KnowsItself(Child)
    BY DEF RunInv, CancelledInv, Runs
  <2> QED
    BY <2>1, <2>2 DEF KnowsItself, Over
<1> QED
  BY <1>1, RunInvariant, PTL
=============================================================================
