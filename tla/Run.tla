--------------------------------- MODULE Run ---------------------------------
(***************************************************************************)
(* The life of a Run (roboagent/agent/run.py) around the loop that drives  *)
(* it (roboagent/agent/loop.py): hooks, context, model, Tools and commits, *)
(* turn by turn, then the closing of its scope, on_run_end and the result. *)
(* A Tool of the root Run may delegate to one child Run, on a Session of   *)
(* its own but with the events and the execution scopes of the root.       *)
(*                                                                         *)
(* Cancellation is cooperative: a step that waits for it besides its own   *)
(* work may still be served first, a step that checks it may not go on.    *)
(***************************************************************************)
EXTENDS Integers, Sequences

CONSTANTS
    MaxTurns,      \* max_turns
    MaxInputs,     \* bound: inputs steered into a Session during its Run
    GraceExpires   \* may a cancelled delegating Tool outlast its grace period?

ASSUME RunAssumption ==
    MaxTurns \in Nat \ {0} /\ MaxInputs \in Nat /\ GraceExpires \in BOOLEAN

Root == "root"
Child == "child"
Runs == {Root, Child}

VARIABLES
    run,         \* per Run: where _execute is and what it knows
    token,       \* per Run: the reason its own RuntimeCancellation was cancelled for
    toolToken,   \* likewise for the scope of the delegating Tool
    timer,       \* per Run: its timeout task may still fire
    session,     \* per Run: its Session
    effect,      \* per Run: the side effect of its last Tools that had one
    log,         \* the started and terminal events the shared emitter accepted
    abandoned,   \* history: the delegating Tool was left behind by its executor
    lost         \* history: a side effect came too late for its scope

signals == <<token, toolToken, timer>>
runVars == <<run, signals, session, effect, log, abandoned, lost>>

Idle == [pc |-> "idle", turn |-> 0, status |-> "none", error |-> "none",
         output |-> FALSE, unclean |-> FALSE, retrySafe |-> FALSE]

RunInit ==
    /\ run = [r \in Runs |-> Idle]
    /\ token = [r \in Runs |-> "no"] /\ toolToken = "no"
    /\ timer = [r \in Runs |-> FALSE]
    /\ session = [r \in Runs |-> [owner |-> FALSE, closed |-> r = Child, pending |-> 0,
                                  answered |-> FALSE, inputs |-> 0]]
    /\ effect = [r \in Runs |-> "none"]
    /\ log = <<>>
    /\ abandoned = FALSE /\ lost = FALSE

At(r, pc) == run[r].pc = pc

\* RuntimeCancellation: a child's is linked to the Tool's, and that to the root's.
Reason(r) ==
    IF r = Root \/ token[r] # "no" THEN token[r]
    ELSE IF toolToken # "no" THEN toolToken ELSE token[Root]
Cancelled(r) == Reason(r) # "no"

\* The scope of the child accepts nothing any more, nor does the emitter.
Frozen(r) == r = Child /\ abandoned
Mute(r) == \E i \in 1..Len(log) : log[i] = <<Root, "terminal">>

Goto(r, pc) == run' = [run EXCEPT ![r].pc = pc]

\* _execute leaves the loop with a status; the timeout task is cancelled.
Ends(r, status, error) ==
    /\ run' = [run EXCEPT ![r] = [@ EXCEPT !.pc = "ended", !.status = status, !.error = error]]
    /\ timer' = [timer EXCEPT ![r] = FALSE]
Fails(r, error) == Ends(r, "failed", error)

\* RunCancelled and CancelledError: a Run that timed out has failed.
EndsCancelled(r) ==
    IF Reason(r) = "timeout" THEN Fails(r, "timeout") ELSE Ends(r, "cancelled", "none")

\* The step is one of the loop: it changes only the Run and, when it ends, the timer.
Outcome(A) == A /\ UNCHANGED <<token, toolToken, session, effect, log, abandoned, lost>>
GoesOn(r, pc) == Goto(r, pc) /\ UNCHANGED timer

\* A step that waits for cancellation besides its own work, or checks it afterwards.
Interruptible(r, A) == A \/ (Cancelled(r) /\ EndsCancelled(r))
Checked(r, A) == IF Cancelled(r) THEN EndsCancelled(r) ELSE A

-----------------------------------------------------------------------------
\* Session.start and run_child: the Session is acquired and the task created.
Starting(r, timed) ==
    /\ run' = [run EXCEPT ![r].pc = "starting"]
    /\ timer' = [timer EXCEPT ![r] = timed]
    /\ session' = [session EXCEPT ![r] = [@ EXCEPT !.owner = TRUE, !.closed = FALSE]]
    /\ UNCHANGED <<token, toolToken, effect, abandoned, lost>>

Start ==
    /\ At(Root, "idle")
    /\ \E timed \in BOOLEAN : Starting(Root, timed)
    /\ UNCHANGED log

\* The started event, and the on_run_start hooks.
Begin(r) ==
    /\ At(r, "starting")
    /\ \/ /\ Mute(r) /\ Fails(r, "other") /\ UNCHANGED log
       \/ /\ ~Mute(r)
          /\ log' = Append(log, <<r, "started">>)
          /\ Interruptible(r, GoesOn(r, "initial") \/ Fails(r, "hook_error"))
    /\ UNCHANGED <<token, toolToken, session, effect, abandoned, lost>>

\* _commit_initial_input: saving may fail, and a cancelled token is noticed.
CommitInitial(r) ==
    /\ At(r, "initial")
    /\ Outcome(Interruptible(r, GoesOn(r, "turn") \/ Fails(r, "other")))

\* Variant: a turn that only consumed inputs is not counted.
TurnUncounted(r) ==
    /\ At(r, "turn")
    /\ run[r].turn < MaxTurns \/ run[r].output
    /\ run' = [run EXCEPT ![r] = [@ EXCEPT !.pc = "prepare",
                                          !.turn = IF run[r].output THEN @ ELSE @ + 1]]
    /\ session' = [session EXCEPT ![r].pending = 0]
    /\ UNCHANGED <<signals, effect, log, abandoned, lost>>

\* The head of the loop: the turn is counted, inputs that came in are consumed.
Turn(r) ==
    /\ At(r, "turn")
    /\ \/ /\ run[r].turn = MaxTurns
          /\ Fails(r, "max_turns")
          /\ UNCHANGED session
       \/ /\ run[r].turn < MaxTurns
          /\ IF Cancelled(r) THEN EndsCancelled(r) /\ UNCHANGED session
             ELSE \/ /\ run' = [run EXCEPT ![r] = [@ EXCEPT !.pc = "prepare", !.turn = run[r].turn + 1]]
                     /\ session' = [session EXCEPT ![r].pending =
                                      IF run[r].turn = 0 THEN @ ELSE 0]
                     /\ UNCHANGED timer
                  \/ /\ run[r].turn > 0 /\ Fails(r, "other") /\ UNCHANGED session
    /\ UNCHANGED <<token, toolToken, effect, log, abandoned, lost>>

\* ContextManager.prepare, its usage, and commit_compaction, which no one can forestall:
\* only the Run that owns the Session may commit.
Prepare(r) ==
    /\ At(r, "prepare")
    /\ Outcome(Interruptible(r, (~Frozen(r) /\ GoesOn(r, "before")) \/ Fails(r, "context_error")))

\* before_model: any hook may fail the Run.  The model is started after a check.
BeforeModel(r) ==
    /\ At(r, "before")
    /\ Outcome(Interruptible(r, Checked(r, ~Mute(r) /\ GoesOn(r, "model")) \/ Fails(r, "hook_error")))

\* _collect_cancellable and the events it is observed through.  The usage is
\* contributed on every path, which a frozen scope refuses.
Model(r) ==
    /\ At(r, "model")
    /\ Outcome(IF Frozen(r) THEN Fails(r, "other")
               ELSE Interruptible(r, GoesOn(r, "after") \/ Fails(r, "model_error")))

\* model.completed, a check, after_model, a check: the response is the output now.
AfterModel(r) ==
    /\ At(r, "after")
    /\ Outcome(\/ Checked(r, \/ \E pc \in {"answer", "tools"} :
                                  /\ run' = [run EXCEPT ![r] = [@ EXCEPT !.pc = pc, !.output = TRUE]]
                                  /\ UNCHANGED timer
                             \/ Fails(r, "hook_error"))
               \/ Mute(r) /\ Fails(r, "other"))

\* A response without calls is committed; more input means another turn.
Answer(r) ==
    /\ At(r, "answer")
    /\ session' = [session EXCEPT ![r].answered = TRUE]
    /\ \/ session[r].pending > 0 /\ GoesOn(r, "turn")
       \/ session[r].pending = 0 /\ Ends(r, "completed", "none")
       \/ Fails(r, "other")
    /\ UNCHANGED <<token, toolToken, effect, log, abandoned, lost>>

-----------------------------------------------------------------------------
\* The Tools of a turn touch the world or not, and the batch ends with results,
\* is aborted, or is cancelled: by the Run, or because a Tool timed out.
Tools(r) ==
    /\ At(r, "tools")
    /\ \E touches \in BOOLEAN :
         /\ lost' = (lost \/ (touches /\ Frozen(r)))
         /\ effect' = [effect EXCEPT ![r] = IF touches /\ ~Frozen(r) THEN "done" ELSE @]
    /\ \/ ~Frozen(r) /\ GoesOn(r, "exchange")
       \/ Fails(r, "tool_error")
       \/ EndsCancelled(r)
    /\ UNCHANGED <<token, toolToken, session, log, abandoned>>

\* run_child, called by a Tool of the root: the Session is created and the Run started,
\* or the Tool fails, which is a result.
Delegate ==
    /\ At(Root, "tools") /\ At(Child, "idle")
    /\ \/ /\ \E timed \in BOOLEAN :
               /\ run' = [run EXCEPT ![Root].pc = "delegating", ![Child].pc = "starting"]
               /\ timer' = [timer EXCEPT ![Child] = timed]
               /\ session' = [session EXCEPT ![Child] = [@ EXCEPT !.owner = TRUE, !.closed = FALSE]]
       \/ GoesOn(Root, "exchange") /\ UNCHANGED session
    /\ UNCHANGED <<token, toolToken, effect, log, abandoned, lost>>

\* The delegating Tool has a timeout of its own.
ToolTimesOut ==
    /\ At(Root, "delegating") /\ toolToken = "no" /\ ~Cancelled(Root)
    /\ toolToken' = "timeout"
    /\ UNCHANGED <<run, token, timer, session, effect, log, abandoned, lost>>

\* Variant: a cancelled parent does not wait for its child.
LeaveChild ==
    /\ At(Root, "delegating")
    /\ At(Child, "done") \/ Cancelled(Root) \/ toolToken # "no"
    /\ session' = [session EXCEPT ![Child].closed = TRUE]
    /\ IF Cancelled(Root) \/ toolToken # "no" THEN EndsCancelled(Root)
       ELSE GoesOn(Root, "exchange")
    /\ UNCHANGED <<token, toolToken, effect, log, abandoned, lost>>

\* The child's result: its Session is closed, and whatever it came to is the result of
\* the call, unless the Tool was cancelled: then it waited for the child all the same.
ChildReturns ==
    /\ At(Root, "delegating") /\ At(Child, "done")
    /\ session' = [session EXCEPT ![Child].closed = TRUE]
    /\ IF Cancelled(Root) \/ toolToken # "no" THEN EndsCancelled(Root)
       ELSE GoesOn(Root, "exchange")
    /\ UNCHANGED <<token, toolToken, effect, log, abandoned, lost>>

\* The grace period of the cancelled Tool is over: it is cancelled again, closes the
\* Session, and its scope is frozen with the child Run still going.
AbandonChild ==
    /\ GraceExpires
    /\ At(Root, "delegating") /\ ~At(Child, "done")
    /\ Cancelled(Root) \/ toolToken # "no"
    /\ session' = [session EXCEPT ![Child].closed = TRUE]
    /\ abandoned' = TRUE
    /\ EndsCancelled(Root)
    /\ UNCHANGED <<token, toolToken, effect, log, lost>>

Committed(e) == IF e = "done" THEN "committed" ELSE e

\* commit_exchange: in memory it succeeds even when saving fails.  Only the root Run
\* marks effects as committed, its own and those below the calls of the exchange.
Exchange(r) ==
    /\ At(r, "exchange")
    /\ \/ /\ ~Cancelled(r)
          /\ GoesOn(r, "turn") \/ Fails(r, "session_persistence_error")
          /\ effect' = IF r = Root THEN [q \in Runs |-> Committed(effect[q])] ELSE effect
       \/ /\ Checked(r, Fails(r, "transcript_commit_error"))
          /\ UNCHANGED effect
    /\ UNCHANGED <<token, toolToken, session, log, abandoned, lost>>

-----------------------------------------------------------------------------
\* promote_child_output: a child's artifacts are copied to its parent's workspace.
ProcessOutput(r) ==
    /\ At(r, "ended")
    /\ IF r = Child /\ run[r].status = "completed"
       THEN \/ Goto(r, "finalizing")
            \/ \E o \in {<<"cancelled", "none">>, <<"failed", "materialization_failed">>} :
                 /\ o[1] = "cancelled" => Cancelled(r)
                 /\ run' = [run EXCEPT ![r] = [@ EXCEPT !.pc = "finalizing", !.status = o[1],
                                                       !.error = o[2], !.output = FALSE]]
       ELSE Goto(r, "finalizing")
    /\ UNCHANGED <<signals, session, effect, log, abandoned, lost>>

\* The first thing that goes wrong after a success makes it a failure.
AfterTrouble(x, error) ==
    IF x.status = "completed" /\ x.error = "none"
    THEN [x EXCEPT !.status = "failed", !.error = error] ELSE [x EXCEPT !.unclean = TRUE]

\* Variant: what the Run did before its scope was closed is enough to judge it.
SafeByOwnEffect(r) == effect[r] \in {"none", "committed"}

\* retry_safe, over the effects of the scope and all below it.
SafeToRetry(r) ==
    \A q \in (IF r = Root THEN Runs ELSE {r}) : effect[q] \in {"none", "committed"}

\* finalize: settlements and resources below end, and the facts are frozen.
Finalize(r) ==
    /\ At(r, "finalizing")
    /\ \E trouble \in BOOLEAN :
         LET x == [run[r] EXCEPT !.pc = "closing", !.retrySafe = SafeToRetry(r)]
         IN run' = [run EXCEPT ![r] = IF trouble THEN AfterTrouble(x, "cleanup_error") ELSE x]
    /\ UNCHANGED <<signals, session, effect, log, abandoned, lost>>

\* Variant: a hook that fails after success is only noted.
OnRunEndNoted(r) ==
    /\ At(r, "closing")
    /\ \E unclean \in BOOLEAN :
         run' = [run EXCEPT ![r] = [@ EXCEPT !.pc = "releasing", !.unclean = @ \/ unclean]]
    /\ UNCHANGED <<signals, session, effect, log, abandoned, lost>>

\* on_run_end, every hook, under its timeout; then the skill catalog is released.
OnRunEnd(r) ==
    /\ At(r, "closing")
    /\ \E trouble \in BOOLEAN :
         LET x == [run[r] EXCEPT !.pc = "releasing"]
         IN run' = [run EXCEPT ![r] = IF trouble THEN AfterTrouble(x, "cleanup_hook_error") ELSE x]
    /\ UNCHANGED <<signals, session, effect, log, abandoned, lost>>

\* release_run, the terminal event and the result, without an await in between.  A child
\* whose root has ended cannot emit: its task dies and nobody gets the result.
Finish(r) ==
    /\ At(r, "releasing")
    /\ session' = [session EXCEPT ![r].owner = FALSE]
    /\ \/ ~Mute(r) /\ Goto(r, "done") /\ log' = Append(log, <<r, "terminal">>)
       \/ Mute(r) /\ Goto(r, "died") /\ UNCHANGED log
    /\ UNCHANGED <<signals, effect, abandoned, lost>>

-----------------------------------------------------------------------------
\* Run.cancel by the host, at any time.
CancelRun ==
    /\ ~At(Root, "idle") /\ token[Root] = "no"
    /\ token' = [token EXCEPT ![Root] = "user"]
    /\ UNCHANGED <<run, toolToken, timer, session, effect, log, abandoned, lost>>

\* _timeout.
TimesOut(r) ==
    /\ timer[r]
    /\ timer' = [timer EXCEPT ![r] = FALSE]
    /\ token' = [token EXCEPT ![r] = IF Cancelled(r) THEN @ ELSE "timeout"]
    /\ UNCHANGED <<run, toolToken, session, effect, log, abandoned, lost>>

\* Session.steer or follow_up by the host.
Steer ==
    /\ ~session[Root].closed /\ session[Root].inputs < MaxInputs
    /\ session' = [session EXCEPT ![Root] = [@ EXCEPT !.pending = session[Root].pending + 1,
                                                     !.inputs = session[Root].inputs + 1]]
    /\ UNCHANGED <<run, signals, effect, log, abandoned, lost>>

Step(r) ==
    \/ Begin(r) \/ CommitInitial(r) \/ Turn(r) \/ Prepare(r) \/ BeforeModel(r) \/ Model(r)
    \/ AfterModel(r) \/ Answer(r) \/ Tools(r) \/ Exchange(r)
    \/ ProcessOutput(r) \/ Finalize(r) \/ OnRunEnd(r) \/ Finish(r)

RunNext ==
    \/ Start \/ Delegate \/ ToolTimesOut \/ ChildReturns \/ AbandonChild
    \/ CancelRun \/ Steer
    \/ \E r \in Runs : Step(r) \/ TimesOut(r)

RunSpec == RunInit /\ [][RunNext]_runVars

\* Hooks, models, Tools and saves end, with or without success, and honour
\* cancellation; what a delegating Tool waits for is its child.
RunFairness ==
    /\ \A r \in Runs : WF_runVars(Step(r))
    /\ WF_runVars(ChildReturns)

RunLiveSpec == RunSpec /\ RunFairness

-----------------------------------------------------------------------------
Over == {"done", "died"}
LoopPcs == {"initial", "turn", "prepare", "before", "model", "after", "answer", "tools",
            "delegating", "exchange"}

\* RunResult validates what _execute puts together: while the loop runs there is no
\* status; a completed Run has no error, a failed one has its first one, and a
\* cancelled one has none, whatever else goes wrong while it ends.
RunTypeOK ==
    \A r \in Runs :
      /\ run[r].turn \in 0..MaxTurns
      /\ run[r].pc \in LoopPcs => session[r].owner /\ run[r].status = "none"
      /\ run[r].pc \in Over =>
           /\ ~session[r].owner
           /\ run[r].status \in {"completed", "failed", "cancelled"}
           /\ run[r].status = "failed" <=> run[r].error # "none"
      /\ run[r].status = "completed" => run[r].error = "none"

\* A success is reported only if nothing went wrong up to the very end: the answer
\* is in the transcript, the scope was closed cleanly and every on_run_end hook
\* succeeded; and a root Run that ran out of time is never reported as cancelled.
OutcomeIsTrue ==
    /\ RunTypeOK
    /\ \A r \in Runs :
         run[r].pc \in Over /\ run[r].status = "completed" =>
             session[r].answered /\ ~run[r].unclean
    /\ run[Root].pc \in Over /\ run[Root].status = "cancelled" => Reason(Root) # "timeout"

\* The result of a Run calls a retry safe only if no side effect is left that the
\* transcript does not tell of: not one of a batch that was cancelled or aborted, not
\* one whose exchange could not be committed, and none of a child Run.  (A child that
\* was left behind is beyond what the root can know.)
RetrySafeIsTrue ==
    (run[Root].pc \in Over /\ run[Root].retrySafe /\ ~abandoned) =>
        /\ ~lost
        /\ \A r \in Runs : effect[r] # "done"

\* The root Run outlives its child: its terminal event is the last one of the shared
\* emitter, after the child's own, and the child's Session is closed by then.  (The
\* exception is a Tool that was left behind in its grace period.)
ChildEndsFirst ==
    At(Root, "done") /\ ~abandoned =>
        /\ run[Child].pc \in {"idle", "done"}
        /\ session[Child].closed /\ ~session[Child].owner

\* Every Run ends, cancelled or not, the abandoned child included, and with it its
\* ownership of the Session.
RunsEnd == \A r \in Runs : At(r, "starting") ~> run[r].pc \in Over
=============================================================================
