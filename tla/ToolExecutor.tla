----------------------------- MODULE ToolExecutor -----------------------------
(***************************************************************************)
(* One batch of Tool calls (roboagent/tool/executor.py) and, when its      *)
(* first call is a composite Tool, the nested call that Tool makes.  A     *)
(* call is prepared (arguments, policy, approval), started, and raced      *)
(* against its timeout and its cancellation; whatever its handler comes to *)
(* becomes the effect evidence that decides whether a Run is safe to       *)
(* retry.  A handler that is cancelled has a grace period, then it is left *)
(* behind; but one that is in a settlement barrier is waited for, and a    *)
(* scope is not closed while a barrier of it is entered                    *)
(* (runtime/execution.py).  A batch of CONCURRENT Tools is prepared in     *)
(* order before any of them starts, and one failure cancels the rest.      *)
(***************************************************************************)
EXTENDS Integers, FiniteSets

CONSTANTS
    Widths,    \* bound: the values of max_concurrency
    Batches    \* bound: how a batch runs, and what kinds of Tool its calls name

Outer == 1                  \* the call that may be composite
Calls == {1, 2}             \* of the batch, in the order of the model's response
Nested == 3                 \* made by the handler of the composite call
AllCalls == Calls \cup {Nested}

ASSUME ToolExecutorAssumption ==
    /\ Widths \subseteq Nat \ {0}
    /\ Batches \subseteq [mode : {"serial", "concurrent"},
                          kind : [AllCalls -> {"readOnly", "sideEffecting", "composite", "missing"}]]

VARIABLES
    cancelled,  \* the Run's token, or that of a call further up
    batch,      \* execute: its mode, where it is and what it came to
    kind,       \* per call: the Tool it names
    call,       \* per call: where the executor is with it, its evidence and its token
    handler,    \* per call: the Tool's own coroutine
    touched,    \* history: per call, its handler has changed the world
    committed   \* the exchange with the results is in the transcript

toolVars == <<cancelled, batch, kind, call, handler, touched, committed>>

Fresh(pc) == [pc |-> pc, outcome |-> "none", effect |-> "none", records |-> 0, permitted |-> FALSE,
              late |-> FALSE, shielded |-> FALSE, own |-> FALSE, stop |-> FALSE,
              open |-> pc # "none"]

ToolInit ==
    /\ cancelled = FALSE /\ committed = FALSE
    /\ \E b \in Batches, w \in Widths :
         /\ kind = b.kind
         /\ batch = [mode |-> b.mode, width |-> w, pc |-> IF b.mode = "serial" THEN "run" ELSE "prepare",
                     at |-> 1, seen |-> {}, outcome |-> "none"]
    /\ call = [c \in AllCalls |-> Fresh(IF c = Nested THEN "none" ELSE "wait")]
    /\ handler = [c \in AllCalls |-> [state |-> "none", stop |-> FALSE, left |-> FALSE, barrier |-> FALSE]]
    /\ touched = [c \in AllCalls |-> FALSE]

Over == batch.pc = "over"
At(c, pc) == call[c].pc = pc
\* The token of a call: its own, the Run's, or that of the call it is nested in.
Cancelled(c) == cancelled \/ call[c].own \/ (c = Nested /\ call[Outer].own)
SideEffecting(c) == kind[c] = "sideEffecting"
Records(n, more) == IF n + more > 2 THEN 2 ELSE n + more

Moved(c, pc) == [call EXCEPT ![c].pc = pc]
Goto(c, pc) == call' = Moved(c, pc)

\* _one and execute_prepared: abort and cancellation of the batch leave a record, on
\* top of those made where they arose; a bare CancelledError leaves none.
Ended(x, outcome, records) ==
    [x EXCEPT !.pc = "closing", !.outcome = outcome, !.records = Records(@, records)]
Ends(c, outcome, records) == call' = [call EXCEPT ![c] = Ended(@, outcome, records)]

\* A call only moves itself; what it does not say about the rest stays.
Quietly(A) == A /\ UNCHANGED <<cancelled, batch, kind, handler, touched, committed>>

\* The task of the call is cancelled, by _cancel_tasks or with the handler it is
\* nested in: the CancelledError arrives where the call is suspended.
Stopped(c, A) ==
    /\ call[c].stop
    /\ A /\ UNCHANGED <<cancelled, batch, kind, handler, touched, committed>>

-----------------------------------------------------------------------------
\* Is it this call's turn to be prepared?  A batch prepares in order; a nested batch
\* has one call.
Turn(c) == c = Nested \/ (batch.at = c /\ batch.pc \in {"prepare", "run"})

\* What _prepare ends with: an error result, whose after_tool hooks are still to run,
\* or a call ready to be started.
Answered(c) == Goto(c, "after")
Permit(c) ==
    call' = [call EXCEPT ![c] = [@ EXCEPT !.permitted = TRUE, !.pc =
               IF c # Nested /\ batch.mode = "concurrent" THEN "ready" ELSE "before"]]

\* _prepare up to the approval: arguments, policy, registry.
Prepare(c) ==
    /\ At(c, "wait") /\ Turn(c)
    /\ Quietly(IF Cancelled(c) THEN Ends(c, "cancelled", 0)
               ELSE \/ Answered(c)                  \* invalid, rejected or unknown
                    \/ Ends(c, "aborted", 1)        \* policy_error, tool_contract_error
                    \/ Ends(c, "aborted", 2)        \* policy_fail_run
                    \/ kind[c] # "missing" /\ (Goto(c, "approval") \/ Permit(c)))

\* Variant: only an explicit rejection stops a call.
AskAnyway(c) ==
    /\ At(c, "approval")
    /\ Quietly(\/ Cancelled(c) /\ Ends(c, "cancelled", 0)
               \/ Answered(c)
               \/ Ends(c, "aborted", 1)
               \/ Goto(c, "before"))

\* _approval: cancelled, timed out or rejected, failed or mismatched, or approved.
Approval(c) ==
    /\ At(c, "approval")
    /\ Quietly(\/ Cancelled(c) /\ Ends(c, "cancelled", 0)
               \/ ~Cancelled(c) /\ Answered(c)
               \/ Ends(c, "aborted", 1)
               \/ Permit(c))

\* before_tool hooks, a last check, and the handler is started.
Start(c) ==
    /\ At(c, "before")
    /\ \/ /\ ~Cancelled(c)
          /\ Goto(c, "running")
          /\ handler' = [handler EXCEPT ![c].state = "running"]
       \/ /\ Cancelled(c) /\ Ends(c, "cancelled", 0) /\ UNCHANGED handler
       \/ /\ Ends(c, "aborted", 2) /\ UNCHANGED handler
    /\ UNCHANGED <<cancelled, batch, kind, touched, committed>>

\* Before it runs a call that is stopped leaves nothing behind.
StoppedEarly(c) ==
    /\ call[c].pc \in {"wait", "approval", "before"}
    /\ Stopped(c, Ends(c, "cancelled", 0))

-----------------------------------------------------------------------------
\* The Tool's own coroutine.
Runs(c) == handler[c].state = "running"

\* A handler with side effects has one; cancelled, left behind or not.
Touch(c) ==
    /\ Runs(c) /\ SideEffecting(c) /\ ~touched[c]
    /\ touched' = [touched EXCEPT ![c] = TRUE]
    /\ UNCHANGED <<cancelled, batch, kind, call, handler, committed>>

\* execute_nested_tool, by the handler of the composite call.
Nest ==
    /\ Runs(Outer) /\ kind[Outer] = "composite"
    /\ At(Nested, "none") /\ call[Outer].open
    /\ call' = [call EXCEPT ![Nested] = Fresh("wait")]
    /\ UNCHANGED <<cancelled, batch, kind, handler, touched, committed>>

Nesting(c) == c = Outer /\ call[Nested].pc \notin {"none", "closed"}

\* settlement_barrier: entered while the scope of the call is open; it is left when its
\* driver has settled, or settled by force.
EnterBarrier(c) ==
    /\ Runs(c) /\ call[c].open /\ ~handler[c].barrier
    /\ handler' = [handler EXCEPT ![c].barrier = TRUE]
    /\ UNCHANGED <<cancelled, batch, kind, call, touched, committed>>

LeaveBarrier(c) ==
    /\ Runs(c) /\ handler[c].barrier
    /\ handler' = [handler EXCEPT ![c].barrier = FALSE]
    /\ UNCHANGED <<cancelled, batch, kind, call, touched, committed>>

\* The handler is over: it returns, fails for certain (and has then done nothing),
\* says that it does not know, raises something else, breaks its contract, leaves its
\* barrier by a settlement that failed, or is cancelled.  A composite one first hears from its call.
HandlerEnds(c) ==
    /\ Runs(c) /\ ~Nesting(c)
    /\ \E how \in {"returned", "failed", "unknown", "raised", "broken", "foreign", "settlement",
                   "cancelled"} :
         /\ handler[c].barrier <=> how = "settlement"
         /\ how = "failed" => ~touched[c]
         /\ how = "unknown" => kind[c] # "composite"
         /\ how = "cancelled" => handler[c].stop \/ (c = Outer /\ call[Nested].outcome = "cancelled")
         /\ handler' = [handler EXCEPT ![c] = [@ EXCEPT !.state = how, !.stop = FALSE, !.barrier = FALSE]]
    /\ UNCHANGED <<cancelled, batch, kind, call, touched, committed>>

-----------------------------------------------------------------------------
\* Variant: a generic exception counts as a failure of any Tool.
Trusting(c, how) ==
    IF kind[c] = "composite" THEN "none"
    ELSE CASE how = "returned" -> "succeeded"
           [] how = "unknown" -> "unknown"
           [] OTHER -> "harmless"

\* The evidence of a handler that ended, or was left: only an explicit failure, or a
\* Tool without side effects, is known to have had none.
Evidence(c, how) ==
    IF kind[c] = "composite" THEN "none"
    ELSE CASE how = "returned" -> "succeeded"
           [] how = "unknown" -> "unknown"
           [] how = "failed" \/ ~SideEffecting(c) -> "harmless"
           [] OTHER -> "unknown"

\* The effect is contributed to the call's scope; a scope that is closed by now refuses
\* it, which nobody above expects.
Contribute(c, how, next) ==
    call' = [call EXCEPT ![c] =
               IF @.open THEN [next EXCEPT !.effect = Evidence(c, how)] ELSE Ended(@, "error", 0)]

\* What a handler came to is looked at once.
Consumed(how) == IF how \in {"running", "settlement"} THEN how ELSE "over"

\* The handler was there first.  What it raised may also be an error of the executor
\* itself, for evidence that is not its own.
Finish(c) ==
    LET how == handler[c].state
        x == call[c] IN
    /\ At(c, "running") /\ ~Runs(c)
    /\ CASE how = "returned" /\ kind[c] # "composite" ->
              Contribute(c, how, [x EXCEPT !.pc = "materializing"])
         [] how \in {"returned", "failed", "unknown", "raised"} ->
              Contribute(c, how, [x EXCEPT !.pc = "after"])
         [] how = "broken" -> Contribute(c, how, Ended(x, "aborted", 2))
         [] how = "settlement" -> Ends(c, "aborted", 2)
         [] how = "foreign" -> Ends(c, "error", 0)
         [] OTHER -> Ends(c, "cancelled", 1)       \* what the nested call was
    /\ handler' = [handler EXCEPT ![c].state = Consumed(@)]
    /\ UNCHANGED <<cancelled, batch, kind, touched, committed>>

\* _cancel_started: the token of the call and its handler are cancelled; a handler that
\* waits for a nested call passes it on.  One that is in a settlement barrier by now has
\* no grace period: it is waited for, shielded.
Interrupt(c, late) ==
    /\ call' = [d \in AllCalls |->
                  IF d = c THEN [call[d] EXCEPT !.pc = "settling", !.own = ~Cancelled(c) \/ @,
                                                !.late = late, !.stop = FALSE,
                                                !.shielded = handler[c].barrier]
                  ELSE IF d = Nested /\ Nesting(c) THEN [call[d] EXCEPT !.stop = TRUE]
                  ELSE call[d]]
    /\ handler' = [handler EXCEPT ![c].stop = TRUE]
    /\ UNCHANGED <<cancelled, batch, kind, touched, committed>>

Running(c) == At(c, "running")
CancelStarted(c) == Running(c) /\ (Cancelled(c) \/ call[c].stop) /\ Interrupt(c, FALSE)
TimeoutStarted(c) == Running(c) /\ Runs(c) /\ ~Cancelled(c) /\ Interrupt(c, TRUE)

\* Variant: a handler is waited for however long it takes.
SettledInTime(c) ==
    /\ At(c, "settling") /\ ~Runs(c)
    /\ Contribute(c, handler[c].state,
                  IF call[c].late THEN [call[c] EXCEPT !.pc = "after"] ELSE Ended(call[c], "cancelled", 2))
    /\ UNCHANGED <<cancelled, batch, kind, handler, touched, committed>>

\* ... the handler converges, or its grace is over, if it has one, or the call itself is
\* cancelled while it waits: then the handler is left.  A timeout goes on as a result.
Settled(c) ==
    /\ At(c, "settling")
    /\ \E leave \in BOOLEAN :
         /\ Runs(c) <=> leave
         /\ leave => ~call[c].shielded \/ call[c].stop
         /\ Contribute(c, IF leave THEN "left" ELSE handler[c].state,
                       LET x == [call[c] EXCEPT !.stop = FALSE, !.shielded = FALSE] IN
                       IF call[c].late THEN [x EXCEPT !.pc = "after", !.late = FALSE]
                       ELSE Ended(x, "cancelled", 2))
         /\ handler' = [handler EXCEPT ![c] = [@ EXCEPT !.left = leave,
                                                      !.state = Consumed(handler[c].state)]]
    /\ UNCHANGED <<cancelled, batch, kind, touched, committed>>

\* The materializer turns the content of a success into what the model sees.
Materialize(c) ==
    /\ At(c, "materializing")
    /\ Quietly(\/ Goto(c, "after")
               \/ (Cancelled(c) \/ call[c].stop) /\ Ends(c, "cancelled", 1)
               \/ Ends(c, "aborted", 2))

\* after_tool hooks: a cancelled call has no result any more.  Then the record.
After(c) ==
    /\ At(c, "after")
    /\ Quietly(IF Cancelled(c) \/ call[c].stop
               THEN Ends(c, "cancelled", IF call[c].permitted THEN 1 ELSE 0)
               ELSE Ends(c, "result", 1) \/ Ends(c, "aborted", 1))

\* What is left of a call once it is closed.
Closed(x, c) ==
    [x EXCEPT !.pc = "closed", !.stop = FALSE, !.late = FALSE,
              !.own = @ /\ c = Outer, !.records = IF c = Nested THEN 0 ELSE @]

\* close_tool_scope: the scope of a nested call is closed with that of its parent.  Both
\* refuse evidence and barriers from now on.
ScopesOf(c) == IF c = Outer THEN {Outer, Nested} ELSE {c}
BeginClosing(c) ==
    /\ At(c, "closing") /\ call[c].open
    /\ call' = [d \in AllCalls |-> IF d \in ScopesOf(c) THEN [call[d] EXCEPT !.open = FALSE]
                                  ELSE call[d]]
    /\ UNCHANGED <<cancelled, batch, kind, handler, touched, committed>>

\* Variant: _wait_for_settlement is left out.
CloseAtOnce(c) ==
    /\ At(c, "closing") /\ ~call[c].open
    /\ Quietly(call' = [call EXCEPT ![c] = Closed(@, c)])

\* ... and a barrier that is entered is waited for, until the call itself is cancelled.
Settles(c) == \A d \in ScopesOf(c) : ~handler[d].barrier
CloseCall(c) ==
    /\ At(c, "closing") /\ ~call[c].open
    /\ Settles(c) \/ call[c].stop
    /\ Quietly(call' = [call EXCEPT ![c] = Closed(@, c)])

-----------------------------------------------------------------------------
\* _abort_unprocessed: a record for each, whatever became of it, and its scope closed,
\* once its barriers are left.
AbortUnprocessed(from) ==
    call' = [c \in AllCalls |->
               IF c \in Calls /\ c >= from
               THEN [call[c] EXCEPT !.records = Records(@, 1), !.open = FALSE] ELSE call[c]]

BatchEnds(outcome) == batch' = [batch EXCEPT !.pc = "over", !.outcome = outcome]

\* The result of c is there: with the last one a concurrent batch has its results.
Collected(b, c) ==
    LET seen == b.seen \cup {c} IN
    [b EXCEPT !.seen = seen, !.pc = IF seen = Calls THEN "over" ELSE @,
              !.outcome = IF seen = Calls THEN "results" ELSE @]

\* A serial batch takes the outcome of the call at hand.
NextSerial ==
    /\ batch.mode = "serial" /\ batch.pc = "run" /\ At(batch.at, "closed")
    /\ CASE call[batch.at].outcome = "result" ->
              /\ IF batch.at = 2 THEN BatchEnds("results") ELSE batch' = [batch EXCEPT !.at = 2]
              /\ UNCHANGED call
         [] call[batch.at].outcome \in {"aborted", "cancelled"} ->
              /\ AbortUnprocessed(batch.at + 1)
              /\ BatchEnds(call[batch.at].outcome)
         [] OTHER -> BatchEnds("error") /\ UNCHANGED call
    /\ UNCHANGED <<cancelled, kind, handler, touched, committed>>

\* A concurrent batch prepares the next call, when this one is ready or has its result.
PreparedOne ==
    LET x == call[batch.at] IN
    /\ batch.pc = "prepare" /\ x.pc \in {"ready", "closed"}
    /\ \/ /\ x.pc = "ready" \/ x.outcome = "result"
          /\ LET b == [batch EXCEPT !.at = @ + 1, !.pc = IF batch.at = 2 THEN "run" ELSE @]
             IN batch' = IF x.pc = "closed" THEN Collected(b, batch.at) ELSE b
          /\ UNCHANGED call
       \/ /\ x.pc = "closed" /\ x.outcome # "result"
          /\ AbortUnprocessed(1)
          /\ BatchEnds(x.outcome)
    /\ UNCHANGED <<cancelled, kind, handler, touched, committed>>

Started == {c \in Calls : call[c].pc \notin {"wait", "ready"}}

\* fill.
Fill(c) ==
    /\ batch.mode = "concurrent" /\ batch.pc = "run" /\ At(c, "ready")
    /\ \A d \in Calls : At(d, "closed") => d \in batch.seen
    /\ \A d \in Calls : d < c => ~At(d, "ready")
    /\ Cardinality(Started \ batch.seen) < batch.width
    /\ Quietly(Goto(c, "before"))

\* Variant: the tasks that still run are not waited for.
TakeAndGo(c) ==
    /\ batch.mode = "concurrent" /\ batch.pc = "run" /\ At(c, "closed") /\ c \notin batch.seen
    /\ IF call[c].outcome = "result"
       THEN batch' = Collected(batch, c) /\ UNCHANGED call
       ELSE AbortUnprocessed(1) /\ BatchEnds(call[c].outcome)
    /\ UNCHANGED <<cancelled, kind, handler, touched, committed>>

\* _concurrent takes a task that is done: a failure cancels the tasks that still run.
Take(c) ==
    /\ batch.mode = "concurrent" /\ batch.pc = "run" /\ At(c, "closed") /\ c \notin batch.seen
    /\ CASE call[c].outcome = "result" ->
              batch' = Collected(batch, c) /\ UNCHANGED call
         [] call[c].outcome \in {"aborted", "cancelled"} ->
              /\ batch' = [batch EXCEPT !.pc = "stop", !.outcome = call[c].outcome]
              /\ call' = [d \in AllCalls |->
                            IF d \in Started /\ ~At(d, "closed")
                            THEN [call[d] EXCEPT !.stop = TRUE] ELSE call[d]]
         [] OTHER -> BatchEnds("error") /\ UNCHANGED call
    /\ UNCHANGED <<cancelled, kind, handler, touched, committed>>

\* _cancel_tasks has gathered them.
Gathered ==
    /\ batch.pc = "stop"
    /\ \A c \in Started : At(c, "closed") /\ Settles(c)
    /\ AbortUnprocessed(1)
    /\ batch' = [batch EXCEPT !.pc = "over"]
    /\ UNCHANGED <<cancelled, kind, handler, touched, committed>>

\* The loop commits the exchange of a batch with results, or fails to.
CommitExchange ==
    /\ batch.outcome = "results" /\ batch.pc = "over" /\ ~cancelled
    /\ committed' = TRUE
    /\ UNCHANGED <<cancelled, batch, kind, call, handler, touched>>

Cancel ==
    /\ ~Over /\ ~cancelled /\ cancelled' = TRUE
    /\ UNCHANGED <<batch, kind, call, handler, touched, committed>>

\* What the executor does by itself, whatever handlers and providers do.
CallStep(c) ==
    \/ Prepare(c) \/ Start(c) \/ StoppedEarly(c) \/ Finish(c) \/ CancelStarted(c)
    \/ Settled(c) \/ Materialize(c) \/ After(c) \/ BeginClosing(c) \/ CloseCall(c) \/ Fill(c)

BatchStep == NextSerial \/ PreparedOne \/ Gathered \/ \E c \in Calls : Take(c)

ToolNext ==
    \/ \E c \in AllCalls :
         \/ CallStep(c) \/ Approval(c) \/ TimeoutStarted(c)
         \/ Touch(c) \/ EnterBarrier(c) \/ LeaveBarrier(c) \/ HandlerEnds(c)
    \/ BatchStep \/ Nest \/ CommitExchange \/ Cancel

ToolSpec == ToolInit /\ [][ToolNext]_toolVars

\* Hooks and materializers end, and an approval provider that is cancelled does; a
\* handler may go on for ever.
ToolFairness ==
    /\ \A c \in AllCalls : WF_toolVars(CallStep(c)) /\ WF_toolVars(Cancelled(c) /\ Approval(c))
    /\ WF_toolVars(BatchStep)

ToolLiveSpec == ToolSpec /\ ToolFairness

-----------------------------------------------------------------------------
\* retry_safe, over the evidence in the scopes of the batch.
RetrySafe ==
    \A c \in AllCalls : SideEffecting(c) =>
        call[c].effect \in {"none", "harmless"} \/ (call[c].effect = "succeeded" /\ committed)

Surviving == {c \in AllCalls : touched[c] /\ ~(call[c].effect = "succeeded" /\ committed)}

\* However calls end, time out, are cancelled or left behind, in whatever order: a
\* batch that leaves a side effect the transcript does not tell of is not safe to
\* retry.  (Three ways of losing evidence are known and excepted here: the call nested
\* in a composite one that was left behind, a failed settlement, and calls of which
\* one made the executor itself raise.)
EffectsAccounted ==
    Over /\ RetrySafe =>
      \A c \in Surviving :
        \/ c = Nested /\ handler[Outer].left
        \/ handler[c].state = "settlement"
        \/ \E d \in AllCalls : call[d].outcome = "error"

\* No handler runs unless its call was allowed and, if need be, approved; in a serial
\* batch not before the earlier calls have their results, in a concurrent one not
\* before all are prepared, so that FAIL_RUN finds nothing started.
StartsInOrder ==
    \A c \in AllCalls : handler[c].state # "none" =>
      /\ call[c].permitted
      /\ c \in Calls => \A d \in Calls :
           IF batch.mode = "serial" THEN d < c => call[d].outcome = "result"
           ELSE call[d].pc \notin {"wait", "approval"}

\* A batch that is over has no call under way, unless it ended by an error of the
\* executor itself: every scope is closed with no settlement under way in it, and a
\* handler that still runs was cancelled and left behind.  Its results are complete, with
\* one record each.
NothingLeftRunning ==
    Over /\ batch.outcome # "error" =>
      \A c \in Calls :
        /\ call[c].pc \in {"wait", "ready", "closed"} /\ ~call[c].open /\ Settles(c)
        /\ Runs(c) => handler[c].left /\ handler[c].stop
        /\ batch.outcome = "results" => call[c].outcome = "result" /\ call[c].records = 1

\* The executor waits for this handler without a limit: it is in a settlement barrier,
\* or was when its call was interrupted.
Withheld(c) == handler[c].barrier \/ (At(c, "settling") /\ call[c].shielded /\ Runs(c))

\* A batch whose Run is cancelled ends, though a handler may never; unless one that was
\* in a settlement barrier withholds it for ever.  (The only Tool of the repository with
\* a barrier, apply_patch, does not: what it does in it and after it is synchronous and
\* its settlement has a timeout.)
CancelledEnds == (\A c \in AllCalls : []<>~Withheld(c)) => (cancelled ~> Over)

\* What modules/tool.md promises: the outcome of a Tool with side effects that was
\* interrupted, or raised anything but an explicit failure, is unknown at best.  Not so when
\* its settlement failed and was forced (executor.py:679): no run checks it.
InterruptedIsUnknown ==
    Over /\ RetrySafe /\ (\A c \in AllCalls : call[c].outcome # "error") => Surviving = {}

\* What modules/tool.md promises: a timeout is a result the model sees; only the Run's
\* own cancellation cancels a batch.  Not so when the handler outlives its grace period
\* (executor.py:763): no run checks it.
TimeoutIsAResult == batch.outcome = "cancelled" => cancelled
=============================================================================
