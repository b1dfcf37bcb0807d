---------------------------- MODULE ExecutionTree ----------------------------
(***************************************************************************)
(* The scopes of one root Run (roboagent/runtime/execution.py): every Tool *)
(* call and every child Run has a scope below the scope it was started     *)
(* from.  Scopes own resources and settlements and collect facts; closing  *)
(* one closes all below it, and awaits on the way, while the tasks that    *)
(* work in those scopes go on and may close some of them themselves.       *)
(***************************************************************************)
EXTENDS Integers, Sequences, FiniteSets

CONSTANTS
    Closers,        \* tasks that close scopes: executors, finalizing Runs
    Barriers,       \* settlement barriers entered
    MaxScopes,      \* bound: scopes opened
    MaxDepth,       \* max_agent_depth
    MaxChildRuns,   \* max_child_runs
    MaxNested,      \* max_nested_tool_calls
    MaxRecords,     \* max_execution_records
    MaxFacts        \* bound: usage contributions

ASSUME ExecutionTreeAssumption ==
    /\ MaxScopes \in Nat \ {0} /\ MaxRecords \in Nat \ {0}
    /\ MaxDepth \in Nat /\ MaxChildRuns \in Nat /\ MaxNested \in Nat /\ MaxFacts \in Nat

Root == 1
Scopes == 1..MaxScopes          \* a scope is its scope_sequence

VARIABLES
    opened,      \* scopes opened so far
    scope,       \* per opened scope: its lineage and state
    used,        \* child_runs_used and nested_tools_used
    resources,   \* per scope: resources registered and not yet taken by a closer
    barrier,     \* per settlement barrier: its scope, where its caller and its driver are
    closer,      \* per closer: the close_scope it executes
    usage,       \* _usage_state and _usage
    given,       \* the usage contributions accepted, in order
    records,     \* _records; complete until it holds the overflow record
    blockers     \* _retry_blockers, as the settlements and scopes they are about

lifecycle == <<opened, scope, used>>
facts == <<usage, given, records>>
treeVars == <<lifecycle, resources, barrier, closer, facts, blockers>>

Lineage(parent, above, run, depth) ==
    [parent |-> parent, ancestors |-> above, run |-> run, depth |-> depth, state |-> "open"]
Unopened == Lineage(0, {}, FALSE, 0)

NoUsage == [state |-> "none", amount |-> 0]
Known(n) == [state |-> "known", amount |-> n]
UnknownUsage == [state |-> "unknown", amount |-> 0]
Overflow == 0                   \* the record that says that others are missing

Idle == [pc |-> "idle", scope |-> Root, members |-> {}, at |-> Root, holds |-> 0]

TreeInit ==
    /\ opened = 1
    /\ scope = [s \in Scopes |-> IF s = Root THEN Lineage(0, {Root}, TRUE, 0) ELSE Unopened]
    /\ used = [runs |-> 0, nested |-> 0]
    /\ resources = [s \in Scopes |-> 0]
    /\ barrier = [b \in Barriers |-> [pc |-> "none", driver |-> "none", scope |-> Root, cancelled |-> FALSE]]
    /\ closer = [c \in Closers |-> Idle]
    /\ usage = NoUsage /\ given = <<>> /\ records = <<>> /\ blockers = {}

Live(s) == s \in 1..opened
Open(s) == Live(s) /\ scope[s].state = "open"
Below(s) == {d \in 1..opened : s \in scope[d].ancestors}      \* _is_descendant

-----------------------------------------------------------------------------
\* _new_scope.
NewScope(p, run) ==
    LET s == opened + 1 IN
    /\ s \in Scopes
    /\ opened' = s
    /\ scope' = [scope EXCEPT ![s] =
                   Lineage(p, scope[p].ancestors \cup {s}, run,
                           scope[p].depth + IF run THEN 1 ELSE 0)]
    /\ UNCHANGED <<resources, barrier, closer, facts, blockers>>

\* child_tool: a call of the Run's batch, or one a Tool asks for, out of the budget.
OpenTool(p) ==
    /\ Open(p)
    /\ \/ scope[p].run /\ UNCHANGED used
       \/ /\ ~scope[p].run /\ used.nested < MaxNested
          /\ used' = [used EXCEPT !.nested = @ + 1]
    /\ NewScope(p, FALSE)

\* new_child_run_scope, for a Tool that delegates.
OpenChildRun(p) ==
    /\ Open(p) /\ ~scope[p].run
    /\ scope[p].depth < MaxDepth /\ used.runs < MaxChildRuns
    /\ used' = [used EXCEPT !.runs = @ + 1]
    /\ NewScope(p, TRUE)

RegisterResource(s) ==
    /\ Open(s) /\ resources[s] = 0
    /\ resources' = [resources EXCEPT ![s] = @ + 1]
    /\ UNCHANGED <<lifecycle, barrier, closer, facts, blockers>>

-----------------------------------------------------------------------------
\* Variant: a scope that learns its usage again is as good as known.
RevivingMerge(u, n) == IF n = 0 THEN UnknownUsage ELSE Known(u.amount + n)

\* _merge_usage: amount 0 is a contribution whose usage is UNKNOWN.
MergeUsage(u, n) ==
    IF u.state = "unknown" \/ n = 0 THEN UnknownUsage ELSE Known(u.amount + n)

\* contribute, by the Run or Tool that works in scope s.
Contribute(s, n) ==
    /\ Open(s) /\ Len(given) < MaxFacts
    /\ given' = Append(given, [scope |-> s, amount |-> n])
    /\ usage' = MergeUsage(usage, n)
    /\ UNCHANGED <<lifecycle, resources, barrier, closer, records, blockers>>

\* _append_record: the last place is for the overflow record.
RecordsAfter(s) == Append(records, IF Len(records) < MaxRecords - 1 THEN s ELSE Overflow)

\* add_tool_record and add_summary_record: even in a scope that is closing or frozen.
Complete == \A i \in 1..Len(records) : records[i] # Overflow
AddRecord(s) ==
    /\ Live(s)
    /\ records' = IF Complete THEN RecordsAfter(s) ELSE records
    /\ UNCHANGED <<lifecycle, resources, barrier, closer, usage, given, blockers>>

\* usage_for_scope: what the contributions of s and the scopes below it come to.
UsageFor(s) ==
    LET merged[i \in 0..Len(given)] ==
            IF i = 0 THEN NoUsage
            ELSE IF s \notin scope[given[i].scope].ancestors THEN merged[i - 1]
            ELSE IF merged[i - 1].state = "unknown" \/ given[i].amount = 0 THEN UnknownUsage
            ELSE Known(merged[i - 1].amount + given[i].amount)
    IN merged[Len(given)]

-----------------------------------------------------------------------------
\* A Tool's settlement barrier: __aenter__, and __aexit__ once the body is over, which
\* starts the driver and waits for it.
BarrierTo(b, pc) == barrier' = [barrier EXCEPT ![b].pc = pc]
DriverTo(b, driver) == barrier' = [barrier EXCEPT ![b].driver = driver]

EnterSettlement(b, s) ==
    /\ barrier[b].pc = "none" /\ Open(s)
    /\ barrier' = [barrier EXCEPT ![b] = [@ EXCEPT !.pc = "body", !.scope = s]]
    /\ UNCHANGED <<lifecycle, resources, closer, facts, blockers>>

BodyEnds(b) ==
    /\ barrier[b].pc = "body"
    /\ barrier' = [barrier EXCEPT ![b] = [@ EXCEPT !.pc = "waiting", !.driver = "settle"]]
    /\ UNCHANGED <<lifecycle, resources, closer, facts, blockers>>

\* _drive_settlement: settle() succeeds, or it fails or takes too long.
Settle(b) ==
    /\ barrier[b].driver = "settle"
    /\ \E driver \in {"settled", "force"} : DriverTo(b, driver)
    /\ UNCHANGED <<lifecycle, resources, closer, facts, blockers>>

\* ... force_settle() succeeds, or the outcome is marked uncertain.
ForceSettle(b) ==
    /\ barrier[b].driver = "force"
    /\ \/ DriverTo(b, "settled") /\ UNCHANGED blockers
       \/ /\ DriverTo(b, "uncertain")
          /\ blockers' = blockers \cup {<<"settlement", barrier[b].scope>>}
    /\ UNCHANGED <<lifecycle, resources, closer, facts>>

Driving(b) == barrier[b].driver \in {"settle", "force"}

\* Variant: a cancelled caller does not wait for the driver.
LeaveAtOnce(b) ==
    /\ barrier[b].pc = "waiting" /\ Driving(b)
    /\ BarrierTo(b, "left")
    /\ UNCHANGED <<lifecycle, resources, closer, facts, blockers>>

\* The caller is cancelled: it waits for the driver, and learns of it afterwards.
CancelCaller(b) ==
    /\ barrier[b].pc = "waiting" /\ Driving(b) /\ ~barrier[b].cancelled
    /\ barrier' = [barrier EXCEPT ![b].cancelled = TRUE]
    /\ UNCHANGED <<lifecycle, resources, closer, facts, blockers>>

\* _leave_settlement.
LeaveSettlement(b) ==
    /\ barrier[b].pc = "waiting" /\ ~Driving(b)
    /\ BarrierTo(b, "left")
    /\ UNCHANGED <<lifecycle, resources, closer, facts, blockers>>

Inside == {"body", "waiting"}
Settling(s) == \E b \in Barriers : barrier[b].scope = s /\ barrier[b].pc \in Inside

-----------------------------------------------------------------------------
\* Variant: only the scope itself stops accepting work.
ClosingAlone(s) == [scope EXCEPT ![s].state = IF @ = "open" THEN "closing" ELSE @]

\* begin_closing of a scope and of all scopes below it.
Closing(s) ==
    [d \in Scopes |-> IF d \in Below(s) /\ scope[d].state = "open"
                      THEN [scope[d] EXCEPT !.state = "closing"] ELSE scope[d]]

\* close_scope and close_tool_scope: the root is closed by finalize, once.
BeginClose(c, s) ==
    /\ closer[c].pc = "idle"
    /\ Live(s) /\ scope[s].state # "frozen"
    /\ s = Root => \A k \in Closers : closer[k].pc = "idle" \/ closer[k].scope # Root
    /\ scope' = Closing(s)
    /\ closer' = [closer EXCEPT ![c] =
                    [pc |-> "settle", scope |-> s, members |-> Below(s), at |-> opened, holds |-> 0]]
    /\ UNCHANGED <<opened, used, resources, barrier, facts, blockers>>

\* The next scope to visit: the members in descending order, from the one at hand.
Rest(c) == {d \in closer[c].members : d <= closer[c].at}
Current(c) == CHOOSE d \in Rest(c) : \A e \in Rest(c) : e <= d

\* _wait_for_settlement, scope by scope.
AwaitSettlement(c) ==
    /\ closer[c].pc = "settle"
    /\ \/ /\ Rest(c) # {} /\ ~Settling(Current(c))
          /\ closer' = [closer EXCEPT ![c].at = Current(c) - 1]
       \/ /\ Rest(c) = {}
          /\ closer' = [closer EXCEPT ![c] = [@ EXCEPT !.pc = "take", !.at = opened]]
    /\ UNCHANGED <<lifecycle, resources, barrier, facts, blockers>>

\* _cleanup takes the resources that are left in the scope.
TakeResources(c) ==
    /\ closer[c].pc = "take" /\ Rest(c) # {}
    /\ closer' = [closer EXCEPT ![c] = [@ EXCEPT !.pc = "clean", !.holds = resources[Current(c)]]]
    /\ resources' = [resources EXCEPT ![Current(c)] = 0]
    /\ UNCHANGED <<lifecycle, barrier, facts, blockers>>

\* ... closes one, by force if it has to, and notes it when even that fails.
CloseResource(c) ==
    /\ closer[c].pc = "clean" /\ closer[c].holds > 0
    /\ closer' = [closer EXCEPT ![c].holds = @ - 1]
    /\ \/ UNCHANGED blockers
       \/ blockers' = blockers \cup {<<"cleanup", Current(c)>>}
    /\ UNCHANGED <<lifecycle, resources, barrier, facts>>

\* freeze.
Freeze(c) ==
    /\ closer[c].pc = "clean" /\ closer[c].holds = 0
    /\ scope' = [scope EXCEPT ![Current(c)].state = "frozen"]
    /\ closer' = [closer EXCEPT ![c] = [@ EXCEPT !.pc = "take", !.at = Current(c) - 1]]
    /\ UNCHANGED <<opened, used, resources, barrier, facts, blockers>>

EndClose(c) ==
    /\ closer[c].pc = "take" /\ Rest(c) = {}
    /\ closer' = [closer EXCEPT ![c] =
                    IF closer[c].scope = Root THEN [@ EXCEPT !.pc = "done"] ELSE Idle]
    /\ UNCHANGED <<lifecycle, resources, barrier, facts, blockers>>

\* A task that is cancelled while it waits for a settlement leaves the scopes closing.
CancelClose(c) ==
    /\ closer[c].pc = "settle" /\ closer[c].scope # Root
    /\ closer' = [closer EXCEPT ![c] = Idle]
    /\ UNCHANGED <<lifecycle, resources, barrier, facts, blockers>>

CloseStep(c) ==
    \/ AwaitSettlement(c) \/ TakeResources(c) \/ CloseResource(c) \/ Freeze(c) \/ EndClose(c)

BarrierStep(b) == BodyEnds(b) \/ Settle(b) \/ ForceSettle(b) \/ LeaveSettlement(b)

TreeNext ==
    \/ \E s \in Scopes :
         \/ OpenTool(s) \/ OpenChildRun(s) \/ RegisterResource(s)
         \/ \E n \in 0..1 : Contribute(s, n)
         \/ AddRecord(s)
         \/ \E b \in Barriers : EnterSettlement(b, s)
         \/ \E c \in Closers : BeginClose(c, s)
    \/ \E b \in Barriers : BarrierStep(b) \/ CancelCaller(b)
    \/ \E c \in Closers : CloseStep(c) \/ CancelClose(c)

TreeSpec == TreeInit /\ [][TreeNext]_treeVars

-----------------------------------------------------------------------------
TreeTypeOK ==
    /\ opened \in Scopes
    /\ scope \in [Scopes -> [parent : 0..MaxScopes, ancestors : SUBSET Scopes, run : BOOLEAN,
                             depth : Nat, state : {"open", "closing", "frozen"}]]
    /\ used \in [runs : 0..MaxChildRuns, nested : 0..MaxNested]
    /\ resources \in [Scopes -> Nat]
    /\ \A c \in Closers : closer[c].at \in 0..opened /\ closer[c].members \subseteq 1..opened
    /\ Len(records) <= MaxRecords

\* close_scope lists the scopes below once and then awaits: nothing may be opened
\* there meanwhile, and no scope is frozen before the ones below it, however many
\* tasks close overlapping parts of the tree.
SubtreeCloses ==
    /\ TreeTypeOK
    /\ \A s \in 1..opened, d \in 1..opened :
         s \in scope[d].ancestors =>
           /\ scope[s].state # "open" => scope[d].state # "open"
           /\ scope[s].state = "frozen" => scope[d].state = "frozen"

\* A settlement barrier is left only when its driver has converged, cancelled or not,
\* though nothing but that keeps close_scope from freezing the scope: a frozen scope has
\* no settlement under way, and one that could not be confirmed has left the blocker that
\* makes the Run unsafe to retry.
SettledBeforeFrozen ==
    \A b \in Barriers :
        LET s == barrier[b].scope IN
        /\ scope[s].state = "frozen" => barrier[b].pc \notin Inside /\ ~Driving(b)
        /\ barrier[b].driver = "uncertain" => <<"settlement", s>> \in blockers

\* _merge_usage keeps a running total, usage_for_scope adds up the contributions:
\* the Run's result and its scopes' agree, and one unknown makes the total unknown.
UsageAgrees == usage = UsageFor(Root)

=============================================================================
