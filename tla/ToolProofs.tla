----------------------------- MODULE ToolProofs -----------------------------
(***************************************************************************)
(* Theorems about the batch of Tool calls of ToolExecutor, for any widths  *)
(* and any kinds of Tool: effect evidence is complete, handlers start in   *)
(* order, and a batch that is over has left nothing running; with the      *)
(* inductive invariant that relates a call, its handler and what that did. *)
(***************************************************************************)
EXTENDS ToolExecutor, TLAPS

Pcs == {"none", "wait", "approval", "ready", "before", "running", "settling", "materializing",
        "after", "closing", "closed"}
Ends3 == {"returned", "failed", "unknown", "raised", "broken", "foreign", "settlement", "cancelled"}

CallRecords ==
    [pc : Pcs, outcome : {"none", "result", "aborted", "cancelled", "error"},
     effect : {"none", "succeeded", "harmless", "unknown"}, records : {0, 1, 2},
     permitted : BOOLEAN, late : BOOLEAN, shielded : BOOLEAN, own : BOOLEAN, stop : BOOLEAN,
     open : BOOLEAN]
HandlerRecords ==
    [state : {"none", "running", "over"} \cup Ends3, stop : BOOLEAN, left : BOOLEAN,
     barrier : BOOLEAN]

ToolTypes ==
    /\ kind \in [AllCalls -> {"readOnly", "sideEffecting", "composite", "missing"}]
    /\ batch \in [mode : {"serial", "concurrent"}, width : Nat,
                  pc : {"prepare", "run", "stop", "over"}, at : {1, 2, 3}, seen : SUBSET Calls,
                  outcome : {"none", "results", "aborted", "cancelled", "error"}]
    /\ call \in [AllCalls -> CallRecords]
    /\ handler \in [AllCalls -> HandlerRecords]
    /\ touched \in [AllCalls -> BOOLEAN]

Unstarted == {"none", "wait", "approval", "ready", "before"}
Under == {"running", "settling"}

\* One call, with its record, its handler and what that touched.
CallOk(c, x, h, t) ==
    /\ x.pc \in Unstarted => h.state = "none" /\ ~h.stop /\ x.effect = "none"
    /\ x.pc = "ready" => c # Nested
    /\ x.pc \in {"ready", "before"} \cup Under \/ h.state # "none" => x.permitted
    /\ x.pc \in Under => h.state \notin {"none", "over"} /\ x.effect = "none"
    /\ x.pc = "running" => ~h.stop /\ (h.state = "cancelled" => ~SideEffecting(c))
    /\ h.state = "running" /\ x.pc # "running" => h.stop /\ (x.pc # "settling" => h.left)
    /\ x.pc = "closed" => ~x.open
    /\ x.pc \in {"closing", "closed"} <=> x.outcome # "none"
    /\ x.outcome = "error" => h.state # "none"
    /\ c # Nested /\ x.pc \in {"wait", "approval", "ready"} => ~x.stop
    /\ t => SideEffecting(c) /\ h.state # "none"
    /\ h.state = "failed" => ~t
    /\ SideEffecting(c) /\ h.state # "none" /\ x.pc \notin Under =>
         x.effect # "none" \/ x.outcome = "error" \/ h.state = "settlement"
    /\ SideEffecting(c) /\ x.effect = "harmless" => ~t /\ h.state # "running"

CallsInv == \A c \in AllCalls : CallOk(c, call[c], handler[c], touched[c])

NestInv ==
    /\ call[Nested].pc # "none" => kind[Outer] = "composite" /\ handler[Outer].state # "none"
    /\ call[Nested].pc \notin {"none", "closed"} => Runs(Outer)

HasResult(c) == At(c, "closed") /\ call[c].outcome = "result"

RecordsInv ==
    ~Over \/ batch.outcome = "results" =>
      \A c \in Calls : /\ call[c].outcome = "none" => call[c].records = 0
                       /\ call[c].outcome = "result" => call[c].records = 1

SerialInv ==
    batch.mode = "serial" =>
      /\ batch.pc \in {"run", "over"} /\ batch.at \in Calls
      /\ \A c \in Calls : /\ c > batch.at => At(c, "wait")
                          /\ c < batch.at => HasResult(c)
                          /\ call[c].pc # "ready"

ConcurrentInv ==
    batch.mode = "concurrent" =>
      /\ \A c \in batch.seen : HasResult(c)
      /\ batch.pc = "prepare" =>
           /\ batch.at \in Calls
           /\ \A c \in Calls :
                /\ c > batch.at => At(c, "wait")
                /\ c < batch.at => At(c, "ready") \/ HasResult(c)
                /\ call[c].pc \in {"wait", "approval", "ready", "after", "closing", "closed"}
                /\ handler[c].state = "none"
      /\ batch.pc \in {"run", "stop"} => batch.at = 3
      /\ batch.pc \in {"run", "stop"} \/ (\E d \in Calls : handler[d].state # "none") =>
           \A c \in Calls : call[c].pc \notin {"wait", "approval"}

OverInv ==
    /\ ~Over => batch.outcome = IF batch.pc = "stop" THEN batch.outcome ELSE "none"
    /\ batch.pc = "stop" => batch.outcome \in {"aborted", "cancelled"} /\ batch.mode = "concurrent"
    /\ batch.outcome = "error" => \E d \in AllCalls : call[d].outcome = "error"
    /\ Over /\ batch.outcome # "error" =>
         \A c \in Calls : /\ call[c].pc \in {"wait", "ready", "closed"} /\ ~call[c].open
                          /\ batch.outcome = "results" => call[c].outcome = "result"

ToolInv ==
    ToolTypes /\ CallsInv /\ NestInv /\ RecordsInv /\ SerialInv /\ ConcurrentInv /\ OverInv

-----------------------------------------------------------------------------
LEMMA ToolInitSafe == ToolInit => ToolInv
<1> SUFFICES ASSUME ToolInit PROVE ToolInv
  OBVIOUS
<1>1. PICK b \in Batches, w \in Widths :
        /\ kind = b.kind
        /\ batch = [mode |-> b.mode, width |-> w,
                    pc |-> IF b.mode = "serial" THEN "run" ELSE "prepare",
                    at |-> 1, seen |-> {}, outcome |-> "none"]
  BY DEF ToolInit
<1>2. /\ b.mode \in {"serial", "concurrent"} /\ w \in Nat
      /\ kind \in [AllCalls -> {"readOnly", "sideEffecting", "composite", "missing"}]
  BY <1>1, ToolExecutorAssumption
<1>3. \A c \in AllCalls : /\ call[c] = Fresh(IF c = Nested THEN "none" ELSE "wait")
                          /\ handler[c] = [state |-> "none", stop |-> FALSE, left |-> FALSE,
                                          barrier |-> FALSE]
                          /\ touched[c] = FALSE
  BY DEF ToolInit
<1>4. \A c \in AllCalls :
        /\ call[c] \in CallRecords
        /\ call[c].pc = (IF c = Nested THEN "none" ELSE "wait") /\ call[c].outcome = "none"
        /\ call[c].effect = "none" /\ call[c].records = 0 /\ ~call[c].stop
        /\ handler[c] \in HandlerRecords /\ handler[c].state = "none" /\ ~handler[c].stop
        /\ ~touched[c]
  <2> SUFFICES ASSUME NEW c \in AllCalls
               PROVE  /\ call[c] \in CallRecords
                      /\ call[c].pc = (IF c = Nested THEN "none" ELSE "wait")
                      /\ call[c].outcome = "none"
                      /\ call[c].effect = "none" /\ call[c].records = 0 /\ ~call[c].stop
                      /\ handler[c] \in HandlerRecords /\ handler[c].state = "none"
                      /\ ~handler[c].stop /\ ~touched[c]
    OBVIOUS
  <2>1. Fresh("none") \in CallRecords /\ Fresh("wait") \in CallRecords
    BY DEF Fresh, CallRecords, Pcs
  <2>2. [state |-> "none", stop |-> FALSE, left |-> FALSE, barrier |-> FALSE] \in HandlerRecords
    BY DEF HandlerRecords, Ends3
  <2> QED
    BY <1>3, <2>1, <2>2 DEF Fresh
<1>5. ToolTypes
  BY <1>1, <1>2, <1>4 DEF ToolInit, ToolTypes
<1>6. CallsInv
  BY <1>4 DEF CallsInv, CallOk, Unstarted, Under
<1>7. NestInv /\ RecordsInv
  BY <1>4 DEF NestInv, RecordsInv, AllCalls, Calls, Nested, Outer
<1>8. SerialInv /\ ConcurrentInv /\ OverInv
  BY <1>1, <1>2, <1>4 DEF SerialInv, ConcurrentInv, OverInv, AllCalls, Calls, Nested, Outer, At, Over
<1> QED
  BY <1>5, <1>6, <1>7, <1>8 DEF ToolInv

-----------------------------------------------------------------------------
\* What a step of one call may do.

\* The other calls are as they were, but for what is cancelled or closed with this one.
OthersKept(c) ==
    \A d \in AllCalls \ {c} :
      /\ call'[d].pc = call[d].pc /\ call'[d].outcome = call[d].outcome
      /\ call'[d].effect = call[d].effect /\ call'[d].records = call[d].records
      /\ call'[d].permitted = call[d].permitted
      /\ call'[d].open => call[d].open
      /\ d # Nested => call'[d].stop = call[d].stop
      /\ handler'[d] = handler[d] /\ touched'[d] = touched[d]

\* This one goes on along its way.
GoesOn(c) ==
    LET x == call[c]  y == call'[c] IN
    /\ x.pc # "closed" /\ y.pc # "none"
    /\ x.pc = "none" => c = Nested /\ kind[Outer] = "composite" /\ Runs(Outer)
    /\ c \in Calls =>
         /\ y.open => x.open
         /\ x.pc = "wait" => y.pc = "wait" \/ Turn(c)
         /\ x.pc = "ready" => y.pc = "ready" \/ (batch.mode = "concurrent" /\ batch.pc = "run")
         /\ y.pc = "wait" => x.pc = "wait"
         /\ y.pc = "approval" => x.pc \in {"wait", "approval"}
         /\ y.pc = "ready" => batch.mode = "concurrent"
         /\ y.pc \in {"before", "running", "settling", "materializing"} =>
              \/ batch.mode = "serial"
              \/ x.pc \in {"ready", "before", "running", "settling", "materializing"}
         /\ x.outcome = "none" /\ x.records = 0 =>
              /\ y.outcome = "none" => y.records = 0
              /\ y.outcome = "result" => y.records = 1
         /\ x.outcome # "none" => y.records = x.records
    /\ handler'[c].state # "none" => handler[c].state # "none" \/ x.pc = "before"
    /\ x.outcome # "none" => y.outcome = x.outcome

\* Or only its handler does, whatever became of the call.
Stays(c) == call' = call /\ (handler'[c].state # "none" => handler[c].state # "none")

LEMMA StepSafe ==
    ASSUME ToolInv, NEW c \in AllCalls, ToolTypes', UNCHANGED <<batch, kind>>,
           OthersKept(c), GoesOn(c) \/ Stays(c),
           CallOk(c, call'[c], handler'[c], touched'[c]),
           handler[c].state # "none" => handler'[c].state # "none",
           c = Outer /\ Runs(c) /\ Nesting(c) => handler'[c].state = "running"
    PROVE  ToolInv'
<1> USE DEF AllCalls, Calls, Nested, Outer
<1>1. CallsInv'
  <2>1. \A d \in AllCalls \ {c} : CallOk(d, call[d], handler[d], touched[d])
    BY DEF ToolInv, CallsInv
  <2>2. \A d \in AllCalls \ {c} : CallOk(d, call'[d], handler'[d], touched'[d])
    BY <2>1 DEF OthersKept, CallOk
  <2> QED
    BY <2>2 DEF CallsInv, CallOk, SideEffecting
<1>2. NestInv'
  BY DEF ToolInv, NestInv, OthersKept, GoesOn, Stays, Runs, Nesting
<1>3. RecordsInv'
  BY DEF ToolInv, RecordsInv, OthersKept, GoesOn, Stays, Over
<1>4. SerialInv'
  BY DEF ToolInv, SerialInv, OthersKept, GoesOn, Stays, At, HasResult, Turn
<1>5. ConcurrentInv'
  <2> SUFFICES ASSUME batch.mode = "concurrent" PROVE ConcurrentInv'
    BY DEF ConcurrentInv
  <2>1. \A d \in AllCalls \ {c} : /\ call'[d].pc = call[d].pc
                                  /\ call'[d].outcome = call[d].outcome
                                  /\ handler'[d] = handler[d]
    BY DEF OthersKept
  <2>2. \A d \in Calls : HasResult(d) => HasResult(d)'
    BY <2>1 DEF HasResult, At, GoesOn, Stays
  <2>3. batch.pc = "prepare" =>
          \A d \in Calls : call'[d].pc = call[d].pc \/ (d = c /\ d = batch.at /\ GoesOn(c))
    BY <2>1 DEF ToolInv, ConcurrentInv, GoesOn, Stays, HasResult, At, Turn
  <2>4. batch.pc = "prepare" =>
          \A d \in Calls :
             /\ call'[d].pc \in {"wait", "approval", "ready", "after", "closing", "closed"}
             /\ handler'[d].state = "none"
    <3>1. \A d \in Calls : call'[d].pc \in Pcs
      BY DEF ToolTypes, CallRecords
    <3> QED
      BY <2>1, <3>1 DEF ToolInv, ConcurrentInv, GoesOn, Stays, Pcs
  <2>5. \A d \in Calls : call'[d].pc \in {"wait", "approval"} => call[d].pc \in {"wait", "approval"}
    BY <2>1 DEF GoesOn, Stays
  <2>6. (\E d \in Calls : handler'[d].state # "none") =>
          \/ \E d \in Calls : handler[d].state # "none"
          \/ c \in Calls /\ call[c].pc = "before"
    BY <2>1 DEF GoesOn, Stays
  <2>7. \A d \in batch.seen : HasResult(d)'
    BY <2>2 DEF ToolInv, ConcurrentInv, ToolTypes
  <2>8. batch.pc = "prepare" =>
          \A d \in Calls : /\ d > batch.at => call'[d].pc = "wait"
                           /\ d < batch.at => call'[d].pc = "ready" \/ HasResult(d)'
    BY <2>2, <2>3 DEF ToolInv, ConcurrentInv, At
  <2>9. batch.pc \in {"run", "stop"} \/ (\E d \in Calls : handler'[d].state # "none") =>
          \A d \in Calls : call[d].pc \notin {"wait", "approval"}
    <3>1. batch.outcome = "error" => \E d \in Calls : handler[d].state # "none"
      <4>1. \A d \in AllCalls : call[d].outcome = "error" =>
              handler[d].state # "none" /\ call[d].pc \in {"closing", "closed"}
        BY DEF ToolInv, CallsInv, CallOk
      <4> QED
        BY <4>1 DEF ToolInv, OverInv, NestInv
    <3>2. c \in Calls /\ call[c].pc = "before" /\ Over => batch.outcome = "error"
      BY DEF ToolInv, OverInv
    <3>3. c \in Calls /\ call[c].pc = "before" => batch.pc \in {"run", "stop", "over"}
      BY DEF ToolInv, ConcurrentInv, ToolTypes
    <3> QED
      BY <2>6, <3>1, <3>2, <3>3 DEF ToolInv, ConcurrentInv, Over
  <2> QED
    BY <2>4, <2>5, <2>7, <2>8, <2>9 DEF ToolInv, ConcurrentInv, At
<1>6. OverInv'
  <2>1. Over /\ batch.outcome # "error" =>
          \A d \in Calls : /\ call'[d].pc = call[d].pc
                           /\ call[d].outcome # "none" => call'[d].outcome = call[d].outcome
                           /\ call'[d].open => call[d].open
    BY DEF ToolInv, OverInv, OthersKept, GoesOn, Stays, Over, Turn
  <2>2. \A d \in AllCalls : call[d].outcome = "error" => call'[d].outcome = "error"
    BY DEF OthersKept, GoesOn, Stays
  <2> QED
    BY <2>1, <2>2 DEF ToolInv, OverInv, Over
<1> QED
  BY <1>1, <1>2, <1>3, <1>4, <1>5, <1>6 DEF ToolInv

-----------------------------------------------------------------------------
\* What the executor does with a call by itself.

LEMMA EndedFields ==
    ASSUME NEW x \in CallRecords, NEW outcome \in {"result", "aborted", "cancelled", "error"},
           NEW n \in {0, 1, 2}
    PROVE  LET y == Ended(x, outcome, n) IN
           /\ y \in CallRecords /\ y.pc = "closing" /\ y.outcome = outcome
           /\ y.effect = x.effect /\ y.permitted = x.permitted /\ y.stop = x.stop
           /\ y.open = x.open /\ y.records = Records(x.records, n)
<1>1. x.records \in {0, 1, 2}
  BY DEF CallRecords
<1>2. Records(x.records, n) \in {0, 1, 2}
  BY <1>1 DEF Records
<1> QED
  BY <1>2 DEF Ended, CallRecords, Pcs

LEMMA CallUpdated ==
    ASSUME ToolTypes, NEW c \in AllCalls, NEW y \in CallRecords, call' = [call EXCEPT ![c] = y]
    PROVE  /\ call' \in [AllCalls -> CallRecords] /\ call'[c] = y
           /\ \A d \in AllCalls \ {c} : call'[d] = call[d]
  BY DEF ToolTypes

\* A call ends that is not under way, with a result after its hooks.
LEMMA EndsSafe ==
    ASSUME ToolInv, NEW c \in AllCalls, NEW outcome \in {"result", "aborted", "cancelled"},
           NEW n \in {0, 1, 2}, Ends(c, outcome, n), UNCHANGED <<batch, kind, handler, touched>>,
           call[c].pc \in {"wait", "approval", "before", "materializing", "after"},
           call[c].pc = "wait" => Turn(c), outcome = "result" => n = 1
    PROVE  ToolInv'
<1> DEFINE y == Ended(call[c], outcome, n)
<1>1. call[c] \in CallRecords /\ CallOk(c, call[c], handler[c], touched[c])
  BY DEF ToolInv, ToolTypes, CallsInv
<1>2. /\ y \in CallRecords /\ y.pc = "closing" /\ y.outcome = outcome
      /\ y.effect = call[c].effect /\ y.permitted = call[c].permitted /\ y.stop = call[c].stop
      /\ y.open = call[c].open /\ y.records = Records(call[c].records, n)
  BY <1>1, EndedFields
<1> HIDE DEF y
<1>3. call' = [call EXCEPT ![c] = y]
  BY DEF Ends, y
<1>4. /\ call' \in [AllCalls -> CallRecords] /\ call'[c] = y
      /\ \A d \in AllCalls \ {c} : call'[d] = call[d]
  BY <1>2, <1>3, CallUpdated DEF ToolInv
<1>5. ToolTypes'
  BY <1>4 DEF ToolInv, ToolTypes
<1>6. OthersKept(c)
  BY <1>4 DEF OthersKept
<1>7. GoesOn(c)
  BY <1>1, <1>2, <1>4 DEF GoesOn, CallOk, Records
<1>8. CallOk(c, call'[c], handler'[c], touched'[c])
  BY <1>1, <1>2, <1>4 DEF CallOk, Unstarted, Under
<1> QED
  BY <1>5, <1>6, <1>7, <1>8, StepSafe DEF Runs

\* A call goes on to its next await.
LEMMA GotoSafe ==
    ASSUME ToolInv, NEW c \in AllCalls, NEW y \in CallRecords, call' = [call EXCEPT ![c] = y],
           UNCHANGED <<batch, kind, handler, touched>>,
           y.outcome = call[c].outcome, y.effect = call[c].effect, y.records = call[c].records,
           y.stop = call[c].stop, y.open = call[c].open,
           call[c].permitted => y.permitted, y.pc \in {"ready", "before"} => y.permitted,
           \/ call[c].pc = "wait" /\ Turn(c) /\ y.pc \in {"approval", "after"}
           \/ call[c].pc = "approval" /\ y.pc = "after"
           \/ call[c].pc = "materializing" /\ y.pc = "after"
           \/ /\ call[c].pc \in {"wait", "approval"} /\ (call[c].pc = "wait" => Turn(c))
              /\ y.pc = IF c # Nested /\ batch.mode = "concurrent" THEN "ready" ELSE "before"
           \/ /\ call[c].pc = "ready" /\ y.pc = "before" /\ c \in Calls
              /\ batch.mode = "concurrent" /\ batch.pc = "run"
    PROVE  ToolInv'
<1>1. call[c] \in CallRecords /\ CallOk(c, call[c], handler[c], touched[c])
  BY DEF ToolInv, ToolTypes, CallsInv
<1>2. /\ call' \in [AllCalls -> CallRecords] /\ call'[c] = y
      /\ \A d \in AllCalls \ {c} : call'[d] = call[d]
  BY CallUpdated DEF ToolInv
<1>3. ToolTypes'
  BY <1>2 DEF ToolInv, ToolTypes
<1>4. OthersKept(c)
  BY <1>2 DEF OthersKept
<1>5. GoesOn(c)
  BY <1>1, <1>2 DEF GoesOn, CallOk, Calls, Nested, ToolInv, ToolTypes
<1>6. CallOk(c, call'[c], handler'[c], touched'[c])
  BY <1>1, <1>2 DEF CallOk, Unstarted, Under
<1> QED
  BY <1>3, <1>4, <1>5, <1>6, StepSafe DEF Runs

LEMMA AnsweredSafe ==
    ASSUME ToolInv, NEW c \in AllCalls, NEW pc \in {"after", "approval"}, Goto(c, pc),
           UNCHANGED <<batch, kind, handler, touched>>,
           \/ call[c].pc = "wait" /\ Turn(c)
           \/ call[c].pc \in {"approval", "materializing"} /\ pc = "after"
    PROVE  ToolInv'
<1> DEFINE y == [call[c] EXCEPT !.pc = pc]
<1>1. call[c] \in CallRecords
  BY DEF ToolInv, ToolTypes
<1>2. /\ y \in CallRecords /\ y.pc = pc /\ y.outcome = call[c].outcome /\ y.effect = call[c].effect
      /\ y.records = call[c].records /\ y.stop = call[c].stop /\ y.open = call[c].open
      /\ y.permitted = call[c].permitted
  BY <1>1 DEF CallRecords, Pcs
<1>3. call' = [call EXCEPT ![c] = y]
  BY <1>1 DEF Goto, Moved, CallRecords
<1> HIDE DEF y
<1> QED
  BY <1>2, <1>3, GotoSafe

LEMMA PermitSafe ==
    ASSUME ToolInv, NEW c \in AllCalls, Permit(c), UNCHANGED <<batch, kind, handler, touched>>,
           call[c].pc \in {"wait", "approval"}, call[c].pc = "wait" => Turn(c)
    PROVE  ToolInv'
<1> DEFINE pc == IF c # Nested /\ batch.mode = "concurrent" THEN "ready" ELSE "before"
           y == [call[c] EXCEPT !.permitted = TRUE, !.pc = pc]
<1>1. call[c] \in CallRecords /\ pc \in {"ready", "before"}
  BY DEF ToolInv, ToolTypes
<1>2. /\ y \in CallRecords /\ y.pc = pc /\ y.outcome = call[c].outcome /\ y.effect = call[c].effect
      /\ y.records = call[c].records /\ y.stop = call[c].stop /\ y.open = call[c].open
      /\ y.permitted
  BY <1>1 DEF CallRecords, Pcs
<1>3. call' = [call EXCEPT ![c] = y]
  BY <1>1 DEF Permit, CallRecords
<1> HIDE DEF y
<1> QED
  BY <1>2, <1>3, GotoSafe

LEMMA PrepareSafe == ASSUME ToolInv, NEW c \in AllCalls, Prepare(c) PROVE ToolInv'
<1>1. call[c].pc = "wait" /\ Turn(c) /\ UNCHANGED <<batch, kind, handler, touched>>
  BY DEF Prepare, At, Quietly
<1>2. CASE Ends(c, "cancelled", 0) \/ Ends(c, "aborted", 1) \/ Ends(c, "aborted", 2)
  BY <1>1, <1>2, EndsSafe
<1>3. CASE Goto(c, "after") \/ Goto(c, "approval")
  BY <1>1, <1>3, AnsweredSafe
<1>4. CASE Permit(c)
  BY <1>1, <1>4, PermitSafe
<1> QED
  BY <1>2, <1>3, <1>4 DEF Prepare, Quietly, Answered

LEMMA ApprovalSafe == ASSUME ToolInv, NEW c \in AllCalls, Approval(c) PROVE ToolInv'
<1>1. call[c].pc = "approval" /\ UNCHANGED <<batch, kind, handler, touched>>
  BY DEF Approval, At, Quietly
<1>2. CASE Ends(c, "cancelled", 0) \/ Ends(c, "aborted", 1)
  BY <1>1, <1>2, EndsSafe
<1>3. CASE Goto(c, "after")
  BY <1>1, <1>3, AnsweredSafe
<1>4. CASE Permit(c)
  BY <1>1, <1>4, PermitSafe
<1> QED
  BY <1>2, <1>3, <1>4 DEF Approval, Quietly, Answered

LEMMA StoppedEarlySafe == ASSUME ToolInv, NEW c \in AllCalls, StoppedEarly(c) PROVE ToolInv'
<1>1. /\ call[c].pc \in {"wait", "approval", "before"} /\ call[c].stop
      /\ Ends(c, "cancelled", 0) /\ UNCHANGED <<batch, kind, handler, touched>>
  BY DEF StoppedEarly, Stopped
<1>2. CallOk(c, call[c], handler[c], touched[c])
  BY DEF ToolInv, CallsInv
<1>3. call[c].pc = "wait" => Turn(c)
  BY <1>1, <1>2 DEF CallOk, Turn
<1> QED
  BY <1>1, <1>3, EndsSafe

LEMMA MaterializeSafe == ASSUME ToolInv, NEW c \in AllCalls, Materialize(c) PROVE ToolInv'
<1>1. call[c].pc = "materializing" /\ UNCHANGED <<batch, kind, handler, touched>>
  BY DEF Materialize, At, Quietly
<1>2. CASE Goto(c, "after")
  BY <1>1, <1>2, AnsweredSafe
<1>3. CASE Ends(c, "cancelled", 1) \/ Ends(c, "aborted", 2)
  BY <1>1, <1>3, EndsSafe
<1> QED
  BY <1>2, <1>3 DEF Materialize, Quietly

LEMMA AfterSafe == ASSUME ToolInv, NEW c \in AllCalls, After(c) PROVE ToolInv'
<1>1. call[c].pc = "after" /\ UNCHANGED <<batch, kind, handler, touched>>
  BY DEF After, At, Quietly
<1>2. PICK outcome \in {"result", "aborted", "cancelled"}, n \in {0, 1, 2} :
        Ends(c, outcome, n) /\ (outcome = "result" => n = 1)
  BY DEF After, Quietly
<1> QED
  BY <1>1, <1>2, EndsSafe

LEMMA FillSafe == ASSUME ToolInv, NEW c \in AllCalls, Fill(c) PROVE ToolInv'
<1> DEFINE y == [call[c] EXCEPT !.pc = "before"]
<1>1. /\ call[c] \in CallRecords /\ call[c].pc = "ready" /\ c \in Calls
      /\ batch.mode = "concurrent" /\ batch.pc = "run" /\ UNCHANGED <<batch, kind, handler, touched>>
  BY DEF ToolInv, ToolTypes, CallsInv, CallOk, Fill, At, Quietly, AllCalls
<1>2. /\ y \in CallRecords /\ y.pc = "before" /\ y.outcome = call[c].outcome
      /\ y.effect = call[c].effect /\ y.records = call[c].records /\ y.stop = call[c].stop
      /\ y.open = call[c].open /\ y.permitted = call[c].permitted
  BY <1>1 DEF CallRecords, Pcs
<1>3. call' = [call EXCEPT ![c] = y] /\ call[c].permitted
  BY <1>1 DEF Fill, Quietly, Goto, Moved, CallRecords, ToolInv, CallsInv, CallOk
<1> HIDE DEF y
<1> QED
  BY <1>1, <1>2, <1>3, GotoSafe

-----------------------------------------------------------------------------
\* The handler.

LEMMA HandlerUpdated ==
    ASSUME ToolTypes, NEW c \in AllCalls, NEW h \in HandlerRecords,
           handler' = [handler EXCEPT ![c] = h]
    PROVE  /\ handler' \in [AllCalls -> HandlerRecords] /\ handler'[c] = h
           /\ \A d \in AllCalls \ {c} : handler'[d] = handler[d]
  BY DEF ToolTypes

LEMMA StartSafe == ASSUME ToolInv, NEW c \in AllCalls, Start(c) PROVE ToolInv'
<1>1. call[c].pc = "before" /\ UNCHANGED <<batch, kind, touched>>
  BY DEF Start, At
<1>2. CASE UNCHANGED handler /\ (Ends(c, "cancelled", 0) \/ Ends(c, "aborted", 2))
  BY <1>1, <1>2, EndsSafe
<1>3. CASE Goto(c, "running") /\ handler' = [handler EXCEPT ![c].state = "running"]
  <2> DEFINE y == [call[c] EXCEPT !.pc = "running"]
             h == [handler[c] EXCEPT !.state = "running"]
  <2>1. /\ call[c] \in CallRecords /\ handler[c] \in HandlerRecords
        /\ CallOk(c, call[c], handler[c], touched[c])
    BY DEF ToolInv, ToolTypes, CallsInv
  <2>2. /\ y \in CallRecords /\ y.pc = "running" /\ y.outcome = call[c].outcome
        /\ y.effect = call[c].effect /\ y.records = call[c].records /\ y.stop = call[c].stop
        /\ y.open = call[c].open /\ y.permitted = call[c].permitted
    BY <2>1 DEF CallRecords, Pcs
  <2>3. h \in HandlerRecords /\ h.state = "running" /\ h.stop = handler[c].stop
    BY <2>1 DEF HandlerRecords
  <2>4. call' = [call EXCEPT ![c] = y] /\ handler' = [handler EXCEPT ![c] = h]
    BY <1>3, <2>1 DEF Goto, Moved, CallRecords, HandlerRecords
  <2> HIDE DEF y, h
  <2>5. /\ call' \in [AllCalls -> CallRecords] /\ call'[c] = y
        /\ \A d \in AllCalls \ {c} : call'[d] = call[d]
    BY <2>2, <2>4, CallUpdated DEF ToolInv
  <2>6. /\ handler' \in [AllCalls -> HandlerRecords] /\ handler'[c] = h
        /\ \A d \in AllCalls \ {c} : handler'[d] = handler[d]
    BY <2>3, <2>4, HandlerUpdated DEF ToolInv
  <2>7. ToolTypes' /\ OthersKept(c)
    BY <1>1, <2>5, <2>6 DEF ToolInv, ToolTypes, OthersKept
  <2>8. GoesOn(c)
    BY <1>1, <2>1, <2>2, <2>5 DEF GoesOn, CallOk
  <2>9. CallOk(c, call'[c], handler'[c], touched'[c])
    BY <1>1, <2>1, <2>2, <2>3, <2>5, <2>6 DEF CallOk, Unstarted, Under
  <2> QED
    BY <1>1, <2>3, <2>6, <2>7, <2>8, <2>9, StepSafe
<1> QED
  BY <1>2, <1>3 DEF Start

LEMMA TouchSafe == ASSUME ToolInv, NEW c \in AllCalls, Touch(c) PROVE ToolInv'
<1>1. /\ UNCHANGED <<batch, kind, call, handler>> /\ handler[c].state = "running"
      /\ SideEffecting(c)
      /\ touched' \in [AllCalls -> BOOLEAN]
      /\ \A d \in AllCalls \ {c} : touched'[d] = touched[d]
  BY DEF Touch, Runs, ToolInv, ToolTypes
<1>2. CallOk(c, call[c], handler[c], touched[c])
  BY DEF ToolInv, CallsInv
<1>3. ToolTypes' /\ OthersKept(c) /\ Stays(c)
  BY <1>1 DEF ToolInv, ToolTypes, OthersKept, Stays
<1>4. CallOk(c, call'[c], handler'[c], touched'[c])
  BY <1>1, <1>2 DEF CallOk
<1> QED
  BY <1>1, <1>3, <1>4, StepSafe

\* A settlement barrier is entered or left.
LEMMA BarrierSafe ==
    ASSUME ToolInv, NEW c \in AllCalls, EnterBarrier(c) \/ LeaveBarrier(c) PROVE ToolInv'
<1>1. PICK b \in BOOLEAN : handler' = [handler EXCEPT ![c].barrier = b]
  BY DEF EnterBarrier, LeaveBarrier
<1>2. UNCHANGED <<batch, kind, call, touched>> /\ handler[c].state = "running"
  BY DEF EnterBarrier, LeaveBarrier, Runs
<1> DEFINE h == [handler[c] EXCEPT !.barrier = b]
<1>3. handler[c] \in HandlerRecords /\ CallOk(c, call[c], handler[c], touched[c])
  BY DEF ToolInv, ToolTypes, CallsInv
<1>4. /\ h \in HandlerRecords /\ h.state = handler[c].state /\ h.stop = handler[c].stop
      /\ h.left = handler[c].left
  BY <1>3 DEF HandlerRecords
<1>5. handler' = [handler EXCEPT ![c] = h]
  BY <1>1
<1> HIDE DEF h
<1>6. /\ handler' \in [AllCalls -> HandlerRecords] /\ handler'[c] = h
      /\ \A d \in AllCalls \ {c} : handler'[d] = handler[d]
  BY <1>4, <1>5, HandlerUpdated DEF ToolInv
<1>7. ToolTypes' /\ OthersKept(c) /\ Stays(c)
  BY <1>2, <1>6 DEF ToolInv, ToolTypes, OthersKept, Stays
<1>8. CallOk(c, call'[c], handler'[c], touched'[c])
  BY <1>2, <1>3, <1>4, <1>6 DEF CallOk
<1> QED
  BY <1>2, <1>4, <1>6, <1>7, <1>8, StepSafe

LEMMA HandlerEndsSafe == ASSUME ToolInv, NEW c \in AllCalls, HandlerEnds(c) PROVE ToolInv'
<1>1. /\ UNCHANGED <<batch, kind, call, touched>> /\ handler[c].state = "running" /\ ~Nesting(c)
  BY DEF HandlerEnds, Runs
<1>2. PICK how \in Ends3 :
         /\ how = "failed" => ~touched[c]
         /\ how = "cancelled" =>
              handler[c].stop \/ (c = Outer /\ call[Nested].outcome = "cancelled")
         /\ handler' = [handler EXCEPT ![c] =
                          [handler[c] EXCEPT !.state = how, !.stop = FALSE, !.barrier = FALSE]]
  BY DEF HandlerEnds, Ends3, ToolInv, ToolTypes
<1> DEFINE h == [handler[c] EXCEPT !.state = how, !.stop = FALSE, !.barrier = FALSE]
<1>3. /\ handler[c] \in HandlerRecords /\ call[c] \in CallRecords
      /\ CallOk(c, call[c], handler[c], touched[c])
  BY DEF ToolInv, ToolTypes, CallsInv
<1>4. h \in HandlerRecords /\ h.state = how /\ h.stop = FALSE
  BY <1>3 DEF HandlerRecords
<1>5. handler' = [handler EXCEPT ![c] = h]
  BY <1>2
<1> HIDE DEF h
<1>6. /\ handler' \in [AllCalls -> HandlerRecords] /\ handler'[c] = h
      /\ \A d \in AllCalls \ {c} : handler'[d] = handler[d]
  BY <1>4, <1>5, HandlerUpdated DEF ToolInv
<1>7. ToolTypes' /\ OthersKept(c) /\ Stays(c)
  BY <1>1, <1>6 DEF ToolInv, ToolTypes, OthersKept, Stays
<1>8. how = "cancelled" /\ call[c].pc = "running" => ~SideEffecting(c)
  <2>1. call[Nested].outcome = "cancelled" => call[Nested].pc # "none"
    BY DEF ToolInv, CallsInv, CallOk, AllCalls
  <2> QED
    BY <1>2, <1>3, <2>1 DEF CallOk, ToolInv, NestInv, SideEffecting
<1>9. CallOk(c, call'[c], handler'[c], touched'[c])
  BY <1>1, <1>2, <1>3, <1>4, <1>6, <1>8 DEF CallOk, Unstarted, Under, Ends3
<1> QED
  BY <1>1, <1>4, <1>6, <1>7, <1>9, StepSafe DEF Ends3

\* The call goes on, with its handler's evidence or without.
LEMMA LeavesSafe ==
    ASSUME ToolInv, NEW c \in AllCalls, NEW y \in CallRecords, NEW h \in HandlerRecords,
           call' = [call EXCEPT ![c] = y], handler' = [handler EXCEPT ![c] = h],
           UNCHANGED <<batch, kind, touched>>,
           call[c].pc \in Under, y.pc \in {"materializing", "after", "closing"},
           y.pc = "closing" <=> y.outcome # "none", y.outcome # "result",
           y.outcome = "none" => y.records = call[c].records,
           y.open = call[c].open, y.permitted = call[c].permitted,
           IF handler[c].state = "running" THEN h.state = "running" /\ h.left /\ h.stop
           ELSE h.state \in {"over", "settlement"},
           SideEffecting(c) =>
             /\ y.effect # "none" \/ y.outcome = "error" \/ h.state = "settlement"
             /\ y.effect = "harmless" => handler[c].state = "failed"
    PROVE  ToolInv'
<1>1. call[c] \in CallRecords /\ CallOk(c, call[c], handler[c], touched[c])
  BY DEF ToolInv, ToolTypes, CallsInv
<1>2. /\ call' \in [AllCalls -> CallRecords] /\ call'[c] = y
      /\ \A d \in AllCalls \ {c} : call'[d] = call[d]
  BY CallUpdated DEF ToolInv
<1>3. /\ handler' \in [AllCalls -> HandlerRecords] /\ handler'[c] = h
      /\ \A d \in AllCalls \ {c} : handler'[d] = handler[d]
  BY HandlerUpdated DEF ToolInv
<1>4. ToolTypes' /\ OthersKept(c)
  BY <1>2, <1>3 DEF ToolInv, ToolTypes, OthersKept
<1>5. GoesOn(c)
  BY <1>1, <1>2, <1>3 DEF GoesOn, CallOk, Under
<1>6. CallOk(c, call'[c], handler'[c], touched'[c])
  BY <1>1, <1>2, <1>3 DEF CallOk, Unstarted, Under
<1> QED
  BY <1>3, <1>4, <1>5, <1>6, StepSafe DEF Runs

\* ... when its evidence is contributed.
LEMMA ContributeSafe ==
    ASSUME ToolInv, NEW c \in AllCalls, NEW how, NEW next \in CallRecords, NEW h \in HandlerRecords,
           Contribute(c, how, next), handler' = [handler EXCEPT ![c] = h],
           UNCHANGED <<batch, kind, touched>>,
           call[c].pc \in Under, next.pc \in {"materializing", "after", "closing"},
           next.pc = "closing" <=> next.outcome # "none", next.outcome # "result",
           next.outcome = "none" => next.records = call[c].records,
           next.open = call[c].open, next.permitted = call[c].permitted,
           IF handler[c].state = "running" THEN h.state = "running" /\ h.left /\ h.stop
           ELSE h.state \in {"over", "settlement"},
           how \in {"left", handler[c].state}, how # "running"
    PROVE  ToolInv'
<1> DEFINE y == IF call[c].open THEN [next EXCEPT !.effect = Evidence(c, how)]
                ELSE Ended(call[c], "error", 0)
<1>1. call[c] \in CallRecords
  BY DEF ToolInv, ToolTypes
<1>2. /\ Evidence(c, how) \in {"none", "succeeded", "unknown", "harmless"}
      /\ SideEffecting(c) => /\ Evidence(c, how) # "none"
                             /\ Evidence(c, how) = "harmless" => how = "failed"
  BY DEF Evidence, SideEffecting
<1>3. call' = [call EXCEPT ![c] = y]
  BY DEF Contribute, ToolInv, ToolTypes
<1>4. CASE call[c].open
  <2>1. /\ y \in CallRecords /\ y.pc = next.pc /\ y.outcome = next.outcome
        /\ y.effect = Evidence(c, how) /\ y.records = next.records /\ y.open = next.open
        /\ y.permitted = next.permitted
    BY <1>2, <1>4 DEF CallRecords
  <2> HIDE DEF y
  <2> QED
    BY <1>2, <1>3, <2>1, LeavesSafe
<1>5. CASE ~call[c].open
  <2>1. /\ y \in CallRecords /\ y.pc = "closing" /\ y.outcome = "error"
        /\ y.effect = call[c].effect /\ y.open = call[c].open /\ y.permitted = call[c].permitted
    BY <1>1, <1>5, EndedFields
  <2>2. y.effect = "none"
    BY <2>1 DEF ToolInv, CallsInv, CallOk
  <2> HIDE DEF y
  <2> QED
    BY <1>3, <2>1, <2>2, LeavesSafe
<1> QED
  BY <1>4, <1>5

LEMMA FinishSafe == ASSUME ToolInv, NEW c \in AllCalls, Finish(c) PROVE ToolInv'
<1> DEFINE how == handler[c].state
           h == [handler[c] EXCEPT !.state = Consumed(how)]
<1>1. /\ call[c].pc = "running" /\ how # "running" /\ UNCHANGED <<batch, kind, touched>>
      /\ call[c].pc \in Under
  BY DEF Finish, At, Runs, Under
<1>2. /\ call[c] \in CallRecords /\ handler[c] \in HandlerRecords
      /\ CallOk(c, call[c], handler[c], touched[c])
  BY DEF ToolInv, ToolTypes, CallsInv
<1>3. how \in Ends3 /\ call[c].outcome = "none" /\ call[c].effect = "none"
  BY <1>1, <1>2 DEF CallOk, HandlerRecords
<1>4. h \in HandlerRecords /\ h.state = (IF how = "settlement" THEN "settlement" ELSE "over")
  BY <1>1, <1>2 DEF HandlerRecords, Consumed, Ends3
<1>5. handler' = [handler EXCEPT ![c] = h]
  BY DEF Finish, ToolInv, ToolTypes, HandlerRecords
<1> HIDE DEF h
<1>6. \A pc \in {"materializing", "after"} :
        LET next == [call[c] EXCEPT !.pc = pc] IN
        /\ next \in CallRecords /\ next.pc = pc /\ next.outcome = "none"
        /\ next.records = call[c].records /\ next.open = call[c].open
        /\ next.permitted = call[c].permitted
  BY <1>2, <1>3 DEF CallRecords, Pcs
<1>7. CASE \E pc \in {"materializing", "after"} : Contribute(c, how, [call[c] EXCEPT !.pc = pc])
  <2>1. PICK pc \in {"materializing", "after"} : Contribute(c, how, [call[c] EXCEPT !.pc = pc])
    BY <1>7
  <2> DEFINE next == [call[c] EXCEPT !.pc = pc]
  <2>2. /\ next \in CallRecords /\ next.pc = pc /\ next.outcome = "none"
        /\ next.records = call[c].records /\ next.open = call[c].open
        /\ next.permitted = call[c].permitted
    BY <1>6
  <2>3. Contribute(c, how, next)
    BY <2>1
  <2> HIDE DEF next
  <2> QED
    BY <1>1, <1>4, <1>5, <2>2, <2>3, ContributeSafe
<1>8. CASE Contribute(c, how, Ended(call[c], "aborted", 2))
  <2> DEFINE next == Ended(call[c], "aborted", 2)
  <2>1. /\ next \in CallRecords /\ next.pc = "closing" /\ next.outcome = "aborted"
        /\ next.open = call[c].open /\ next.permitted = call[c].permitted
    BY <1>2, EndedFields
  <2>2. Contribute(c, how, next)
    BY <1>8
  <2> HIDE DEF next
  <2> QED
    BY <1>1, <1>4, <1>5, <2>1, <2>2, ContributeSafe
<1>9. CASE \E outcome \in {"aborted", "error", "cancelled"}, n \in {0, 1, 2} :
             /\ Ends(c, outcome, n)
             /\ SideEffecting(c) => how = "settlement" \/ outcome = "error"
  <2>1. PICK outcome \in {"aborted", "error", "cancelled"}, n \in {0, 1, 2} :
             /\ Ends(c, outcome, n)
             /\ SideEffecting(c) => how = "settlement" \/ outcome = "error"
    BY <1>9
  <2> DEFINE y == Ended(call[c], outcome, n)
  <2>2. /\ y \in CallRecords /\ y.pc = "closing" /\ y.outcome = outcome
        /\ y.effect = call[c].effect /\ y.open = call[c].open /\ y.permitted = call[c].permitted
    BY <1>2, EndedFields
  <2>3. call' = [call EXCEPT ![c] = y]
    BY <2>1 DEF Ends
  <2> HIDE DEF y
  <2> QED
    BY <1>1, <1>3, <1>4, <1>5, <2>1, <2>2, <2>3, LeavesSafe
<1>10. \/ \E pc \in {"materializing", "after"} : Contribute(c, how, [call[c] EXCEPT !.pc = pc])
       \/ Contribute(c, how, Ended(call[c], "aborted", 2))
       \/ how = "settlement" /\ Ends(c, "aborted", 2)
       \/ how = "foreign" /\ Ends(c, "error", 0)
       \/ how = "cancelled" /\ Ends(c, "cancelled", 1)
  BY <1>3 DEF Finish, Ends3
<1>11. how = "cancelled" => ~SideEffecting(c)
  BY <1>1, <1>2 DEF CallOk
<1> QED
  BY <1>7, <1>8, <1>9, <1>10, <1>11

LEMMA InterruptSafe ==
    ASSUME ToolInv, NEW c \in AllCalls, NEW late \in BOOLEAN, call[c].pc = "running",
           Interrupt(c, late)
    PROVE  ToolInv'
<1> DEFINE y == [call[c] EXCEPT !.pc = "settling", !.own = ~Cancelled(c) \/ @,
                                !.late = late, !.stop = FALSE,
                                !.shielded = handler[c].barrier]
           h == [handler[c] EXCEPT !.stop = TRUE]
<1>1. /\ call \in [AllCalls -> CallRecords] /\ handler[c] \in HandlerRecords
      /\ CallOk(c, call[c], handler[c], touched[c])
      /\ UNCHANGED <<batch, kind, touched>>
  BY DEF ToolInv, ToolTypes, CallsInv, Interrupt
<1>2. /\ y \in CallRecords /\ y.pc = "settling" /\ y.outcome = call[c].outcome
      /\ y.effect = call[c].effect /\ y.records = call[c].records /\ y.stop = FALSE
      /\ y.open = call[c].open /\ y.permitted = call[c].permitted
  <2>1. handler[c].barrier \in BOOLEAN
    BY <1>1 DEF HandlerRecords
  <2> QED
    BY ZenonT(40), <1>1, <2>1 DEF CallRecords, Pcs
<1>3. h \in HandlerRecords /\ h.state = handler[c].state /\ h.stop
  BY <1>1 DEF HandlerRecords
<1>4. /\ call' = [d \in AllCalls |-> call'[d]] /\ call'[c] = y
      /\ \A d \in AllCalls \ {c} : \/ call'[d] = call[d]
                                   \/ d = Nested /\ call'[d] = [call[d] EXCEPT !.stop = TRUE]
  BY DEF Interrupt
<1>5. handler' = [handler EXCEPT ![c] = h]
  BY DEF Interrupt
<1> HIDE DEF y, h
<1>6. \A d \in AllCalls :
        LET z == [call[d] EXCEPT !.stop = TRUE] IN
        /\ z \in CallRecords /\ z.pc = call[d].pc /\ z.outcome = call[d].outcome
        /\ z.effect = call[d].effect /\ z.records = call[d].records
        /\ z.permitted = call[d].permitted /\ z.open = call[d].open
  BY ZenonT(40), <1>1 DEF CallRecords
<1>7. /\ handler' \in [AllCalls -> HandlerRecords] /\ handler'[c] = h
      /\ \A d \in AllCalls \ {c} : handler'[d] = handler[d]
  BY <1>3, <1>5, HandlerUpdated DEF ToolInv
<1>8. call' \in [AllCalls -> CallRecords]
  BY <1>1, <1>2, <1>4, <1>6
<1>9. ToolTypes' /\ OthersKept(c)
  <2>1. ToolTypes'
    BY <1>1, <1>7, <1>8 DEF ToolInv, ToolTypes
  <2>2. \A d \in AllCalls \ {c} :
          /\ call'[d].pc = call[d].pc /\ call'[d].outcome = call[d].outcome
          /\ call'[d].effect = call[d].effect /\ call'[d].records = call[d].records
          /\ call'[d].permitted = call[d].permitted /\ call'[d].open = call[d].open
          /\ d # Nested => call'[d].stop = call[d].stop
    BY ZenonT(40), <1>4, <1>6
  <2> QED
    BY <1>1, <1>7, <2>1, <2>2 DEF OthersKept
<1>10. GoesOn(c)
  BY <1>1, <1>2, <1>3, <1>4, <1>7 DEF GoesOn, CallOk, Under
<1>11. CallOk(c, call'[c], handler'[c], touched'[c])
  BY <1>1, <1>2, <1>3, <1>4, <1>7 DEF CallOk, Unstarted, Under
<1> QED
  BY <1>1, <1>3, <1>7, <1>9, <1>10, <1>11, StepSafe DEF Runs

LEMMA SettledSafe == ASSUME ToolInv, NEW c \in AllCalls, Settled(c) PROVE ToolInv'
<1>1. PICK leave \in BOOLEAN :
         /\ Runs(c) <=> leave
         /\ Contribute(c, IF leave THEN "left" ELSE handler[c].state,
                       LET x == [call[c] EXCEPT !.stop = FALSE, !.shielded = FALSE] IN
                       IF call[c].late THEN [x EXCEPT !.pc = "after", !.late = FALSE]
                       ELSE Ended(x, "cancelled", 2))
         /\ handler' = [handler EXCEPT ![c] = [@ EXCEPT !.left = leave,
                                                       !.state = Consumed(handler[c].state)]]
  BY DEF Settled
<1> DEFINE h == [handler[c] EXCEPT !.left = leave, !.state = Consumed(handler[c].state)]
           how == IF leave THEN "left" ELSE handler[c].state
           x == [call[c] EXCEPT !.stop = FALSE, !.shielded = FALSE]
           next == IF call[c].late THEN [x EXCEPT !.pc = "after", !.late = FALSE]
                   ELSE Ended(x, "cancelled", 2)
<1>2. /\ call[c] \in CallRecords /\ handler[c] \in HandlerRecords
      /\ CallOk(c, call[c], handler[c], touched[c])
      /\ call[c].pc = "settling" /\ call[c].pc \in Under /\ UNCHANGED <<batch, kind, touched>>
  BY DEF ToolInv, ToolTypes, CallsInv, Settled, At, Under
<1>3. call[c].outcome = "none"
  BY <1>2 DEF CallOk
<1>4. /\ h \in HandlerRecords
      /\ IF handler[c].state = "running" THEN h.state = "running" /\ h.left /\ h.stop
         ELSE h.state \in {"over", "settlement"}
  BY <1>1, <1>2 DEF HandlerRecords, Consumed, Runs, CallOk
<1>5. handler' = [handler EXCEPT ![c] = h] /\ Contribute(c, how, next)
  <2>1. handler' = [handler EXCEPT ![c] = h]
    BY <1>1 DEF ToolInv, ToolTypes
  <2>2. Contribute(c, how, next)
    BY <1>1
  <2> QED
    BY <2>1, <2>2
<1>6. how \in {"left", handler[c].state} /\ how # "running"
  BY <1>1 DEF Runs
<1>7. /\ next \in CallRecords /\ next.pc \in {"after", "closing"}
      /\ next.pc = "closing" <=> next.outcome # "none"
      /\ next.outcome # "result" /\ (next.outcome = "none" => next.records = call[c].records)
      /\ next.open = call[c].open /\ next.permitted = call[c].permitted
  <2>1. /\ x \in CallRecords /\ x.open = call[c].open /\ x.permitted = call[c].permitted
        /\ x.outcome = "none" /\ x.records = call[c].records
    BY ZenonT(40), <1>2, <1>3 DEF CallRecords
  <2> HIDE DEF x
  <2>2. CASE call[c].late
    BY <2>1, <2>2 DEF CallRecords, Pcs
  <2>3. CASE ~call[c].late
    <3>1. LET e == Ended(x, "cancelled", 2) IN
            /\ e \in CallRecords /\ e.pc = "closing" /\ e.outcome = "cancelled"
            /\ e.open = x.open /\ e.permitted = x.permitted
      BY <2>1, EndedFields
    <3> QED
      BY <2>1, <2>3, <3>1
  <2> QED
    BY <2>2, <2>3
<1> HIDE DEF h, how, next
<1> QED
  BY <1>2, <1>4, <1>5, <1>6, <1>7, ContributeSafe

\* A scope begins to close: only marks change.
LEMMA BeginClosingSafe == ASSUME ToolInv, NEW c \in AllCalls, BeginClosing(c) PROVE ToolInv'
<1>1. /\ call[c].pc = "closing" /\ UNCHANGED <<batch, kind, handler, touched>>
      /\ call \in [AllCalls -> CallRecords] /\ CallOk(c, call[c], handler[c], touched[c])
  BY DEF BeginClosing, At, ToolInv, ToolTypes, CallsInv
<1>2. /\ call' = [d \in AllCalls |-> call'[d]]
      /\ \A d \in AllCalls : \/ call'[d] = call[d]
                             \/ call'[d] = [call[d] EXCEPT !.open = FALSE]
  BY DEF BeginClosing
<1>3. \A d \in AllCalls :
        LET z == [call[d] EXCEPT !.open = FALSE] IN
        /\ z \in CallRecords /\ z.pc = call[d].pc /\ z.outcome = call[d].outcome
        /\ z.effect = call[d].effect /\ z.records = call[d].records /\ z.stop = call[d].stop
        /\ z.permitted = call[d].permitted /\ z.open = FALSE
  BY <1>1 DEF CallRecords
<1>4. \A d \in AllCalls :
        /\ call'[d] \in CallRecords /\ call'[d].pc = call[d].pc
        /\ call'[d].outcome = call[d].outcome /\ call'[d].effect = call[d].effect
        /\ call'[d].records = call[d].records /\ call'[d].stop = call[d].stop
        /\ call'[d].permitted = call[d].permitted /\ (call'[d].open => call[d].open)
  BY ZenonT(40), <1>1, <1>2, <1>3
<1>5. ToolTypes' /\ OthersKept(c)
  BY <1>1, <1>2, <1>4 DEF ToolInv, ToolTypes, OthersKept
<1>6. GoesOn(c)
  BY <1>1, <1>4 DEF GoesOn, CallOk
<1>7. CallOk(c, call'[c], handler'[c], touched'[c])
  BY <1>1, <1>4 DEF CallOk, Unstarted, Under
<1> QED
  BY <1>1, <1>5, <1>6, <1>7, StepSafe DEF Runs

LEMMA CloseCallSafe == ASSUME ToolInv, NEW c \in AllCalls, CloseCall(c) PROVE ToolInv'
<1> DEFINE y == Closed(call[c], c)
<1>1. /\ call[c].pc = "closing" /\ ~call[c].open /\ UNCHANGED <<batch, kind, handler, touched>>
      /\ call \in [AllCalls -> CallRecords] /\ CallOk(c, call[c], handler[c], touched[c])
  BY DEF CloseCall, Quietly, At, ToolInv, ToolTypes, CallsInv
<1>2. /\ y \in CallRecords /\ y.pc = "closed" /\ y.outcome = call[c].outcome
      /\ y.effect = call[c].effect /\ (c \in Calls => y.records = call[c].records)
      /\ y.open = call[c].open /\ ~y.stop /\ y.permitted = call[c].permitted
  <2>1. call[c] \in CallRecords /\ (call[c].own /\ c = Outer) \in BOOLEAN
    BY <1>1
  <2>2. c \in Calls => c # Nested
    BY DEF Calls, Nested
  <2>3. (IF c = Nested THEN 0 ELSE call[c].records) \in {0, 1, 2}
    BY <2>1 DEF CallRecords
  <2> QED
    BY ZenonT(40), <2>1, <2>2, <2>3 DEF Closed, CallRecords, Pcs
<1>3. call' = [call EXCEPT ![c] = y]
  BY DEF CloseCall, Quietly
<1> HIDE DEF y
<1>4. /\ call' \in [AllCalls -> CallRecords] /\ call'[c] = y
      /\ \A d \in AllCalls \ {c} : call'[d] = call[d]
  BY <1>2, <1>3, CallUpdated DEF ToolInv
<1>5. ToolTypes' /\ OthersKept(c)
  BY <1>1, <1>4 DEF ToolInv, ToolTypes, OthersKept
<1>6. GoesOn(c)
  BY <1>1, <1>2, <1>4 DEF GoesOn, CallOk
<1>7. CallOk(c, call'[c], handler'[c], touched'[c])
  BY <1>1, <1>2, <1>4 DEF CallOk, Unstarted, Under
<1> QED
  BY <1>1, <1>5, <1>6, <1>7, StepSafe DEF Runs

LEMMA NestSafe == ASSUME ToolInv, Nest PROVE ToolInv'
<1>1. /\ Nested \in AllCalls /\ Outer \in AllCalls /\ Nested # Outer /\ Nested \notin Calls
      /\ call[Nested].pc = "none" /\ Runs(Outer) /\ kind[Outer] = "composite"
      /\ UNCHANGED <<batch, kind, handler, touched>>
      /\ call' = [call EXCEPT ![Nested] = Fresh("wait")]
  BY DEF Nest, At, AllCalls, Calls, Nested, Outer
<1>2. /\ Fresh("wait") \in CallRecords /\ Fresh("wait").pc = "wait"
      /\ Fresh("wait").outcome = "none" /\ Fresh("wait").effect = "none"
  BY DEF Fresh, CallRecords, Pcs
<1>3. /\ call' \in [AllCalls -> CallRecords] /\ call'[Nested] = Fresh("wait")
      /\ \A d \in AllCalls \ {Nested} : call'[d] = call[d]
  BY <1>1, <1>2, CallUpdated DEF ToolInv
<1>4. CallOk(Nested, call[Nested], handler[Nested], touched[Nested])
  BY <1>1 DEF ToolInv, CallsInv
<1>5. ToolTypes' /\ OthersKept(Nested)
  BY <1>1, <1>3 DEF ToolInv, ToolTypes, OthersKept
<1>6. GoesOn(Nested)
  BY <1>1, <1>2, <1>3, <1>4 DEF GoesOn, CallOk
<1>7. CallOk(Nested, call'[Nested], handler'[Nested], touched'[Nested])
  BY <1>1, <1>2, <1>3, <1>4 DEF CallOk, Unstarted, Under
<1> QED
  BY <1>1, <1>5, <1>6, <1>7, StepSafe

-----------------------------------------------------------------------------
\* The batch.

\* Calls are only told to stop, given a record or closed.
Marked ==
    \A d \in AllCalls :
      /\ call'[d].pc = call[d].pc /\ call'[d].outcome = call[d].outcome
      /\ call'[d].effect = call[d].effect /\ call'[d].permitted = call[d].permitted
      /\ call'[d].open => call[d].open
      /\ d # Nested /\ call[d].pc \in {"wait", "approval", "ready"} => call'[d].stop = call[d].stop

LEMMA MarkedKeeps ==
    ASSUME ToolInv, Marked, UNCHANGED <<kind, handler, touched>>
    PROVE  CallsInv' /\ NestInv'
<1>1. \A d \in AllCalls : CallOk(d, call'[d], handler'[d], touched'[d])
  BY DEF ToolInv, CallsInv, CallOk, Marked
<1>2. CallsInv'
  BY <1>1 DEF CallsInv, CallOk, SideEffecting
<1>3. NestInv'
  BY DEF ToolInv, NestInv, Marked, Runs, AllCalls
<1> QED
  BY <1>2, <1>3

LEMMA AbortFields ==
    ASSUME ToolTypes, NEW from \in Int, AbortUnprocessed(from)
    PROVE  /\ call' \in [AllCalls -> CallRecords] /\ Marked
           /\ \A c \in Calls : c >= from => ~call'[c].open
<1>1. \A d \in AllCalls :
        LET z == [call[d] EXCEPT !.records = Records(call[d].records, 1), !.open = FALSE] IN
        /\ z \in CallRecords /\ z.pc = call[d].pc /\ z.outcome = call[d].outcome
        /\ z.effect = call[d].effect /\ z.permitted = call[d].permitted /\ z.stop = call[d].stop
        /\ z.open = FALSE
  <2>1. \A d \in AllCalls : call[d] \in CallRecords /\ Records(call[d].records, 1) \in {0, 1, 2}
    BY DEF ToolTypes, CallRecords, Records
  <2> QED
    BY <2>1 DEF CallRecords
<1>2. \A d \in AllCalls :
        IF d \in Calls /\ d >= from
        THEN call'[d] = [call[d] EXCEPT !.records = Records(call[d].records, 1), !.open = FALSE]
        ELSE call'[d] = call[d]
  BY DEF AbortUnprocessed, ToolTypes, CallRecords
<1>3. call' = [d \in AllCalls |-> call'[d]]
  BY DEF AbortUnprocessed
<1>4. \A d \in AllCalls : call'[d] \in CallRecords
  <2>1. \A d \in AllCalls : call[d] \in CallRecords
    BY DEF ToolTypes
  <2> QED
    BY <1>1, <1>2, <2>1
<1>5. Marked
  BY <1>1, <1>2 DEF Marked
<1> QED
  BY ZenonT(40), <1>1, <1>2, <1>3, <1>4, <1>5 DEF Calls, AllCalls

BatchRecords ==
    [mode : {"serial", "concurrent"}, width : Nat, pc : {"prepare", "run", "stop", "over"},
     at : {1, 2, 3}, seen : SUBSET Calls,
     outcome : {"none", "results", "aborted", "cancelled", "error"}]

LEMMA BatchEndsFields ==
    ASSUME ToolTypes, NEW outcome \in {"results", "aborted", "cancelled", "error"},
           BatchEnds(outcome)
    PROVE  /\ batch' \in BatchRecords /\ batch'.pc = "over" /\ batch'.outcome = outcome
           /\ batch'.mode = batch.mode /\ batch'.at = batch.at /\ batch'.seen = batch.seen
  BY DEF ToolTypes, BatchEnds, BatchRecords

\* A batch that is over without results, or with an error.
LEMMA FailedBatch ==
    ASSUME ToolInv, NEW outcome \in {"aborted", "cancelled", "error"}, BatchEnds(outcome),
           call' \in [AllCalls -> CallRecords], Marked, UNCHANGED <<kind, handler, touched>>,
           outcome = "error" => \E d \in AllCalls : call[d].outcome = "error",
           outcome # "error" =>
             \A c \in Calls : call[c].pc \in {"wait", "ready", "closed"} /\ ~call'[c].open
    PROVE  ToolInv'
<1>1. /\ batch' \in BatchRecords /\ batch'.pc = "over" /\ batch'.outcome = outcome
      /\ batch'.mode = batch.mode /\ batch'.at = batch.at /\ batch'.seen = batch.seen
  BY BatchEndsFields DEF ToolInv
<1>2. ToolTypes'
  BY <1>1 DEF ToolInv, ToolTypes, BatchRecords
<1>3. CallsInv' /\ NestInv'
  BY MarkedKeeps
<1>4. /\ \A c \in Calls : call'[c].pc = call[c].pc /\ call'[c].outcome = call[c].outcome
      /\ \A c \in Calls : HasResult(c) => HasResult(c)'
  BY DEF Marked, HasResult, At, AllCalls
<1>5. RecordsInv'
  BY <1>1 DEF RecordsInv, Over
<1>6. SerialInv'
  BY <1>1, <1>4 DEF ToolInv, SerialInv, At
<1>7. ConcurrentInv'
  <2>1. batch.mode = "concurrent" => \A c \in batch.seen : HasResult(c)'
    BY <1>4 DEF ToolInv, ConcurrentInv, ToolTypes
  <2>2. batch.mode = "concurrent" /\ (\E d \in Calls : handler[d].state # "none") =>
          \A c \in Calls : call'[c].pc \notin {"wait", "approval"}
    BY <1>4 DEF ToolInv, ConcurrentInv
  <2> QED
    BY <1>1, <2>1, <2>2 DEF ConcurrentInv
<1>8. OverInv'
  BY <1>1, <1>4 DEF OverInv, Over, Marked
<1> QED
  BY <1>2, <1>3, <1>5, <1>6, <1>7, <1>8 DEF ToolInv

\* Closed calls have an outcome and no scope.
LEMMA ClosedCall ==
    ASSUME ToolInv, NEW c \in AllCalls, call[c].pc = "closed"
    PROVE  /\ ~call[c].open
           /\ call[c].outcome \in {"result", "aborted", "cancelled", "error"}
  BY DEF ToolInv, ToolTypes, CallRecords, CallsInv, CallOk

LEMMA NextSerialSafe == ASSUME ToolInv, NextSerial PROVE ToolInv'
<1>1. /\ batch.mode = "serial" /\ batch.pc = "run" /\ batch.at \in Calls /\ At(batch.at, "closed")
      /\ batch \in BatchRecords /\ Calls \subseteq AllCalls
      /\ UNCHANGED <<kind, handler, touched>>
  BY DEF NextSerial, ToolInv, SerialInv, ToolTypes, BatchRecords, AllCalls
<1>2. \A c \in Calls : /\ c > batch.at => At(c, "wait")
                       /\ c < batch.at => HasResult(c)
                       /\ call[c].pc # "ready"
  BY <1>1 DEF ToolInv, SerialInv
<1>3. /\ ~call[batch.at].open
      /\ call[batch.at].outcome \in {"result", "aborted", "cancelled", "error"}
  BY <1>1, ClosedCall DEF At
<1>4. UNCHANGED call => Marked /\ call' \in [AllCalls -> CallRecords]
  BY DEF Marked, ToolInv, ToolTypes
<1>5. CASE call[batch.at].outcome = "result" /\ batch.at = 2
  <2>1. BatchEnds("results") /\ UNCHANGED call
    BY <1>5 DEF NextSerial
  <2>2. /\ batch' \in BatchRecords /\ batch'.pc = "over" /\ batch'.outcome = "results"
        /\ batch'.mode = batch.mode /\ batch'.at = batch.at /\ batch'.seen = batch.seen
    BY <2>1, BatchEndsFields DEF ToolInv
  <2>3. \A c \in Calls : HasResult(c) /\ ~call[c].open
    BY <1>1, <1>2, <1>5, ClosedCall DEF Calls, HasResult, At
  <2>4. ToolTypes' /\ CallsInv' /\ NestInv'
    BY <1>1, <1>4, <2>1, <2>2, MarkedKeeps DEF ToolInv, ToolTypes, BatchRecords
  <2>5. RecordsInv' /\ SerialInv' /\ ConcurrentInv'
    BY <1>1, <1>2, <2>1, <2>2 DEF ToolInv, RecordsInv, SerialInv, ConcurrentInv, Over, At, HasResult
  <2>6. OverInv'
    BY <2>1, <2>2, <2>3 DEF OverInv, Over, HasResult, At
  <2> QED
    BY <2>4, <2>5, <2>6 DEF ToolInv
<1>6. CASE call[batch.at].outcome = "result" /\ batch.at # 2
  <2>1. batch' = [batch EXCEPT !.at = 2] /\ UNCHANGED call /\ batch.at = 1
    BY <1>1, <1>6 DEF NextSerial, Calls
  <2>2. /\ batch' \in BatchRecords /\ batch'.pc = batch.pc /\ batch'.outcome = batch.outcome
        /\ batch'.mode = batch.mode /\ batch'.at = 2 /\ batch'.seen = batch.seen
    BY <1>1, <2>1 DEF BatchRecords
  <2>3. ToolTypes' /\ CallsInv' /\ NestInv'
    BY <1>1, <1>4, <2>1, <2>2, MarkedKeeps DEF ToolInv, ToolTypes, BatchRecords
  <2>4. SerialInv'
    BY <1>1, <1>2, <1>6, <2>1, <2>2 DEF SerialInv, Calls, HasResult, At
  <2>5. RecordsInv' /\ ConcurrentInv' /\ OverInv'
    BY <1>1, <2>1, <2>2 DEF ToolInv, RecordsInv, ConcurrentInv, OverInv, Over
  <2> QED
    BY <2>3, <2>4, <2>5 DEF ToolInv
<1>7. CASE call[batch.at].outcome \in {"aborted", "cancelled"}
  <2>1. AbortUnprocessed(batch.at + 1) /\ BatchEnds(call[batch.at].outcome)
    BY <1>7 DEF NextSerial
  <2>2. batch.at + 1 \in Int
    BY <1>1 DEF Calls
  <2>3. /\ call' \in [AllCalls -> CallRecords] /\ Marked
        /\ \A c \in Calls : c >= batch.at + 1 => ~call'[c].open
    BY <2>1, <2>2, AbortFields DEF ToolInv
  <2>4. \A c \in Calls : c > batch.at <=> c >= batch.at + 1
    BY <1>1 DEF Calls
  <2>5. \A c \in Calls : c <= batch.at => At(c, "closed")
    BY <1>1, <1>2 DEF Calls, HasResult
  <2>6. \A c \in Calls : c > batch.at \/ c <= batch.at
    BY <1>1 DEF Calls
  <2>7. \A c \in Calls : call[c].pc \in {"wait", "ready", "closed"} /\ ~call'[c].open
    BY <1>1, <1>2, <2>3, <2>4, <2>5, <2>6, ClosedCall DEF At, Marked
  <2> QED
    BY <1>1, <1>7, <2>1, <2>3, <2>7, FailedBatch
<1>8. CASE call[batch.at].outcome = "error"
  <2>1. BatchEnds("error") /\ UNCHANGED call
    BY <1>8 DEF NextSerial
  <2> QED
    BY <1>1, <1>4, <1>8, <2>1, FailedBatch
<1> QED
  BY <1>3, <1>5, <1>6, <1>7, <1>8

\* A concurrent batch goes on, and may have taken the result of a call.
LEMMA CollectedSafe ==
    ASSUME ToolInv, batch.mode = "concurrent", ~Over, NEW b \in BatchRecords, NEW c \in Calls,
           b.mode = "concurrent", b.outcome = "none", b.seen = batch.seen,
           b.pc \in {"prepare", "run"}, batch.outcome = "none",
           batch' = b \/ (HasResult(c) /\ batch' = Collected(b, c)),
           UNCHANGED <<kind, call, handler, touched>>,
           b.pc = "prepare" =>
             /\ b.at \in Calls /\ batch.pc = "prepare"
             /\ \A d \in Calls : /\ d > b.at => At(d, "wait")
                                 /\ d < b.at => At(d, "ready") \/ HasResult(d),
           b.pc = "run" => b.at = 3 /\ \A d \in Calls : call[d].pc \notin {"wait", "approval"}
    PROVE  ToolInv'
<1>1. /\ batch' \in BatchRecords /\ batch'.mode = "concurrent" /\ batch'.at = b.at
      /\ batch'.seen \subseteq batch.seen \cup {d \in Calls : HasResult(d)}
      /\ \/ batch'.pc = b.pc /\ batch'.outcome = "none"
         \/ batch'.pc = "over" /\ batch'.outcome = "results" /\ batch'.seen = Calls
  <2>1. CASE batch' = b
    BY <2>1 DEF BatchRecords
  <2>2. CASE HasResult(c) /\ batch' = Collected(b, c)
    <3> DEFINE seen == b.seen \cup {c}
    <3>1. seen \in SUBSET Calls /\ seen \subseteq batch.seen \cup {d \in Calls : HasResult(d)}
      BY <2>2 DEF BatchRecords
    <3>2. batch' = [b EXCEPT !.seen = seen, !.pc = IF seen = Calls THEN "over" ELSE b.pc,
                             !.outcome = IF seen = Calls THEN "results" ELSE b.outcome]
      BY <2>2 DEF Collected, BatchRecords
    <3> HIDE DEF seen
    <3>3. CASE seen = Calls
      <4>1. batch' = [b EXCEPT !.seen = seen, !.pc = "over", !.outcome = "results"]
        BY <3>2, <3>3
      <4> QED
        BY <3>1, <3>3, <4>1 DEF BatchRecords
    <3>4. CASE seen # Calls
      <4>1. batch' = [b EXCEPT !.seen = seen, !.pc = b.pc, !.outcome = b.outcome]
        BY <3>2, <3>4
      <4> QED
        BY <3>1, <4>1 DEF BatchRecords
    <3> QED
      BY <3>3, <3>4
  <2> QED
    BY <2>1, <2>2
<1>2. \A d \in batch.seen : HasResult(d)
  BY DEF ToolInv, ConcurrentInv
<1>3. ToolTypes' /\ CallsInv' /\ NestInv'
  <2>1. Marked
    BY DEF Marked
  <2> QED
    BY <1>1, <2>1, MarkedKeeps DEF ToolInv, ToolTypes, BatchRecords
<1>4. RecordsInv' /\ SerialInv'
  BY <1>1 DEF ToolInv, RecordsInv, SerialInv, Over
<1>5. \A d \in Calls : HasResult(d) <=> HasResult(d)'
  BY DEF HasResult, At
<1>6. ConcurrentInv'
  <2>1. \A d \in batch'.seen : HasResult(d)'
    BY <1>1, <1>2, <1>5, batch.seen \subseteq Calls DEF BatchRecords
  <2>2. batch'.pc = "prepare" =>
           \A d \in Calls :
             /\ call[d].pc \in {"wait", "approval", "ready", "after", "closing", "closed"}
             /\ handler[d].state = "none"
    BY <1>1 DEF ToolInv, ConcurrentInv
  <2>3. batch'.pc = "prepare" =>
             /\ batch'.at \in Calls
             /\ \A d \in Calls : /\ d > batch'.at => call[d].pc = "wait"
                                 /\ d < batch'.at => call[d].pc = "ready" \/ HasResult(d)'
    BY <1>1, <1>5 DEF At
  <2>4. batch'.pc \in {"run", "stop"} =>
           batch'.at = 3 /\ \A d \in Calls : call[d].pc \notin {"wait", "approval"}
    BY <1>1
  <2>5. (\E d \in Calls : handler[d].state # "none") =>
           \A d \in Calls : call[d].pc \notin {"wait", "approval"}
    BY DEF ToolInv, ConcurrentInv
  <2> QED
    BY <2>1, <2>2, <2>3, <2>4, <2>5 DEF ConcurrentInv, At
<1>7. OverInv'
  <2>1. batch'.pc = "over" => \A d \in Calls : HasResult(d) /\ ~call[d].open
    BY <1>1, <1>2, ClosedCall DEF HasResult, At, AllCalls
  <2> QED
    BY <1>1, <2>1 DEF OverInv, Over, HasResult, At
<1> QED
  BY <1>3, <1>4, <1>6, <1>7 DEF ToolInv

LEMMA PreparedOneSafe == ASSUME ToolInv, PreparedOne PROVE ToolInv'
<1> DEFINE x == call[batch.at]
           b == [batch EXCEPT !.at = @ + 1, !.pc = IF batch.at = 2 THEN "run" ELSE @]
<1>1. /\ batch.pc = "prepare" /\ batch.mode = "concurrent" /\ batch \in BatchRecords
      /\ x.pc \in {"ready", "closed"} /\ UNCHANGED <<kind, handler, touched>>
  BY DEF PreparedOne, ToolInv, SerialInv, ToolTypes, BatchRecords
<1>2. /\ batch.at \in Calls /\ batch.outcome = "none" /\ ~Over
      /\ \A d \in Calls : /\ d > batch.at => At(d, "wait")
                          /\ d < batch.at => At(d, "ready") \/ HasResult(d)
                          /\ handler[d].state = "none"
  BY <1>1 DEF ToolInv, ConcurrentInv, OverInv, Over
<1>3. CASE x.pc = "ready" \/ x.outcome = "result"
  <2>1. /\ UNCHANGED call
        /\ batch' = b \/ (HasResult(batch.at) /\ batch' = Collected(b, batch.at))
    BY <1>1, <1>3 DEF PreparedOne, HasResult, At
  <2>2. /\ b \in BatchRecords /\ b.mode = "concurrent" /\ b.outcome = "none"
        /\ b.seen = batch.seen /\ b.at = batch.at + 1
        /\ b.pc = IF batch.at = 2 THEN "run" ELSE "prepare"
    <3>1. batch.at + 1 \in {1, 2, 3}
      BY <1>2 DEF Calls
    <3>2. (IF batch.at = 2 THEN "run" ELSE batch.pc) \in {"prepare", "run"}
      BY <1>1
    <3> QED
      BY <1>1, <1>2, <3>1, <3>2 DEF BatchRecords
  <2>3. At(batch.at, "ready") \/ HasResult(batch.at)
    BY <1>1, <1>3 DEF HasResult, At
  <2> HIDE DEF b
  <2>4. b.pc = "prepare" =>
             /\ b.at \in Calls
             /\ \A d \in Calls : /\ d > b.at => At(d, "wait")
                                 /\ d < b.at => At(d, "ready") \/ HasResult(d)
    BY <1>2, <2>2, <2>3 DEF Calls
  <2>5. b.pc = "run" => b.at = 3 /\ \A d \in Calls : call[d].pc \notin {"wait", "approval"}
    BY <1>2, <2>2, <2>3 DEF Calls, At, HasResult
  <2>6. b.pc \in {"prepare", "run"}
    BY <2>2
  <2> QED
    BY <1>1, <1>2, <2>1, <2>2, <2>4, <2>5, <2>6, CollectedSafe
<1>4. CASE x.pc = "closed" /\ x.outcome # "result"
  <2>1. AbortUnprocessed(1) /\ BatchEnds(x.outcome)
    BY <1>4 DEF PreparedOne
  <2>2. /\ call' \in [AllCalls -> CallRecords] /\ Marked
        /\ \A d \in Calls : d >= 1 => ~call'[d].open
    BY <2>1, AbortFields DEF ToolInv
  <2>3. x.outcome \in {"aborted", "cancelled"}
    <3>1. batch.at \in AllCalls /\ CallOk(batch.at, x, handler[batch.at], touched[batch.at])
      BY <1>2 DEF ToolInv, CallsInv, AllCalls
    <3>2. x.outcome # "error"
      BY <1>2, <3>1 DEF CallOk
    <3> QED
      BY <1>4, <3>1, <3>2, ClosedCall
  <2>4. \A d \in Calls : call[d].pc \in {"wait", "ready", "closed"} /\ ~call'[d].open
    BY <1>2, <1>4, <2>2 DEF Calls, At, HasResult
  <2> QED
    BY <1>1, <2>1, <2>2, <2>3, <2>4, FailedBatch
<1> QED
  BY <1>1, <1>3, <1>4

LEMMA TakeSafe == ASSUME ToolInv, NEW c \in Calls, Take(c) PROVE ToolInv'
<1>1. /\ batch.mode = "concurrent" /\ batch.pc = "run" /\ At(c, "closed") /\ c \in AllCalls
      /\ batch \in BatchRecords /\ UNCHANGED <<kind, handler, touched>>
      /\ batch.outcome = "none" /\ ~Over
  BY DEF Take, ToolInv, ToolTypes, BatchRecords, OverInv, Over, AllCalls
<1>2. batch.at = 3 /\ \A d \in Calls : call[d].pc \notin {"wait", "approval"}
  BY <1>1 DEF ToolInv, ConcurrentInv
<1>3. call[c].outcome \in {"result", "aborted", "cancelled", "error"}
  BY <1>1, ClosedCall DEF At
<1>4. CASE call[c].outcome = "result"
  <2>1. batch' = Collected(batch, c) /\ UNCHANGED call /\ HasResult(c)
    BY <1>1, <1>4 DEF Take, HasResult
  <2> QED
    BY <1>1, <1>2, <2>1, CollectedSafe
<1>5. CASE call[c].outcome \in {"aborted", "cancelled"}
  <2>1. /\ batch' = [batch EXCEPT !.pc = "stop", !.outcome = call[c].outcome]
        /\ call' = [d \in AllCalls |->
                      IF d \in Started /\ ~At(d, "closed")
                      THEN [call[d] EXCEPT !.stop = TRUE] ELSE call[d]]
    BY <1>5 DEF Take
  <2>2. /\ batch' \in BatchRecords /\ batch'.pc = "stop" /\ batch'.outcome \in {"aborted", "cancelled"}
        /\ batch'.mode = "concurrent" /\ batch'.at = 3 /\ batch'.seen = batch.seen
    BY <1>1, <1>2, <1>5, <2>1 DEF BatchRecords
  <2>3. \A d \in AllCalls :
          LET z == [call[d] EXCEPT !.stop = TRUE] IN
          /\ z \in CallRecords /\ z.pc = call[d].pc /\ z.outcome = call[d].outcome
          /\ z.effect = call[d].effect /\ z.permitted = call[d].permitted
          /\ z.records = call[d].records /\ z.open = call[d].open
    <3>1. call \in [AllCalls -> CallRecords]
      BY DEF ToolInv, ToolTypes
    <3> QED
      BY <3>1 DEF CallRecords
  <2>4. \A d \in AllCalls : \/ call'[d] = call[d]
                            \/ d \in Started /\ call'[d] = [call[d] EXCEPT !.stop = TRUE]
    BY <2>1
  <2>5. \A d \in AllCalls : call[d] \in CallRecords
    BY DEF ToolInv, ToolTypes
  <2>6. call' \in [AllCalls -> CallRecords]
    BY <2>1, <2>3, <2>5
  <2>7. Marked
    BY <1>2, <2>3, <2>4 DEF Marked, Started
  <2>8. \A d \in AllCalls : call'[d].records = call[d].records
    BY <2>3, <2>4
  <2>9. ToolTypes' /\ CallsInv' /\ NestInv'
    BY <1>1, <2>2, <2>6, <2>7, MarkedKeeps DEF ToolInv, ToolTypes, BatchRecords
  <2>10. RecordsInv'
    BY <1>1, <2>7, <2>8 DEF ToolInv, RecordsInv, Over, Marked, AllCalls
  <2>11. ConcurrentInv' /\ SerialInv' /\ OverInv'
    <3>1. \A d \in Calls : /\ call'[d].pc = call[d].pc
                           /\ HasResult(d) => HasResult(d)'
      BY <2>7 DEF Marked, HasResult, At, AllCalls
    <3>2. \A d \in batch.seen : d \in Calls /\ HasResult(d)
      BY <1>1 DEF ToolInv, ConcurrentInv, BatchRecords
    <3> QED
      BY <1>2, <2>2, <3>1, <3>2 DEF ConcurrentInv, SerialInv, OverInv, Over
  <2> QED
    BY <2>9, <2>10, <2>11 DEF ToolInv
<1>6. CASE call[c].outcome = "error"
  <2>1. BatchEnds("error") /\ UNCHANGED call
    BY <1>6 DEF Take
  <2>2. Marked /\ call' \in [AllCalls -> CallRecords]
    BY <2>1 DEF Marked, ToolInv, ToolTypes
  <2> QED
    BY <1>1, <1>6, <2>1, <2>2, FailedBatch
<1> QED
  BY <1>3, <1>4, <1>5, <1>6

LEMMA GatheredSafe == ASSUME ToolInv, Gathered PROVE ToolInv'
<1>1. /\ batch.pc = "stop" /\ AbortUnprocessed(1) /\ UNCHANGED <<kind, handler, touched>>
      /\ \A c \in Started : At(c, "closed") /\ Settles(c)
      /\ batch' = [batch EXCEPT !.pc = "over"]
  BY DEF Gathered
<1>2. batch.outcome \in {"aborted", "cancelled"} /\ batch \in BatchRecords
  BY <1>1 DEF ToolInv, OverInv, ToolTypes, BatchRecords
<1>3. BatchEnds(batch.outcome)
  BY <1>1, <1>2 DEF BatchEnds, BatchRecords
<1>4. /\ call' \in [AllCalls -> CallRecords] /\ Marked
      /\ \A d \in Calls : d >= 1 => ~call'[d].open
  BY <1>1, AbortFields DEF ToolInv
<1>5. \A d \in Calls : call[d].pc \in {"wait", "ready", "closed"} /\ ~call'[d].open
  BY <1>1, <1>4 DEF Calls, Started, At
<1> QED
  BY <1>1, <1>2, <1>3, <1>4, <1>5, FailedBatch

-----------------------------------------------------------------------------
LEMMA ToolNextSafe == ToolInv /\ [ToolNext]_toolVars => ToolInv'
<1> SUFFICES ASSUME ToolInv, [ToolNext]_toolVars PROVE ToolInv'
  OBVIOUS
<1>1. ASSUME NEW c \in AllCalls, CallStep(c) \/ Approval(c) \/ TimeoutStarted(c)
      PROVE  ToolInv'
  <2>1. CASE CancelStarted(c) \/ TimeoutStarted(c)
    <3>1. PICK late \in BOOLEAN : call[c].pc = "running" /\ Interrupt(c, late)
      BY <2>1 DEF CancelStarted, TimeoutStarted, Running, At
    <3> QED
      BY <3>1, InterruptSafe
  <2>2. Start(c) \/ Finish(c) => ToolInv'
    BY StartSafe, FinishSafe
  <2>3. Prepare(c) \/ StoppedEarly(c) \/ Approval(c) => ToolInv'
    BY PrepareSafe, StoppedEarlySafe, ApprovalSafe
  <2>4. Materialize(c) \/ After(c) \/ Fill(c) => ToolInv'
    BY MaterializeSafe, AfterSafe, FillSafe
  <2>5. Settled(c) \/ BeginClosing(c) \/ CloseCall(c) => ToolInv'
    BY SettledSafe, BeginClosingSafe, CloseCallSafe
  <2> QED
    BY <1>1, <2>1, <2>2, <2>3, <2>4, <2>5 DEF CallStep
<1>2. ASSUME NEW c \in AllCalls,
             Touch(c) \/ EnterBarrier(c) \/ LeaveBarrier(c) \/ HandlerEnds(c)
      PROVE  ToolInv'
  BY <1>2, TouchSafe, BarrierSafe, HandlerEndsSafe
<1>3. CASE BatchStep
  BY <1>3, NextSerialSafe, PreparedOneSafe, GatheredSafe, TakeSafe DEF BatchStep
<1>4. CASE Nest
  BY <1>4, NestSafe
<1>5. CASE CommitExchange \/ Cancel \/ UNCHANGED toolVars
  <2>1. UNCHANGED <<batch, kind, call, handler, touched>>
    BY <1>5 DEF CommitExchange, Cancel, toolVars
  <2>2. ToolTypes' /\ NestInv' /\ RecordsInv'
    BY <2>1 DEF ToolInv, ToolTypes, NestInv, RecordsInv, Runs, Over
  <2>3. CallsInv'
    BY <2>1 DEF ToolInv, CallsInv, CallOk, SideEffecting
  <2>4. SerialInv' /\ ConcurrentInv' /\ OverInv'
    BY <2>1 DEF ToolInv, SerialInv, ConcurrentInv, OverInv, Over, At, HasResult
  <2> QED
    BY <2>2, <2>3, <2>4 DEF ToolInv
<1> QED
  BY <1>1, <1>2, <1>3, <1>4, <1>5 DEF ToolNext

-----------------------------------------------------------------------------
\* Settlement barriers: none is entered in a scope that is closed, unless the call was
\* stopped while it waited, and then the batch has still to wait.

BarrierInv ==
    /\ \A c \in AllCalls : handler[c].barrier => handler[c].state # "none"
    /\ call[Nested].open => call[Nested].pc # "none" /\ call[Outer].open
    /\ \A c \in Calls : call[c].stop => batch.pc \in {"stop", "over"}
    /\ \A c \in Calls : At(c, "closed") =>
         Settles(c) \/ batch.pc = "stop" \/ batch.outcome = "error"

\* A step that opens and closes nothing.
LEMMA NothingClosed ==
    ASSUME ToolInv, BarrierInv, UNCHANGED batch,
           \A d \in AllCalls :
             /\ call'[d].open = call[d].open
             /\ call'[d].stop => call[d].stop \/ d = Nested
             /\ call'[d].pc = "closed" => call[d].pc = "closed"
             /\ call'[d].pc = "none" => call[d].pc = "none"
             /\ handler'[d].barrier => /\ handler'[d].state # "none"
                                       /\ handler[d].barrier \/ call[d].open
    PROVE  BarrierInv'
<1> USE DEF AllCalls, Calls, Nested, Outer
<1>1. \A c \in Calls : At(c, "closed") => \A d \in ScopesOf(c) : ~call[d].open
  BY DEF ToolInv, CallsInv, CallOk, BarrierInv, ScopesOf, At
<1>2. \A c \in Calls : At(c, "closed")' => At(c, "closed") /\ (Settles(c) => Settles(c)')
  BY <1>1 DEF At, Settles, ScopesOf
<1> QED
  BY <1>2 DEF BarrierInv

LEMMA EndsBarrier ==
    ASSUME ToolInv, BarrierInv, UNCHANGED batch, NEW c \in AllCalls,
           NEW outcome \in {"result", "aborted", "cancelled", "error"}, NEW n \in {0, 1, 2},
           Ends(c, outcome, n),
           \A d \in AllCalls : handler'[d].barrier =>
             handler'[d].state # "none" /\ handler[d].barrier
    PROVE  BarrierInv'
<1> DEFINE y == Ended(call[c], outcome, n)
<1>1. call[c] \in CallRecords
  BY DEF ToolInv, ToolTypes
<1>2. /\ y \in CallRecords /\ y.pc = "closing" /\ y.stop = call[c].stop
      /\ y.open = call[c].open
  BY <1>1, EndedFields
<1>3. call' = [call EXCEPT ![c] = y]
  BY DEF Ends
<1> HIDE DEF y
<1>4. call'[c] = y /\ \A d \in AllCalls \ {c} : call'[d] = call[d]
  BY <1>2, <1>3, CallUpdated DEF ToolInv
<1> QED
  BY <1>2, <1>4, NothingClosed

\* What a call does to itself while it is under way.
LEMMA MovesBarrier ==
    ASSUME ToolInv, BarrierInv, NEW c \in AllCalls, NEW y \in CallRecords,
           call' = [call EXCEPT ![c] = y], UNCHANGED batch,
           y.pc \notin {"none", "closed"}, y.open = call[c].open, y.stop => call[c].stop,
           \A d \in AllCalls : handler'[d].barrier =>
             handler'[d].state # "none" /\ (handler[d].barrier \/ call[d].open)
    PROVE  BarrierInv'
<1>1. call'[c] = y /\ \A d \in AllCalls \ {c} : call'[d] = call[d]
  BY CallUpdated DEF ToolInv
<1> QED
  BY <1>1, NothingClosed

LEMMA GoneBarrier ==
    ASSUME ToolInv, BarrierInv, NEW c \in AllCalls, NEW pc \in Pcs \ {"none", "closed"},
           Goto(c, pc), UNCHANGED batch,
           \A d \in AllCalls : handler'[d].barrier =>
             handler'[d].state # "none" /\ (handler[d].barrier \/ call[d].open)
    PROVE  BarrierInv'
<1> DEFINE y == [call[c] EXCEPT !.pc = pc]
<1>1. call[c] \in CallRecords
  BY DEF ToolInv, ToolTypes
<1>2. y \in CallRecords /\ y.pc = pc /\ y.open = call[c].open /\ y.stop = call[c].stop
  BY <1>1 DEF CallRecords
<1>3. call' = [call EXCEPT ![c] = y]
  BY <1>1 DEF Goto, Moved, CallRecords
<1> HIDE DEF y
<1> QED
  BY <1>2, <1>3, MovesBarrier

LEMMA PermitBarrier ==
    ASSUME ToolInv, BarrierInv, NEW c \in AllCalls, Permit(c), UNCHANGED <<batch, handler>>
    PROVE  BarrierInv'
<1> DEFINE y == [call[c] EXCEPT !.permitted = TRUE, !.pc =
                   IF c # Nested /\ batch.mode = "concurrent" THEN "ready" ELSE "before"]
<1>1. call[c] \in CallRecords
  BY DEF ToolInv, ToolTypes
<1>2. /\ y \in CallRecords /\ y.pc \in {"ready", "before"} /\ y.open = call[c].open
      /\ y.stop = call[c].stop
  BY <1>1 DEF CallRecords, Pcs
<1>3. call' = [call EXCEPT ![c] = y]
  BY DEF Permit, ToolInv, ToolTypes
<1> HIDE DEF y
<1>4. \A d \in AllCalls : handler[d].barrier => handler[d].state # "none"
  BY DEF BarrierInv
<1> QED
  BY <1>2, <1>3, <1>4, MovesBarrier

LEMMA ContributeBarrier ==
    ASSUME ToolInv, BarrierInv, NEW c \in AllCalls, NEW how, NEW next \in CallRecords,
           Contribute(c, how, next), UNCHANGED batch,
           next.pc \notin {"none", "closed"}, next.open = call[c].open, next.stop => call[c].stop,
           \A d \in AllCalls : handler'[d].barrier =>
             handler'[d].state # "none" /\ handler[d].barrier
    PROVE  BarrierInv'
<1> DEFINE y == IF call[c].open THEN [next EXCEPT !.effect = Evidence(c, how)]
                ELSE Ended(call[c], "error", 0)
<1>1. call[c] \in CallRecords
  BY DEF ToolInv, ToolTypes
<1>2. Evidence(c, how) \in {"none", "succeeded", "unknown", "harmless"}
  BY DEF Evidence
<1>3. call' = [call EXCEPT ![c] = y]
  BY DEF Contribute, ToolInv, ToolTypes
<1>4. y \in CallRecords /\ y.pc \notin {"none", "closed"} /\ y.open = call[c].open
  <2>1. CASE call[c].open
    BY <1>2, <2>1 DEF CallRecords
  <2>2. CASE ~call[c].open
    BY <1>1, <2>2, EndedFields
  <2> QED
    BY <2>1, <2>2
<1>5. y.stop => call[c].stop
  <2>1. CASE call[c].open
    BY <1>2, <2>1 DEF CallRecords
  <2>2. CASE ~call[c].open
    BY <1>1, <2>2, EndedFields
  <2> QED
    BY <2>1, <2>2
<1> HIDE DEF y
<1> QED
  BY <1>3, <1>4, <1>5, MovesBarrier

LEMMA CallBarrier ==
    ASSUME ToolInv, BarrierInv, NEW c \in AllCalls,
           \/ Prepare(c) \/ Approval(c) \/ StoppedEarly(c) \/ Materialize(c) \/ After(c)
           \/ Fill(c) \/ Start(c)
    PROVE  BarrierInv'
<1>1. \A d \in AllCalls : handler[d].barrier => handler[d].state # "none"
  BY DEF BarrierInv
<1>2. ASSUME UNCHANGED <<batch, handler>>,
             \/ \E outcome \in {"result", "aborted", "cancelled"}, n \in {0, 1, 2} : Ends(c, outcome, n)
             \/ \E pc \in {"after", "approval", "before"} : Goto(c, pc)
             \/ Permit(c)
      PROVE  BarrierInv'
  <2>1. CASE Permit(c)
    BY <1>2, <2>1, PermitBarrier
  <2>2. CASE \E pc \in {"after", "approval", "before"} : Goto(c, pc)
    <3>1. PICK pc \in {"after", "approval", "before"} : Goto(c, pc)
      BY <2>2
    <3>2. pc \in Pcs \ {"none", "closed"}
      BY DEF Pcs
    <3> QED
      BY <1>1, <1>2, <3>1, <3>2, GoneBarrier
  <2>3. CASE \E outcome \in {"result", "aborted", "cancelled"}, n \in {0, 1, 2} : Ends(c, outcome, n)
    BY <1>1, <1>2, <2>3, EndsBarrier
  <2> QED
    BY <1>2, <2>1, <2>2, <2>3
<1>3. CASE Prepare(c) \/ Approval(c)
  BY <1>2, <1>3 DEF Prepare, Approval, Quietly, Answered
<1>4. CASE StoppedEarly(c) \/ Materialize(c) \/ After(c) \/ Fill(c)
  BY <1>2, <1>4 DEF StoppedEarly, Stopped, Materialize, After, Fill, Quietly
<1>5. CASE Start(c)
  <2>1. CASE UNCHANGED handler
    <3>1. UNCHANGED batch /\ (Ends(c, "cancelled", 0) \/ Ends(c, "aborted", 2) \/ Goto(c, "running"))
      BY <1>5 DEF Start
    <3>2. "running" \in Pcs \ {"none", "closed"}
      BY DEF Pcs
    <3> QED
      BY <1>1, <1>2, <2>1, <3>1, <3>2, GoneBarrier
  <2>2. CASE Goto(c, "running") /\ handler' = [handler EXCEPT ![c].state = "running"]
    <3>1. \A d \in AllCalls : handler'[d].barrier =>
            handler'[d].state # "none" /\ handler[d].barrier
      BY <1>1, <2>2 DEF ToolInv, ToolTypes, HandlerRecords
    <3>2. "running" \in Pcs \ {"none", "closed"} /\ UNCHANGED batch
      BY <1>5 DEF Pcs, Start
    <3> QED
      BY <2>2, <3>1, <3>2, GoneBarrier
  <2> QED
    BY <1>5, <2>1, <2>2 DEF Start
<1> QED
  BY <1>3, <1>4, <1>5

LEMMA FinishBarrier == ASSUME ToolInv, BarrierInv, NEW c \in AllCalls, Finish(c) PROVE BarrierInv'
<1> DEFINE how == handler[c].state
<1>1. /\ call[c] \in CallRecords /\ UNCHANGED batch
      /\ handler' = [handler EXCEPT ![c].state = Consumed(@)]
  BY DEF Finish, ToolInv, ToolTypes
<1>2. \A d \in AllCalls : handler'[d].barrier =>
        handler'[d].state # "none" /\ handler[d].barrier
  BY <1>1 DEF ToolInv, ToolTypes, HandlerRecords, BarrierInv, Consumed
<1>3. ASSUME NEW pc \in {"materializing", "after"}, Contribute(c, how, [call[c] EXCEPT !.pc = pc])
      PROVE  BarrierInv'
  <2> DEFINE next == [call[c] EXCEPT !.pc = pc]
  <2>1. /\ next \in CallRecords /\ next.pc = pc /\ next.open = call[c].open
        /\ next.stop = call[c].stop
    BY <1>1 DEF CallRecords, Pcs
  <2>2. Contribute(c, how, next)
    BY <1>3
  <2> HIDE DEF next, how
  <2> QED
    BY <1>1, <1>2, <2>1, <2>2, ContributeBarrier
<1>4. ASSUME Contribute(c, how, Ended(call[c], "aborted", 2)) PROVE BarrierInv'
  <2> DEFINE next == Ended(call[c], "aborted", 2)
  <2>1. /\ next \in CallRecords /\ next.pc = "closing" /\ next.open = call[c].open
        /\ next.stop = call[c].stop
    BY <1>1, EndedFields
  <2>2. Contribute(c, how, next)
    BY <1>4
  <2> HIDE DEF next, how
  <2> QED
    BY <1>1, <1>2, <2>1, <2>2, ContributeBarrier
<1>5. \/ \E pc \in {"materializing", "after"} : Contribute(c, how, [call[c] EXCEPT !.pc = pc])
      \/ Contribute(c, how, Ended(call[c], "aborted", 2))
      \/ \E outcome \in {"aborted", "error", "cancelled"}, n \in {0, 1, 2} : Ends(c, outcome, n)
  BY DEF Finish
<1> QED
  BY <1>1, <1>2, <1>3, <1>4, <1>5, EndsBarrier

LEMMA InterruptBarrier ==
    ASSUME ToolInv, BarrierInv, NEW c \in AllCalls, NEW late \in BOOLEAN, Interrupt(c, late)
    PROVE  BarrierInv'
<1>1. /\ call \in [AllCalls -> CallRecords] /\ handler \in [AllCalls -> HandlerRecords]
      /\ UNCHANGED batch
  BY DEF ToolInv, ToolTypes, Interrupt
<1>2. \A d \in AllCalls : handler'[d].barrier =>
        handler'[d].state # "none" /\ handler[d].barrier
  BY <1>1 DEF Interrupt, HandlerRecords, BarrierInv
<1>3. \A d \in AllCalls :
        /\ call'[d].open = call[d].open
        /\ call'[d].pc \in {call[d].pc, "settling"}
        /\ d # Nested => (call'[d].stop => call[d].stop)
  <2> SUFFICES ASSUME NEW d \in AllCalls
               PROVE  /\ call'[d].open = call[d].open
                      /\ call'[d].pc \in {call[d].pc, "settling"}
                      /\ d # Nested => (call'[d].stop => call[d].stop)
    OBVIOUS
  <2>1. call[d] \in CallRecords /\ call[d].pc \in {call[d].pc, "settling"}
    BY <1>1
  <2>2. CASE d = c
    BY <2>1, <2>2 DEF Interrupt, CallRecords
  <2>3. CASE d # c /\ d = Nested /\ Nesting(c)
    <3>1. call'[d] = [call[d] EXCEPT !.stop = TRUE]
      BY <2>3 DEF Interrupt
    <3> QED
      BY <2>1, <2>3, <3>1 DEF CallRecords
  <2>4. CASE d # c /\ ~(d = Nested /\ Nesting(c))
    <3>1. call'[d] = call[d]
      BY <2>4 DEF Interrupt
    <3> QED
      BY <2>1, <3>1
  <2> QED
    BY <2>2, <2>3, <2>4
<1> QED
  BY <1>1, <1>2, <1>3, NothingClosed

LEMMA SettledBarrier == ASSUME ToolInv, BarrierInv, NEW c \in AllCalls, Settled(c) PROVE BarrierInv'
<1> DEFINE x == [call[c] EXCEPT !.stop = FALSE, !.shielded = FALSE]
           next == IF call[c].late THEN [x EXCEPT !.pc = "after", !.late = FALSE]
                   ELSE Ended(x, "cancelled", 2)
<1>1. PICK leave \in BOOLEAN :
         /\ Contribute(c, IF leave THEN "left" ELSE handler[c].state, next)
         /\ handler' = [handler EXCEPT ![c] = [@ EXCEPT !.left = leave,
                                                       !.state = Consumed(handler[c].state)]]
  BY DEF Settled
<1>2. call[c] \in CallRecords /\ UNCHANGED batch
  BY DEF Settled, ToolInv, ToolTypes
<1>3. x \in CallRecords /\ x.open = call[c].open /\ x.stop = FALSE
  BY <1>2 DEF CallRecords
<1> HIDE DEF x
<1>4. /\ next \in CallRecords /\ next.pc \in {"after", "closing"} /\ next.open = call[c].open
      /\ next.stop = FALSE
  <2>1. CASE call[c].late
    BY <1>3, <2>1 DEF CallRecords, Pcs
  <2>2. CASE ~call[c].late
    BY <1>3, <2>2, EndedFields
  <2> QED
    BY <2>1, <2>2
<1>5. \A d \in AllCalls : handler'[d].barrier =>
        handler'[d].state # "none" /\ handler[d].barrier
  BY <1>1 DEF ToolInv, ToolTypes, HandlerRecords, BarrierInv, Consumed
<1> HIDE DEF next
<1> QED
  BY <1>1, <1>2, <1>4, <1>5, ContributeBarrier

LEMMA HandlerBarrier ==
    ASSUME ToolInv, BarrierInv, NEW c \in AllCalls,
           Touch(c) \/ EnterBarrier(c) \/ LeaveBarrier(c) \/ HandlerEnds(c)
    PROVE  BarrierInv'
<1>1. UNCHANGED <<call, batch>>
  BY DEF Touch, EnterBarrier, LeaveBarrier, HandlerEnds
<1>2. \A d \in AllCalls : handler'[d].barrier =>
        handler'[d].state # "none" /\ (handler[d].barrier \/ call[d].open)
  <2>1. CASE Touch(c)
    BY <2>1 DEF Touch, BarrierInv
  <2>2. CASE EnterBarrier(c)
    BY <2>2 DEF EnterBarrier, Runs, ToolInv, ToolTypes, HandlerRecords, BarrierInv
  <2>3. CASE LeaveBarrier(c)
    BY <2>3 DEF LeaveBarrier, ToolInv, ToolTypes, HandlerRecords, BarrierInv
  <2>4. CASE HandlerEnds(c)
    BY <2>4 DEF HandlerEnds, ToolInv, ToolTypes, HandlerRecords, BarrierInv
  <2> QED
    BY <2>1, <2>2, <2>3, <2>4
<1> QED
  BY <1>1, <1>2, NothingClosed

\* Closing.
LEMMA BeginClosingBarrier ==
    ASSUME ToolInv, BarrierInv, NEW c \in AllCalls, BeginClosing(c) PROVE BarrierInv'
<1> USE DEF AllCalls, Calls, Nested, Outer
<1>1. \A d \in AllCalls :
        /\ call[d] \in CallRecords
        /\ call'[d] = IF d \in ScopesOf(c) THEN [call[d] EXCEPT !.open = FALSE] ELSE call[d]
  BY DEF ToolInv, ToolTypes, BeginClosing
<1>2. \A d \in AllCalls :
        LET z == [call[d] EXCEPT !.open = FALSE] IN
        ~z.open /\ z.pc = call[d].pc /\ z.stop = call[d].stop
  BY <1>1 DEF CallRecords
<1>3. \A d \in AllCalls :
        /\ call'[d].pc = call[d].pc /\ call'[d].stop = call[d].stop
        /\ call'[d].open <=> call[d].open /\ d \notin ScopesOf(c)
  BY ZenonT(40), <1>1, <1>2
<1>4. UNCHANGED <<batch, handler>>
  BY DEF BeginClosing
<1> QED
  BY <1>3, <1>4 DEF BarrierInv, At, Settles, ScopesOf

LEMMA CloseCallBarrier ==
    ASSUME ToolInv, BarrierInv, NEW c \in AllCalls, CloseCall(c) PROVE BarrierInv'
<1> USE DEF AllCalls, Calls, Nested, Outer
<1> DEFINE y == Closed(call[c], c)
<1>1. /\ call[c].pc = "closing" /\ ~call[c].open /\ UNCHANGED <<batch, handler>>
      /\ call[c] \in CallRecords /\ (Settles(c) \/ call[c].stop)
  BY DEF CloseCall, Quietly, At, ToolInv, ToolTypes
<1>2. y.pc = "closed" /\ y.open = FALSE /\ y.stop = FALSE
  BY <1>1 DEF Closed, CallRecords
<1>3. call' = [call EXCEPT ![c] = y]
  BY DEF CloseCall, Quietly
<1> HIDE DEF y
<1>4. call'[c] = y /\ \A d \in AllCalls \ {c} : call'[d] = call[d]
  BY <1>3 DEF ToolInv, ToolTypes
<1>5. c \in Calls => Settles(c) \/ batch.pc = "stop" \/ batch.outcome = "error"
  BY <1>1 DEF BarrierInv, ToolInv, OverInv, Over
<1>6. Settles(c)' <=> Settles(c)
  BY <1>1 DEF Settles
<1>7. \A d \in Calls : At(d, "closed")' =>
        Settles(d)' \/ batch'.pc = "stop" \/ batch'.outcome = "error"
  BY <1>1, <1>4, <1>5, <1>6 DEF At, Settles, BarrierInv
<1> QED
  BY <1>1, <1>2, <1>4, <1>7 DEF BarrierInv

LEMMA NestBarrier == ASSUME ToolInv, BarrierInv, Nest PROVE BarrierInv'
<1> USE DEF AllCalls, Calls, Nested, Outer
<1>1. /\ UNCHANGED <<batch, handler>> /\ call[Outer].open
      /\ call' = [call EXCEPT ![Nested] = Fresh("wait")]
  BY DEF Nest
<1>2. /\ call'[Nested] = Fresh("wait")
      /\ \A d \in Calls : call'[d] = call[d]
  BY <1>1 DEF ToolInv, ToolTypes
<1>3. Fresh("wait").pc = "wait"
  BY DEF Fresh
<1> QED
  BY <1>1, <1>2, <1>3 DEF BarrierInv, At, Settles

\* Nobody is in a barrier of a scope whose handler never started.
LEMMA Untouched ==
    ASSUME ToolInv, BarrierInv, NEW c \in Calls, call[c].pc \in {"wait", "ready"}
    PROVE  Settles(c) /\ (c = Outer => ~call[Nested].open)
<1> USE DEF AllCalls, Calls, Nested, Outer
<1>1. handler[c].state = "none"
  BY DEF ToolInv, CallsInv, CallOk, Unstarted
<1>2. c = Outer => call[Nested].pc = "none" /\ handler[Nested].state = "none"
  BY <1>1 DEF ToolInv, NestInv, CallsInv, CallOk, Unstarted
<1> QED
  BY <1>1, <1>2 DEF BarrierInv, Settles, ScopesOf

\* A step of the batch marks calls; scopes it closes were never used, or are closed.
LEMMA BatchBarrier ==
    ASSUME ToolInv, BarrierInv, Marked, UNCHANGED handler,
           \A d \in Calls : call[d].open /\ ~call'[d].open => call[d].pc \in {"wait", "ready"},
           \A d \in Calls : call'[d].stop => call[d].stop \/ batch'.pc \in {"stop", "over"},
           batch.pc \in {"stop", "over"} => batch'.pc \in {"stop", "over"},
           batch.pc = "stop" /\ batch'.pc # "stop" =>
             \A d \in Calls : At(d, "closed") => Settles(d),
           batch.outcome = "error" => batch'.outcome = "error"
    PROVE  BarrierInv'
<1> USE DEF AllCalls, Calls, Nested, Outer
<1>1. call'[Nested].open => call'[Outer].open
  BY Untouched DEF Marked, BarrierInv
<1>2. \A d \in Calls : At(d, "closed")' => At(d, "closed") /\ (Settles(d)' <=> Settles(d))
  BY DEF Marked, At, Settles
<1>3. \A d \in Calls : At(d, "closed")' =>
        Settles(d)' \/ batch'.pc = "stop" \/ batch'.outcome = "error"
  BY <1>2 DEF BarrierInv
<1> QED
  BY <1>1, <1>3 DEF Marked, BarrierInv

LEMMA AbortMarks ==
    ASSUME ToolTypes, NEW from \in Int, AbortUnprocessed(from)
    PROVE  \A d \in Calls : /\ call'[d].stop = call[d].stop
                            /\ call[d].open /\ ~call'[d].open => d >= from
<1>1. \A d \in Calls : call[d] \in CallRecords
  BY DEF ToolTypes, AllCalls
<1>2. ASSUME NEW d \in Calls
      PROVE  call'[d] = IF d >= from
                        THEN [call[d] EXCEPT !.records = Records(call[d].records, 1), !.open = FALSE]
                        ELSE call[d]
  BY <1>1 DEF AbortUnprocessed, CallRecords, AllCalls
<1> QED
  BY <1>1, <1>2 DEF CallRecords

LEMMA NextSerialBarrier == ASSUME ToolInv, BarrierInv, NextSerial PROVE BarrierInv'
<1>1. /\ batch \in BatchRecords /\ batch.mode = "serial" /\ batch.pc = "run" /\ batch.at \in Calls
      /\ batch.outcome = "none" /\ UNCHANGED handler
  BY DEF NextSerial, ToolInv, SerialInv, ToolTypes, BatchRecords, OverInv, Over
<1>2. CASE UNCHANGED call
  BY <1>1, <1>2, BatchBarrier DEF Marked, BatchEnds
<1>3. CASE AbortUnprocessed(batch.at + 1)
  <2>1. /\ Marked
        /\ \A d \in Calls : /\ call'[d].stop = call[d].stop
                            /\ call[d].open /\ ~call'[d].open => d >= batch.at + 1
    BY <1>1, <1>3, AbortFields, AbortMarks DEF ToolInv, Calls
  <2>2. \A d \in Calls : d >= batch.at + 1 => call[d].pc = "wait"
    BY <1>1 DEF ToolInv, SerialInv, At, Calls
  <2>3. \A d \in Calls : call[d].open /\ ~call'[d].open => call[d].pc \in {"wait", "ready"}
    BY <2>1, <2>2
  <2>4. \A d \in Calls : call'[d].stop => call[d].stop \/ batch'.pc \in {"stop", "over"}
    BY <2>1
  <2> QED
    BY <1>1, <2>1, <2>3, <2>4, BatchBarrier
<1> QED
  BY <1>2, <1>3 DEF NextSerial

LEMMA PreparedBarrier == ASSUME ToolInv, BarrierInv, PreparedOne PROVE BarrierInv'
<1>1. /\ batch \in BatchRecords /\ batch.mode = "concurrent" /\ batch.pc = "prepare"
      /\ batch.outcome = "none" /\ UNCHANGED handler
  BY DEF PreparedOne, ToolInv, SerialInv, ToolTypes, BatchRecords, OverInv, Over
<1>2. CASE UNCHANGED call
  BY <1>1, <1>2, BatchBarrier DEF Marked
<1>3. CASE AbortUnprocessed(1) /\ call[batch.at].pc = "closed"
  <2>1. Marked /\ \A d \in Calls : call'[d].stop = call[d].stop
    BY <1>1, <1>3, AbortFields, AbortMarks DEF ToolInv
  <2>2. \A d \in Calls : call[d].open => call[d].pc \in {"wait", "ready"}
    BY <1>1, <1>3 DEF ToolInv, ConcurrentInv, At, HasResult, CallsInv, CallOk, AllCalls, Calls
  <2> QED
    BY <1>1, <2>1, <2>2, BatchBarrier
<1> QED
  BY <1>2, <1>3 DEF PreparedOne

LEMMA TakeBarrier == ASSUME ToolInv, BarrierInv, NEW c \in Calls, Take(c) PROVE BarrierInv'
<1>1. /\ batch \in BatchRecords /\ batch.pc = "run" /\ batch.outcome = "none" /\ UNCHANGED handler
  BY DEF Take, ToolInv, ToolTypes, BatchRecords, OverInv, Over
<1>2. CASE UNCHANGED call
  BY <1>1, <1>2, BatchBarrier DEF Marked
<1>3. CASE call[c].outcome \in {"aborted", "cancelled"}
  <2>1. /\ batch' = [batch EXCEPT !.pc = "stop", !.outcome = call[c].outcome]
        /\ call' = [d \in AllCalls |-> IF d \in Started /\ ~At(d, "closed")
                                      THEN [call[d] EXCEPT !.stop = TRUE] ELSE call[d]]
    BY <1>3 DEF Take
  <2>2. batch'.pc = "stop"
    BY <1>1, <2>1 DEF BatchRecords
  <2>3. \A d \in AllCalls :
          /\ call'[d].pc = call[d].pc /\ call'[d].outcome = call[d].outcome
          /\ call'[d].effect = call[d].effect /\ call'[d].permitted = call[d].permitted
          /\ call'[d].open = call[d].open /\ (d = Nested => call'[d].stop = call[d].stop)
    <3>1. \A d \in AllCalls : call[d] \in CallRecords
      BY DEF ToolInv, ToolTypes
    <3>2. \A d \in AllCalls :
            LET z == [call[d] EXCEPT !.stop = TRUE] IN
            /\ z.pc = call[d].pc /\ z.outcome = call[d].outcome /\ z.effect = call[d].effect
            /\ z.permitted = call[d].permitted /\ z.open = call[d].open
      BY <3>1 DEF CallRecords
    <3>3. \A d \in AllCalls : /\ call'[d] \in {call[d], [call[d] EXCEPT !.stop = TRUE]}
                              /\ d = Nested => call'[d] = call[d]
      BY <2>1 DEF Started, Calls, Nested
    <3> QED
      BY ZenonT(40), <3>2, <3>3
  <2>4. \A d \in Calls : At(d, "closed")' => At(d, "closed") /\ batch'.pc = "stop"
    BY <2>2, <2>3 DEF At, Calls, AllCalls
  <2> QED
    BY <1>1, <2>2, <2>3, <2>4 DEF BarrierInv, AllCalls, Calls, Nested, Outer
<1>4. call[c].outcome \notin {"aborted", "cancelled"} => UNCHANGED call
  BY DEF Take
<1> QED
  BY <1>2, <1>3, <1>4

LEMMA GatheredBarrier == ASSUME ToolInv, BarrierInv, Gathered PROVE BarrierInv'
<1>1. /\ batch.pc = "stop" /\ AbortUnprocessed(1) /\ UNCHANGED handler
      /\ \A c \in Started : At(c, "closed") /\ Settles(c)
      /\ batch' = [batch EXCEPT !.pc = "over"] /\ batch \in BatchRecords
  BY DEF Gathered, ToolInv, ToolTypes, BatchRecords
<1>2. batch'.pc = "over" /\ batch'.outcome = batch.outcome
  BY <1>1 DEF BatchRecords
<1>3. Marked /\ \A d \in Calls : call'[d].stop = call[d].stop
  BY <1>1, AbortFields, AbortMarks DEF ToolInv
<1>4. \A d \in Calls : call[d].open => call[d].pc \in {"wait", "ready"}
  BY <1>1 DEF Started, At, ToolInv, CallsInv, CallOk, Calls, AllCalls
<1>5. \A d \in Calls : At(d, "closed") => Settles(d)
  BY <1>1 DEF Started, At
<1>6. \A d \in Calls : call'[d].stop => call[d].stop \/ batch'.pc \in {"stop", "over"}
  BY <1>3
<1> QED
  BY <1>1, <1>2, <1>3, <1>4, <1>5, <1>6, BatchBarrier

LEMMA BarrierNextSafe == ToolInv /\ BarrierInv /\ [ToolNext]_toolVars => BarrierInv'
<1> SUFFICES ASSUME ToolInv, BarrierInv, [ToolNext]_toolVars PROVE BarrierInv'
  OBVIOUS
<1>1. ASSUME NEW c \in AllCalls, CallStep(c) \/ Approval(c) \/ TimeoutStarted(c)
      PROVE  BarrierInv'
  <2>1. CASE CancelStarted(c) \/ TimeoutStarted(c)
    <3>1. PICK late \in BOOLEAN : Interrupt(c, late)
      BY <2>1 DEF CancelStarted, TimeoutStarted
    <3> QED
      BY <3>1, InterruptBarrier
  <2>2. CASE Finish(c) \/ Settled(c) \/ BeginClosing(c) \/ CloseCall(c)
    BY <2>2, FinishBarrier, SettledBarrier, BeginClosingBarrier, CloseCallBarrier
  <2> QED
    BY <1>1, <2>1, <2>2, CallBarrier DEF CallStep
<1>2. ASSUME NEW c \in AllCalls,
             Touch(c) \/ EnterBarrier(c) \/ LeaveBarrier(c) \/ HandlerEnds(c)
      PROVE  BarrierInv'
  BY <1>2, HandlerBarrier
<1>3. CASE BatchStep
  BY <1>3, NextSerialBarrier, PreparedBarrier, TakeBarrier, GatheredBarrier DEF BatchStep
<1>4. CASE Nest
  BY <1>4, NestBarrier
<1>5. CASE CommitExchange \/ Cancel \/ UNCHANGED toolVars
  <2>1. UNCHANGED <<batch, call, handler>>
    BY <1>5 DEF CommitExchange, Cancel, toolVars
  <2> QED
    BY <2>1 DEF BarrierInv, At, Settles
<1> QED
  BY <1>1, <1>2, <1>3, <1>4, <1>5 DEF ToolNext

LEMMA BarrierInitSafe == ToolInit => BarrierInv
<1> SUFFICES ASSUME ToolInit PROVE BarrierInv
  OBVIOUS
<1>1. \A c \in AllCalls : /\ call[c] = Fresh(IF c = Nested THEN "none" ELSE "wait")
                          /\ ~handler[c].barrier
  BY DEF ToolInit
<1>2. /\ Fresh("none").open = FALSE /\ Fresh("wait").stop = FALSE /\ Fresh("wait").pc = "wait"
  BY DEF Fresh
<1> QED
  BY <1>1, <1>2 DEF BarrierInv, At, AllCalls, Calls, Nested, Outer

\* Every batch, serial or concurrent, of whatever kinds of Tool, keeps the relation of
\* calls, handlers, effects and settlement barriers on which the theorems below rest.
THEOREM ToolInvariant == ToolSpec => [](ToolInv /\ BarrierInv)
<1>1. ToolInit => ToolInv /\ BarrierInv
  BY ToolInitSafe, BarrierInitSafe
<1>2. ToolInv /\ BarrierInv /\ [ToolNext]_toolVars => (ToolInv /\ BarrierInv)'
  BY ToolNextSafe, BarrierNextSafe
<1> QED
  BY <1>1, <1>2, PTL DEF ToolSpec

\* _contribute_effect, _cancel_started and retry_safe: in every batch that is over and
\* looks safe to retry, a side effect the transcript does not tell of belongs to one of
\* the three known exceptions: the rest have evidence that says so.
THEOREM EffectsAreAccounted == ToolSpec => []EffectsAccounted
<1>1. ToolInv => EffectsAccounted
  <2> SUFFICES ASSUME ToolInv, Over, RetrySafe, NEW c \in Surviving
               PROVE  \/ c = Nested /\ handler[Outer].left
                      \/ handler[c].state = "settlement"
                      \/ \E d \in AllCalls : call[d].outcome = "error"
    BY DEF EffectsAccounted
  <2>1. /\ c \in AllCalls /\ touched[c] /\ CallOk(c, call[c], handler[c], touched[c])
        /\ call[c] \in CallRecords
    BY DEF Surviving, ToolInv, CallsInv, ToolTypes
  <2>2. SideEffecting(c) /\ handler[c].state # "none" /\ call[c].effect # "harmless"
    BY <2>1 DEF CallOk
  <2>3. call[c].effect = "none"
    BY <2>1, <2>2 DEF RetrySafe, Surviving
  <2>4. CASE batch.outcome = "error"
    BY <2>4 DEF ToolInv, OverInv
  <2>5. CASE batch.outcome # "error" /\ call[c].pc \notin Under
    BY <2>1, <2>2, <2>3, <2>5 DEF CallOk
  <2>6. CASE batch.outcome # "error" /\ call[c].pc \in Under
    <3>1. \A d \in Calls : call[d].pc \in {"wait", "ready", "closed"}
      BY <2>6 DEF ToolInv, OverInv
    <3>2. c = Nested
      BY <2>1, <2>6, <3>1 DEF AllCalls, Under
    <3>3. Runs(Outer) /\ Outer \in Calls
      BY <2>6, <3>2 DEF ToolInv, NestInv, Under, Outer, Calls
    <3>4. CallOk(Outer, call[Outer], handler[Outer], touched[Outer])
      BY <3>3 DEF ToolInv, CallsInv, AllCalls
    <3>5. handler[Outer].left
      BY <3>1, <3>3, <3>4 DEF CallOk, Runs
    <3> QED
      BY <3>2, <3>5
  <2> QED
    BY <2>4, <2>5, <2>6
<1> QED
  BY <1>1, ToolInvariant, PTL

\* _prepare_all and execute: no handler runs without permission or ahead of its turn.
THEOREM HandlersStartInOrder == ToolSpec => []StartsInOrder
<1>1. ToolInv => StartsInOrder
  <2> SUFFICES ASSUME ToolInv, NEW c \in AllCalls, handler[c].state # "none"
               PROVE  /\ call[c].permitted
                      /\ c \in Calls => \A d \in Calls :
                           IF batch.mode = "serial" THEN d < c => call[d].outcome = "result"
                           ELSE call[d].pc \notin {"wait", "approval"}
    BY DEF StartsInOrder
  <2>1. /\ CallOk(c, call[c], handler[c], touched[c])
        /\ batch.mode \in {"serial", "concurrent"}
    BY DEF ToolInv, CallsInv, ToolTypes
  <2>2. call[c].permitted /\ call[c].pc # "wait"
    BY <2>1 DEF CallOk, Unstarted
  <2>3. ASSUME c \in Calls, batch.mode = "serial", NEW d \in Calls, d < c
        PROVE  call[d].outcome = "result"
    BY <2>2, <2>3 DEF ToolInv, SerialInv, At, HasResult, Calls
  <2>4. ASSUME c \in Calls, batch.mode = "concurrent", NEW d \in Calls
        PROVE  call[d].pc \notin {"wait", "approval"}
    BY <2>4 DEF ToolInv, ConcurrentInv
  <2> QED
    BY <2>1, <2>2, <2>3, <2>4
<1> QED
  BY <1>1, ToolInvariant, PTL

\* execute, _concurrent and _abort_unprocessed: a batch that is over, other than by an
\* error of the executor, has closed every scope, with no settlement under way in it; what
\* still runs was told to stop and left behind; results are complete, with one record each.
THEOREM NothingIsLeftRunning == ToolSpec => []NothingLeftRunning
<1>1. ToolInv /\ BarrierInv => NothingLeftRunning
  <2> SUFFICES ASSUME ToolInv, BarrierInv, Over, batch.outcome # "error", NEW c \in Calls
               PROVE  /\ call[c].pc \in {"wait", "ready", "closed"} /\ ~call[c].open
                      /\ Settles(c)
                      /\ Runs(c) => handler[c].left /\ handler[c].stop
                      /\ batch.outcome = "results" =>
                           call[c].outcome = "result" /\ call[c].records = 1
    BY DEF NothingLeftRunning
  <2>1. /\ call[c].pc \in {"wait", "ready", "closed"} /\ ~call[c].open
        /\ batch.outcome = "results" => call[c].outcome = "result"
    BY DEF ToolInv, OverInv
  <2>2. batch.outcome = "results" => call[c].records = 1
    BY <2>1 DEF ToolInv, RecordsInv
  <2>3. CallOk(c, call[c], handler[c], touched[c])
    BY DEF ToolInv, CallsInv, AllCalls
  <2>4. Runs(c) => handler[c].left /\ handler[c].stop
    BY <2>1, <2>3 DEF CallOk, Runs
  <2>5. Settles(c)
    BY <2>1, Untouched DEF BarrierInv, At, Over
  <2> QED
    BY <2>1, <2>2, <2>4, <2>5
<1> QED
  BY <1>1, ToolInvariant, PTL
=============================================================================
