------------------------------- MODULE McpAdapter -------------------------------
(***************************************************************************)
(* Tools of an MCP server (roboagent/mcp.py).  MCPServer holds a           *)
(* connection while the application is in its block; MCPToolAdapter makes  *)
(* Tools of what the server declares, classified by trusted local          *)
(* configuration, and translates how a call ends.  The server executes a   *)
(* call or not, whatever it answers; the connection breaks at any point.   *)
(***************************************************************************)
EXTENDS Integers

VARIABLES
    link,          \* is the client connected; and MCPServer._connected
    block,         \* the application: "out", "in" the block, or where it failed to get in
    mcpTool,       \* the Tool: local and remote kinds, error_proves_not_executed
    mcpCall,       \* the call under way
    mcpReport      \* per kind of report, history: was one given for a call that was executed

mcpVars == <<link, block, mcpTool, mcpCall, mcpReport>>

Undeclared == "undeclared"
EffectKinds == {"readOnly", "sideEffecting", Undeclared}
NoCall == [pc |-> "none", executed |-> FALSE, effect |-> "sideEffecting"]
NoReport == [outcome |-> "none", executed |-> FALSE, answered |-> "none"]

McpInit ==
    /\ link = [client |-> FALSE, connected |-> FALSE] /\ block = "out"
    /\ mcpTool \in [local : EffectKinds, remote : EffectKinds, proves : BOOLEAN]
    /\ mcpCall = NoCall /\ mcpReport = NoReport

-----------------------------------------------------------------------------
\* MCPServer.__aenter__.  The observer of the events may fail: then the block is not
\* entered, though the client is connected.
EnterServer ==
    /\ block = "out" /\ ~link.connected
    /\ \/ link' = [client |-> TRUE, connected |-> TRUE] /\ block' \in {"in", "stranded"}
       \/ UNCHANGED <<link, block>>
    /\ UNCHANGED <<mcpTool, mcpCall, mcpReport>>

\* __aexit__: whatever fails, it is noted as disconnected.
ExitServer ==
    /\ block = "in" /\ block' = "out"
    /\ \E closed \in BOOLEAN : link' = [client |-> link.client /\ ~closed, connected |-> FALSE]
    /\ UNCHANGED <<mcpTool, mcpCall, mcpReport>>

LinkBreaks ==
    /\ link.client /\ link' = [link EXCEPT !.client = FALSE]
    /\ UNCHANGED <<block, mcpTool, mcpCall, mcpReport>>

-----------------------------------------------------------------------------
\* Variant: what the server declares is believed.
DeclaredEffect ==
    IF mcpTool.remote # Undeclared THEN mcpTool.remote
    ELSE IF mcpTool.local # Undeclared THEN mcpTool.local ELSE "sideEffecting"

\* _effect_kind: the server may raise what local configuration says, never lower it.
EffectKind ==
    IF "sideEffecting" \in {mcpTool.local, mcpTool.remote} \/ mcpTool.local = Undeclared
    THEN "sideEffecting" ELSE "readOnly"

\* invoke begins: the request goes out, if it does; the Tool outlives the block.
InvokeTool ==
    /\ mcpCall.pc = "none"
    /\ mcpCall' = [NoCall EXCEPT !.pc = "sent", !.effect = EffectKind]
    /\ UNCHANGED <<link, block, mcpTool, mcpReport>>

\* The server executes it, once or not at all.
ServerExecutes ==
    /\ mcpCall.pc = "sent" /\ ~mcpCall.executed /\ link.client
    /\ mcpCall' = [mcpCall EXCEPT !.executed = TRUE]
    /\ UNCHANGED <<link, block, mcpTool, mcpReport>>

\* What becomes of an answer: an error the server declares, one of the client, an answer
\* that makes no sense.
FailureOf(answered) ==
    IF mcpCall.effect = "sideEffecting" /\ ~(answered = "error" /\ mcpTool.proves)
    THEN "unknown" ELSE "failed"

McpReturns(outcome, answered) ==
    /\ mcpReport' = [outcome |-> outcome, executed |-> mcpCall.executed, answered |-> answered]
    /\ mcpCall' = NoCall
    /\ UNCHANGED <<link, block, mcpTool>>

McpSucceeds == mcpCall.pc = "sent" /\ mcpCall.executed /\ McpReturns("succeeded", "result")
McpFails ==
    /\ mcpCall.pc = "sent"
    /\ \E answered \in {"error", "exception", "nonsense"} :
         /\ answered # "exception" => link.client
         /\ McpReturns(FailureOf(answered), answered)

\* The client itself says how the call ended.
McpClientSays ==
    mcpCall.pc = "sent" /\ \E outcome \in {"failed", "unknown"} : McpReturns(outcome, "vouched")

\* Cancelled: the exception passes through, and the executor of Tools decides.
McpCancelled == mcpCall.pc = "sent" /\ McpReturns("cancelled", "none")

McpNext ==
    \/ EnterServer \/ ExitServer \/ LinkBreaks \/ InvokeTool \/ ServerExecutes
    \/ McpSucceeds \/ McpFails \/ McpClientSays \/ McpCancelled

McpSpec == McpInit /\ [][McpNext]_mcpVars

-----------------------------------------------------------------------------
\* docs/modules/mcp.md:15-18, mcp.py:154-181 and 251-256: a call that the server executed
\* is never reported as one without effects unless local configuration says that it has
\* none and the server does not object, or that an error which the server declared proves
\* it, or the client itself vouches for it.  And who is not in the block has no connection
\* that passes for one, but for the one whose observer failed when it was made.
McpTold ==
    /\ mcpReport.executed /\ mcpReport.outcome = "failed" =>
         \/ mcpTool.local = "readOnly" /\ mcpTool.remote # "sideEffecting"
         \/ mcpTool.proves /\ mcpReport.answered = "error"
         \/ mcpReport.answered = "vouched"
    /\ link.connected => block \in {"in", "stranded"}
=============================================================================
