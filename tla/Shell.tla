--------------------------------- MODULE Shell ---------------------------------
(***************************************************************************)
(* One call of the shell Tool (roboagent/tool/shell.py): /bin/sh runs the  *)
(* command in a session, and process group, of its own; two tasks read its *)
(* pipes.  Once the shell has exited, what still holds a pipe is           *)
(* terminated; cancelled, the whole group is.  Terminating asks first,     *)
(* waits for a grace period and then kills.  The shell runs before asyncio *)
(* has connected its pipes and returned it: a call cancelled until then is *)
(* outside of its try block, and only the shell itself is killed.  What    *)
(* the command starts may close its pipes, ignore SIGTERM, or leave the    *)
(* group for a session of its own.                                         *)
(***************************************************************************)
EXTENDS FiniteSets

CONSTANT Children   \* processes the command may start

VARIABLES
    shell,      \* where execute is
    inTry,      \* _terminate was called by the try block, not by its handler
    process,    \* per process: whether it lives, and what it has let go of
    eluded      \* history: a cancellation the clean-up of the group did not meet, for it
                \* came while the shell was being started, or once more during the clean-up

shellVars == <<shell, inTry, process, eluded>>

Sh == "sh"
Processes == Children \cup {Sh}
Made(life) == [life |-> life, pipes |-> TRUE, group |-> TRUE, deaf |-> FALSE]

ShellInit ==
    /\ shell = "refused" /\ inTry = TRUE /\ eluded = "no"
    /\ process = [p \in Processes |-> Made("none")]

Alive(p) == process[p].life = "alive"
Group == {p \in Processes : Alive(p) /\ process[p].group}
PipesOpen == \E p \in Processes : Alive(p) /\ process[p].pipes

\* The shell is started, unless the command is too large or the directory is not one.
Execute ==
    /\ shell = "refused" /\ process[Sh].life = "none"
    /\ shell' = "starting"
    /\ process' = [process EXCEPT ![Sh] = Made("alive")]
    /\ UNCHANGED <<inTry, eluded>>

\* create_subprocess_exec returns: its pipes are connected.
ShellStarted ==
    /\ shell = "starting"
    /\ shell' = "waiting"
    /\ UNCHANGED <<inTry, process, eluded>>

-----------------------------------------------------------------------------
\* The processes.

\* A process starts another one, which has what it has.
Fork(p, child) ==
    /\ Alive(p) /\ process[child].life = "none"
    /\ process' = [process EXCEPT ![child] = process[p]]
    /\ UNCHANGED <<shell, inTry, eluded>>

\* A process redirects its output, ignores SIGTERM, leaves the group, or exits.
Behave(p) ==
    /\ Alive(p)
    /\ \E next \in {[process[p] EXCEPT !.pipes = FALSE], [process[p] EXCEPT !.deaf = TRUE],
                    [process[p] EXCEPT !.life = "dead"],
                    [process[p] EXCEPT !.group = (p = Sh)]} :
          process' = [process EXCEPT ![p] = next]
    /\ UNCHANGED <<shell, inTry, eluded>>

-----------------------------------------------------------------------------
\* execute, and _terminate.

\* killpg: SIGTERM ends those that do not ignore it, SIGKILL ends them all.
Signalled(ps) == [p \in Processes |-> IF p \in ps THEN [process[p] EXCEPT !.life = "dead"]
                                                  ELSE process[p]]
Asked == {p \in Group : ~process[p].deaf}

\* Where _terminate returns to.
Terminated == IF inTry THEN "reading" ELSE "gathering"

Terminate(try) ==
    /\ inTry' = try
    /\ process' = Signalled(Asked)
    /\ shell' = IF Group = {} THEN (IF try THEN "reading" ELSE "gathering") ELSE "asking"

\* The shell has exited.  Readers that are not done say that a pipe is still open.
ParentExited ==
    /\ shell = "waiting" /\ ~Alive(Sh)
    /\ \/ PipesOpen /\ Terminate(TRUE)
       \/ ~PipesOpen /\ shell' = "reading" /\ UNCHANGED <<inTry, process>>
    /\ UNCHANGED eluded

\* Variant: only the shell itself is waited for.
ShellGone == ~Alive(Sh)

\* _group_exists
GroupGone == Group = {}

\* The group is gone within the grace period, or what is left of it is killed.
GraceEnds ==
    /\ shell = "asking"
    /\ process' = IF GroupGone THEN process ELSE Signalled(Group)
    /\ shell' = Terminated
    /\ UNCHANGED <<inTry, eluded>>

\* Both pipes have been read to their end.
ReadAll == ~PipesOpen

\* The output is complete: the result is returned, or the cancellation raised.
Answer ==
    /\ shell \in {"reading", "gathering"} /\ ReadAll
    /\ shell' = IF shell = "reading" THEN "returned" ELSE "cancelled"
    /\ UNCHANGED <<inTry, process, eluded>>

\* The call is cancelled: wherever its try block is, its handler terminates the group.
\* Cancelled again, the handler is left where it is.  Cancelled before the try block,
\* asyncio kills the process it has started, and waits for that one.
CancelShell ==
    \/ /\ shell \in {"waiting", "reading"} \/ (shell = "asking" /\ inTry)
       /\ Terminate(FALSE)
       /\ UNCHANGED eluded
    \/ /\ shell = "gathering" \/ (shell = "asking" /\ ~inTry)
       /\ shell' = "cancelled" /\ eluded' = "again"
       /\ UNCHANGED <<inTry, process>>
    \/ /\ shell = "starting"
       /\ shell' = "cancelled" /\ eluded' = "starting"
       /\ process' = Signalled({Sh})
       /\ UNCHANGED inTry

ShellNext ==
    \/ Execute \/ ShellStarted \/ ParentExited \/ GraceEnds \/ Answer \/ CancelShell
    \/ \E p \in Processes : Behave(p) \/ \E child \in Children : Fork(p, child)

ShellSpec == ShellInit /\ [][ShellNext]_shellVars

-----------------------------------------------------------------------------
\* shell.py:72-97, 154-173: a result that is returned is complete, and nothing can add to
\* it; a command that is cancelled leaves nothing of its process group running, deaf or
\* not, unless the cancellation came while the shell was still being started (the shell
\* itself is dead then, what it started may not be), or the clean-up was cancelled in
\* turn.  (A process that let go of the pipes may go on after a command that returned;
\* one in a session of its own is out of reach, and holds up the call for as long as it
\* holds a pipe.)
ShellClean ==
    /\ shell = "returned" => ~Alive(Sh) /\ ~PipesOpen
    /\ shell = "cancelled" /\ eluded = "no" => Group = {} /\ ~PipesOpen
    /\ shell = "cancelled" /\ eluded = "starting" => ~Alive(Sh)
=============================================================================
