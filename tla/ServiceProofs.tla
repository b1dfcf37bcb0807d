---------------------------- MODULE ServiceProofs ----------------------------
(***************************************************************************)
(* Theorems about what a Run uses, for any instance of it: a Run reads the *)
(* catalogue it was bound to, an MCP call that may have been executed is   *)
(* not reported as harmless, a shell call leaves nothing behind, artifact  *)
(* references resolve; what must be shown to a Model is, and a compaction  *)
(* settles; the Model a Run resolves is one that is registered, a call of  *)
(* it refuses nothing its own adapter says, returns what was streamed and  *)
(* releases all that it acquired; what an observation committed is known   *)
(* to the execution; a patch spares what others wrote, reports what it     *)
(* left and, turned round, gives the text back; a listing is what there is *)
(* as far as it goes, and a write is whole.  Each with its inductive       *)
(* invariant; what is computed in rounds is reasoned about by the first    *)
(* round that fails (HasLeast).                                            *)
(***************************************************************************)
EXTENDS PerceptionProofs

-----------------------------------------------------------------------------
\* Skills.

\* What a Run was started with stays as it was, and what was read is by a Run that started.
SkillsInv ==
    /\ skillRun = [r \in SkillRuns |-> skillRun[r]]
    /\ \A r \in SkillRuns :
         skillRun[r] = [phase |-> skillRun[r].phase, catalog |-> skillRun[r].catalog]
    /\ skillRead.active => skillRead.run \in SkillRuns /\ skillRun[skillRead.run].phase # "new"
    /\ SkillsPinned

LEMMA SkillsInitSafe == SkillsInit => SkillsInv
<1> SUFFICES ASSUME SkillsInit PROVE SkillsInv
  OBVIOUS
<1>1. /\ \A r \in SkillRuns : skillRun[r] = [phase |-> "new", catalog |-> NoCatalog]
      /\ skillRun = [r \in SkillRuns |-> skillRun[r]]
  BY DEF SkillsInit
<1>2. DOMAIN bound = {} /\ ~skillRead.active
  BY DEF SkillsInit, NotRead
<1> QED
  BY <1>1, <1>2 DEF SkillsInv, SkillsPinned

LEMMA StartSkillRunSafe ==
    ASSUME SkillsInv, NEW r \in SkillRuns, StartSkillRun(r) PROVE SkillsInv'
<1>1. \A q \in SkillRuns \ {r} : skillRun'[q] = skillRun[q]
  BY DEF StartSkillRun, SkillsInv
<1>2. /\ skillRun' = [q \in SkillRuns |-> skillRun'[q]]
      /\ \A q \in SkillRuns :
           skillRun'[q] = [phase |-> skillRun'[q].phase, catalog |-> skillRun'[q].catalog]
      /\ skillRun'[r].phase \in {"active", "over"} /\ skillRun[r].phase = "new"
  BY DEF StartSkillRun, SkillsInv
<1>3. skillRead.active => skillRead.run # r
  BY <1>2 DEF SkillsInv
<1>4. CASE skillRun'[r].phase = "active"
  <2>1. /\ DOMAIN bound' = DOMAIN bound \cup {r} /\ bound'[r] = skillRun'[r].catalog
        /\ \A q \in DOMAIN bound \ {r} : bound'[q] = bound[q]
    BY <1>4 DEF StartSkillRun, SkillsInv
  <2> QED
    BY <1>1, <1>2, <1>3, <1>4, <2>1 DEF StartSkillRun, SkillsInv, SkillsPinned
<1>5. CASE skillRun'[r].phase = "over"
  <2>1. bound' = bound
    BY <1>5 DEF StartSkillRun, SkillsInv
  <2> QED
    BY <1>1, <1>2, <1>3, <1>5, <2>1 DEF StartSkillRun, SkillsInv, SkillsPinned
<1> QED
  BY <1>2, <1>4, <1>5

LEMMA EndSkillRunSafe ==
    ASSUME SkillsInv, NEW r \in SkillRuns, EndSkillRun(r) PROVE SkillsInv'
<1>1. \A q \in SkillRuns \ {r} : skillRun'[q] = skillRun[q]
  BY DEF EndSkillRun, SkillsInv
<1>2. /\ skillRun' = [q \in SkillRuns |-> skillRun'[q]]
      /\ \A q \in SkillRuns :
           skillRun'[q] = [phase |-> skillRun'[q].phase, catalog |-> skillRun'[q].catalog]
      /\ skillRun'[r].phase = "over" /\ skillRun'[r].catalog = skillRun[r].catalog
  BY DEF EndSkillRun, SkillsInv
<1>3. /\ DOMAIN bound' = DOMAIN bound \ {r}
      /\ \A q \in DOMAIN bound' : bound'[q] = bound[q]
  BY DEF EndSkillRun
<1> QED
  BY <1>1, <1>2, <1>3 DEF EndSkillRun, SkillsInv, SkillsPinned

LEMMA ReadSkillSafe ==
    ASSUME SkillsInv, NEW r \in SkillRuns, NEW name, ReadSkill(r, name) PROVE SkillsInv'
<1>1. /\ skillRead'.run = r /\ skillRead'.name = name
      /\ skillRead'.active = (skillRun[r].phase = "active")
      /\ skillRead'.body = IF name \in DOMAIN CatalogOf(r) THEN CatalogOf(r)[name] ELSE 0
  BY DEF ReadSkill
<1>2. skillRun[r].phase = "active" => CatalogOf(r) = skillRun[r].catalog
  BY DEF CatalogOf, SkillsInv, SkillsPinned
<1>3. skillRun[r].phase # "new" /\ UNCHANGED <<bound, skillRun>>
  BY DEF ReadSkill
<1> QED
  BY <1>1, <1>2, <1>3 DEF SkillsInv, SkillsPinned

LEMMA SkillsNextSafe ==
    ASSUME SkillsInv, [SkillsNext]_skillVars PROVE SkillsInv'
<1>1. CASE ReloadProject \/ ReloadUser \/ EditSkill \/ UNCHANGED skillVars
  <2>1. UNCHANGED <<bound, skillRun, skillRead>>
    BY <1>1 DEF ReloadProject, ReloadUser, EditSkill, skillVars
  <2> QED
    BY <2>1 DEF SkillsInv, SkillsPinned
<1> QED
  BY <1>1, StartSkillRunSafe, EndSkillRunSafe, ReadSkillSafe DEF SkillsNext

\* manager.py:50-64, docs/modules/skill.md:7-9: whatever is edited and reloaded, an active
\* Run reads from the revision that its prompt shows, and no revision is kept for others.
THEOREM RunsReadTheirCatalog == SkillsSpec => []SkillsPinned
<1>1. SkillsInv => SkillsPinned
  BY DEF SkillsInv
<1> QED
  BY <1>1, SkillsInitSafe, SkillsNextSafe, PTL DEF SkillsSpec

-----------------------------------------------------------------------------
\* The MCP adapter.

\* The kind of a call under way is one the Tool was given, and a connection is the block's.
McpInv ==
    /\ mcpTool.local \in EffectKinds /\ mcpTool.remote \in EffectKinds
    /\ mcpCall.pc \in {"none", "sent"}
    /\ mcpCall.pc = "sent" => mcpCall.effect = EffectKind
    /\ block \in {"out", "in", "stranded"}
    /\ McpTold

LEMMA McpInitSafe == McpInit => McpInv
  BY DEF McpInit, McpInv, McpTold, NoCall, NoReport

LEMMA McpReturnsSafe ==
    ASSUME McpInv, mcpCall.pc = "sent", NEW outcome, NEW answered, McpReturns(outcome, answered),
           outcome = "failed" => \/ answered = "vouched"
                                 \/ FailureOf(answered) = "failed"
    PROVE  McpInv'
<1>1. /\ mcpReport'.outcome = outcome /\ mcpReport'.answered = answered
      /\ mcpCall' = NoCall /\ UNCHANGED <<link, block, mcpTool>>
  BY DEF McpReturns
<1>2. outcome = "failed" /\ answered # "vouched" =>
         \/ mcpTool.local = "readOnly" /\ mcpTool.remote # "sideEffecting"
         \/ mcpTool.proves /\ answered = "error"
  BY DEF McpInv, FailureOf, EffectKind, EffectKinds, Undeclared
<1> QED
  BY <1>1, <1>2 DEF McpInv, McpTold, NoCall

LEMMA McpNextSafe ==
    ASSUME McpInv, [McpNext]_mcpVars PROVE McpInv'
<1>1. CASE EnterServer \/ ExitServer
  BY <1>1 DEF EnterServer, ExitServer, McpInv, McpTold, EffectKind
<1>2. CASE LinkBreaks
  BY <1>2 DEF LinkBreaks, McpInv, McpTold, EffectKind
<1>3. CASE InvokeTool
  BY <1>3 DEF InvokeTool, McpInv, McpTold, EffectKind, NoCall
<1>4. CASE ServerExecutes
  BY <1>4 DEF ServerExecutes, McpInv, McpTold, EffectKind
<1>5. CASE McpSucceeds
  BY <1>5, McpReturnsSafe DEF McpSucceeds
<1>6. CASE McpFails
  BY <1>6, McpReturnsSafe DEF McpFails
<1>7. CASE McpClientSays
  BY <1>7, McpReturnsSafe DEF McpClientSays
<1>8. CASE McpCancelled
  BY <1>8, McpReturnsSafe DEF McpCancelled
<1>9. CASE UNCHANGED mcpVars
  BY <1>9 DEF mcpVars, McpInv, McpTold, EffectKind
<1> QED
  BY <1>1, <1>2, <1>3, <1>4, <1>5, <1>6, <1>7, <1>8, <1>9 DEF McpNext

\* mcp.py:154-181, 251-256: a call that the server executed is never reported as one without
\* effects, unless configuration, a proof or the client vouches for it.
THEOREM NothingDenied == McpSpec => []McpTold
<1>1. McpInv => McpTold
  BY DEF McpInv
<1> QED
  BY <1>1, McpInitSafe, McpNextSafe, PTL DEF McpSpec

-----------------------------------------------------------------------------
\* The shell.

ProcessRecords == [life : {"none", "alive", "dead"}, pipes : BOOLEAN, group : BOOLEAN,
                   deaf : BOOLEAN]

NobodyYet == \A p \in Processes : ~Alive(p)

\* The shell is the leader of its group and dead once its pipes are read; past the
\* termination of the group nobody is in it.
ShellInv ==
    /\ process \in [Processes -> ProcessRecords]
    /\ inTry \in BOOLEAN /\ eluded \in {"no", "starting", "again"}
    /\ process[Sh].group
    /\ process[Sh].life = "none" => shell = "refused" /\ NobodyYet
    /\ shell \in {"reading", "returned"} \/ (shell = "asking" /\ inTry) => ~Alive(Sh)
    /\ shell = "cancelled" /\ eluded = "starting" => ~Alive(Sh)
    /\ shell = "gathering" \/ (shell = "cancelled" /\ eluded = "no") => Group = {}
    /\ shell = "returned" \/ (shell = "cancelled" /\ eluded = "no") => ~PipesOpen

LEMMA ShellInitSafe == ShellInit => ShellInv
<1> SUFFICES ASSUME ShellInit PROVE ShellInv
  OBVIOUS
<1>1. process \in [Processes -> ProcessRecords] /\ Sh \in Processes
  BY DEF ShellInit, Made, ProcessRecords, Processes
<1>2. \A p \in Processes : process[p].life = "none" /\ process[p].group
  BY DEF ShellInit, Made
<1>3. NobodyYet /\ Group = {} /\ ~PipesOpen /\ ~Alive(Sh)
  BY <1>1, <1>2 DEF NobodyYet, Group, PipesOpen, Alive
<1> QED
  BY <1>1, <1>2, <1>3 DEF ShellInit, ShellInv

\* Processes that only let go: nobody comes to life, joins the group or opens a pipe.
Fading(new) ==
    /\ new \in [Processes -> ProcessRecords]
    /\ \A p \in Processes :
         /\ new[p].life = "alive" => process[p].life = "alive"
         /\ new[p].life = "none" <=> process[p].life = "none"
         /\ new[p].group => process[p].group
         /\ new[p].pipes => process[p].pipes
    /\ new[Sh].group

LEMMA SignalledFades ==
    ASSUME ShellInv, NEW ps, \A p \in ps : Alive(p)
    PROVE  /\ Fading(Signalled(ps))
           /\ \A p \in Processes \cap ps : Signalled(ps)[p].life = "dead"
<1>1. \A p \in Processes : [process[p] EXCEPT !.life = "dead"] =
         [life |-> "dead", pipes |-> process[p].pipes, group |-> process[p].group,
          deaf |-> process[p].deaf]
  BY DEF ShellInv, ProcessRecords
<1>2. Sh \in Processes
  BY DEF Processes
<1>3. Signalled(ps) \in [Processes -> ProcessRecords]
  BY <1>1 DEF ShellInv, Signalled, ProcessRecords
<1>4. \A p \in Processes :
         /\ Signalled(ps)[p].life = IF p \in ps THEN "dead" ELSE process[p].life
         /\ Signalled(ps)[p].group = process[p].group
         /\ Signalled(ps)[p].pipes = process[p].pipes
  BY <1>1 DEF Signalled
<1>5. \A p \in ps : process[p].life = "alive"
  BY DEF Alive
<1> QED
  BY <1>2, <1>3, <1>4, <1>5 DEF ShellInv, Fading

\* What lets go keeps what was let go of.
LEMMA FadingKeeps ==
    ASSUME ShellInv, Fading(process'), UNCHANGED <<shell, inTry, eluded>>
    PROVE  ShellInv'
<1>1. /\ Alive(Sh)' => Alive(Sh)
      /\ Group = {} => Group' = {}
      /\ PipesOpen' => PipesOpen
      /\ process'[Sh].life = "none" => process[Sh].life = "none"
      /\ NobodyYet => NobodyYet'
  BY DEF Fading, Alive, Group, PipesOpen, Processes, NobodyYet
<1> QED
  BY <1>1 DEF ShellInv, Fading

LEMMA BehaveSafe == ASSUME ShellInv, NEW p \in Processes, Behave(p) PROVE ShellInv'
<1>1. PICK next \in {[process[p] EXCEPT !.pipes = FALSE], [process[p] EXCEPT !.deaf = TRUE],
                     [process[p] EXCEPT !.life = "dead"],
                     [process[p] EXCEPT !.group = (p = Sh)]} :
          process' = [process EXCEPT ![p] = next]
  BY DEF Behave
<1>2. process[p] \in ProcessRecords /\ process[p].life = "alive" /\ process[Sh].group
  BY DEF ShellInv, Behave, Alive
<1>3. /\ next \in ProcessRecords
      /\ next.life \in {"dead", "alive"} /\ (next.pipes => process[p].pipes)
      /\ next.group => process[p].group
      /\ p = Sh => next.group
  <2>1. CASE next = [process[p] EXCEPT !.pipes = FALSE]
    BY <1>2, <2>1 DEF ProcessRecords
  <2>2. CASE next = [process[p] EXCEPT !.deaf = TRUE]
    BY <1>2, <2>2 DEF ProcessRecords
  <2>3. CASE next = [process[p] EXCEPT !.life = "dead"]
    BY <1>2, <2>3 DEF ProcessRecords
  <2>4. CASE next = [process[p] EXCEPT !.group = (p = Sh)]
    BY <1>2, <2>4 DEF ProcessRecords
  <2> QED
    BY <1>1, <2>1, <2>2, <2>3, <2>4
<1>4. Fading(process')
  BY <1>1, <1>2, <1>3 DEF Fading, ShellInv, Processes
<1> QED
  BY <1>4, FadingKeeps DEF Behave

LEMMA ForkSafe ==
    ASSUME ShellInv, NEW p \in Processes, NEW child \in Children, Fork(p, child)
    PROVE  ShellInv'
<1>1. /\ process' \in [Processes -> ProcessRecords]
      /\ process'[child] = process[p]
      /\ \A q \in Processes \ {child} : process'[q] = process[q]
      /\ child \in Processes /\ Sh \in Processes
      /\ Alive(p) /\ process[child].life = "none"
      /\ UNCHANGED <<shell, inTry, eluded>>
  BY DEF Fork, ShellInv, Processes
<1>2. child # Sh /\ process[Sh].life # "none"
  BY <1>1 DEF ShellInv, NobodyYet
<1>3. Group = {} => Group' = {}
  BY <1>1 DEF Group, Alive
<1>4. PipesOpen' => PipesOpen
  BY <1>1 DEF PipesOpen, Alive
<1> QED
  BY <1>1, <1>2, <1>3, <1>4 DEF ShellInv, Alive

LEMMA ShellStartedSafe == ASSUME ShellInv, ShellStarted PROVE ShellInv'
<1>1. /\ UNCHANGED <<process, inTry, eluded, Alive(Sh), Group, PipesOpen, NobodyYet>>
      /\ shell = "starting" /\ shell' = "waiting"
  BY DEF ShellStarted, Alive, Group, PipesOpen, NobodyYet
<1> QED
  BY <1>1 DEF ShellInv

LEMMA ExecuteSafe == ASSUME ShellInv, Execute PROVE ShellInv'
<1>1. process' \in [Processes -> ProcessRecords] /\ Sh \in Processes
  BY DEF Execute, ShellInv, ProcessRecords, Processes, Made
<1>2. process'[Sh].group /\ process'[Sh].life = "alive"
  BY <1>1 DEF Execute, ShellInv, Made
<1> QED
  BY <1>1, <1>2 DEF Execute, ShellInv

-----------------------------------------------------------------------------
\* Terminating.

LEMMA TerminateSafe ==
    ASSUME ShellInv, shell # "refused", NEW try \in BOOLEAN, Terminate(try), UNCHANGED eluded,
           try => ~Alive(Sh)
    PROVE  ShellInv'
<1>1. Fading(process') /\ inTry' = try
  BY SignalledFades DEF Terminate, Asked, Group
<1>2. /\ Alive(Sh)' => Alive(Sh)
      /\ Group = {} => Group' = {}
      /\ process'[Sh].life = "none" => process[Sh].life = "none"
  BY <1>1 DEF Fading, Alive, Group, Processes
<1>3. process[Sh].life # "none"
  BY DEF ShellInv
<1>4. shell' \in {"reading", "gathering", "asking"}
      /\ (shell' = "gathering" => Group = {}) /\ (shell' = "reading" => try)
  BY DEF Terminate
<1> QED
  BY <1>1, <1>2, <1>3, <1>4 DEF ShellInv, Fading

LEMMA ParentExitedSafe == ASSUME ShellInv, ParentExited PROVE ShellInv'
<1>1. CASE PipesOpen /\ Terminate(TRUE)
  BY <1>1, TerminateSafe DEF ParentExited
<1>2. CASE shell' = "reading" /\ UNCHANGED <<inTry, process>>
  <2>1. /\ UNCHANGED <<process, Alive(Sh), Group, PipesOpen, NobodyYet>>
        /\ shell = "waiting" /\ ~Alive(Sh) /\ UNCHANGED eluded
    BY <1>2 DEF ParentExited, Alive, Group, PipesOpen, NobodyYet
  <2> QED
    BY <1>2, <2>1 DEF ShellInv
<1> QED
  BY <1>1, <1>2 DEF ParentExited

LEMMA GraceEndsSafe == ASSUME ShellInv, GraceEnds PROVE ShellInv'
<1>1. \A p \in Group : Alive(p)
  BY DEF Group
<1>2. Fading(process') /\ Group' = {}
  <2>1. CASE Group = {}
    BY <2>1, <1>1 DEF GraceEnds, GroupGone, Fading, ShellInv, Group, Alive
  <2>2. CASE Group # {}
    <3>1. process' = Signalled(Group)
      BY <2>2 DEF GraceEnds, GroupGone
    <3>2. Fading(process') /\ \A p \in Processes \cap Group : process'[p].life = "dead"
      BY <3>1, <1>1, SignalledFades
    <3> QED
      BY <3>2 DEF Fading, Group, Alive
  <2> QED
    BY <2>1, <2>2
<1>3. /\ Alive(Sh)' => Alive(Sh)
      /\ process'[Sh].life = "none" => process[Sh].life = "none"
  BY <1>2 DEF Fading, Alive, Processes
<1>4. /\ shell' = (IF inTry THEN "reading" ELSE "gathering") /\ shell = "asking"
      /\ UNCHANGED <<inTry, eluded>>
  BY DEF GraceEnds, Terminated
<1> QED
  BY <1>2, <1>3, <1>4 DEF ShellInv, Fading

LEMMA AnswerSafe == ASSUME ShellInv, Answer PROVE ShellInv'
<1>1. /\ UNCHANGED <<process, inTry, eluded, Alive(Sh), Group, PipesOpen, NobodyYet>>
      /\ shell \in {"reading", "gathering"} /\ ~PipesOpen
      /\ shell' = IF shell = "reading" THEN "returned" ELSE "cancelled"
  BY DEF Answer, ReadAll, Alive, Group, PipesOpen, NobodyYet
<1>2. Group = {} => ~Alive(Sh)
  BY DEF ShellInv, Group, Processes
<1> QED
  BY <1>1, <1>2 DEF ShellInv

LEMMA CancelShellSafe == ASSUME ShellInv, CancelShell PROVE ShellInv'
<1>1. CASE Terminate(FALSE) /\ UNCHANGED eluded
  BY <1>1, TerminateSafe DEF CancelShell
<1>2. CASE shell' = "cancelled" /\ eluded' = "again" /\ UNCHANGED <<inTry, process>>
  <2>1. /\ UNCHANGED <<Alive(Sh), Group, PipesOpen, NobodyYet>>
        /\ shell # "refused"
    BY <1>2 DEF CancelShell, Alive, Group, PipesOpen, NobodyYet
  <2> QED
    BY <1>2, <2>1 DEF ShellInv
<1>3. CASE shell = "starting" /\ shell' = "cancelled" /\ eluded' = "starting"
           /\ process' = Signalled({Sh}) /\ UNCHANGED inTry
  <2>1. process[Sh].life # "none" /\ Sh \in Processes
    BY <1>3 DEF ShellInv, Processes
  <2>2. process[Sh] \in ProcessRecords
    BY <2>1 DEF ShellInv
  <2>3. [process[Sh] EXCEPT !.life = "dead"] =
           [life |-> "dead", pipes |-> process[Sh].pipes, group |-> process[Sh].group,
            deaf |-> process[Sh].deaf]
    BY <2>2 DEF ProcessRecords
  <2>4. /\ process' \in [Processes -> ProcessRecords]
        /\ process'[Sh].life = "dead" /\ process'[Sh].group
    BY <1>3, <2>1, <2>2, <2>3 DEF ShellInv, Signalled, ProcessRecords
  <2> QED
    BY <1>3, <2>4 DEF ShellInv, Alive
<1> QED
  BY <1>1, <1>2, <1>3 DEF CancelShell

LEMMA ShellNextSafe == ASSUME ShellInv, [ShellNext]_shellVars PROVE ShellInv'
<1>1. CASE UNCHANGED shellVars
  BY <1>1 DEF shellVars, ShellInv, Alive, Group, PipesOpen, NobodyYet
<1> QED
  BY <1>1, ExecuteSafe, ShellStartedSafe, ParentExitedSafe, GraceEndsSafe, AnswerSafe, CancelShellSafe,
     BehaveSafe, ForkSafe DEF ShellNext

\* shell.py:72-97, 154-173: what is returned is complete and nothing can add to it, and a
\* command that was cancelled leaves nothing of its process group running; if it was being
\* started, at least not its shell; if its clean-up was cancelled too, whatever there is.
THEOREM ShellLeavesNothing == ShellSpec => []ShellClean
<1>1. ShellInv => ShellClean
  BY DEF ShellInv, ShellClean
<1> QED
  BY <1>1, ShellInitSafe, ShellNextSafe, PTL DEF ShellSpec

-----------------------------------------------------------------------------
\* Artifacts.

WriterRecords ==
    [kind : {"materialize", "promote"},
     pc : {"begin", "replace", "sync", "chunks", "publish", "abort", "over"},
     temporary : BOOLEAN, size : 0..Chunks, appending : BOOLEAN, cancelled : BOOLEAN,
     answer : {"none", "ok", "error", "cancelled", "dead"}, made : BOOLEAN]

BlobRecords == [now : {"none", "part", "whole"}, data : BOOLEAN, cut : SUBSET {"none", "part", "whole"}]

\* What _write put in place and answered for is the blob, whatever is cut off.
Settled(b) == b = [now |-> "whole", data |-> TRUE, cut |-> {"whole"}]

\* How a call stands to the blob b, cuts being the power cuts so far.
WriterSound(x, b, cuts) ==
    /\ x.pc \in {"begin", "sync"} => ~x.temporary
    /\ x.pc \in {"begin", "replace", "chunks", "publish"} => ~x.made
    /\ x.pc \in {"begin", "replace", "publish"} => ~x.appending
    /\ x.pc = "publish" => x.size = Chunks
    /\ x.pc = "sync" => b.now = "whole" /\ (x.made => b.data)
    /\ x.pc # "over" => x.answer = "none"
    /\ x.pc = "over" /\ x.answer # "dead" => ~x.temporary
    /\ x.answer = "ok" /\ x.made => Settled(b)
    /\ x.answer = "ok" /\ cuts = 0 => b.now = "whole"

\* Before the first power cut nothing is half there.
ArtifactsInv ==
    /\ blob \in BlobRecords /\ powerCuts \in Nat
    /\ writer \in [Writers -> WriterRecords]
    /\ powerCuts = 0 => blob.now # "part"
    /\ \A w \in Writers : WriterSound(writer[w], blob, powerCuts)

LEMMA ArtifactsInitSafe == ArtifactsInit => ArtifactsInv
<1> SUFFICES ASSUME ArtifactsInit PROVE ArtifactsInv
  OBVIOUS
<1>1. \A k \in {"materialize", "promote"} :
         NewWriter(k) \in WriterRecords /\ WriterSound(NewWriter(k), NoBlob, 0)
  BY ArtifactsAssumption DEF NewWriter, WriterRecords, WriterSound
<1>2. NoBlob \in BlobRecords
  BY DEF NoBlob, BlobRecords
<1> QED
  BY <1>1, <1>2 DEF ArtifactsInit, ArtifactsInv, NoBlob

\* A blob that is whole stays whole, and one that is settled stays settled; nothing is
\* left of it in part.
Better(b, c) ==
    /\ c \in BlobRecords
    /\ b.now = "whole" => c.now = "whole" /\ (b.data => c.data)
    /\ Settled(b) => Settled(c)
    /\ b.now # "part" => c.now # "part"

LEMMA SameIsBetter == ASSUME ArtifactsInv PROVE Better(blob, blob)
  BY DEF ArtifactsInv, Better

\* One call moves, and the blob is the better for it.
LEMMA WriterMovesSafe ==
    ASSUME ArtifactsInv, NEW w \in Writers, NEW x \in WriterRecords,
           WriterMoves(w, x), Better(blob, blob'), WriterSound(x, blob', powerCuts),
           UNCHANGED powerCuts
    PROVE  ArtifactsInv'
<1>1. /\ writer' \in [Writers -> WriterRecords] /\ writer'[w] = x
      /\ \A v \in Writers \ {w} : writer'[v] = writer[v]
  BY DEF WriterMoves, ArtifactsInv
<1>2. \A v \in Writers \ {w} : WriterSound(writer[v], blob', powerCuts)
  BY DEF ArtifactsInv, WriterSound, Better
<1>3. \A v \in Writers : WriterSound(writer'[v], blob', powerCuts')
  BY <1>1, <1>2
<1> QED
  BY <1>1, <1>3 DEF ArtifactsInv, Better

LEMMA WriteBlobSafe == ASSUME ArtifactsInv, NEW w \in Writers, WriteBlob(w) PROVE ArtifactsInv'
<1> DEFINE x == writer[w]
<1>1. x \in WriterRecords /\ x.pc = "begin" /\ WriterSound(x, blob, powerCuts)
  BY DEF ArtifactsInv, WriteBlob, WriterAt
<1>2. Chunks \in 0..Chunks /\ Better(blob, blob')
  BY ArtifactsAssumption, SameIsBetter DEF WriteBlob
<1> DEFINE Moves(y) == y \in WriterRecords /\ WriterSound(y, blob, powerCuts)
<1>3. CASE blob.now # "none" /\ WriterEnds(w, IF blob.now = "whole" THEN "ok" ELSE "error")
  <2>1. PICK a \in {"ok", "error"} : WriterEnds(w, a) /\ (a = "ok" => blob.now = "whole")
    BY <1>3
  <2>2. Moves([x EXCEPT !.pc = "over", !.answer = a])
    BY <1>1, <2>1 DEF WriterRecords, WriterSound
  <2> QED
    BY <1>2, <2>1, <2>2, WriterMovesSafe DEF WriterEnds, WriteBlob
<1>4. CASE WriterMoves(w, [x EXCEPT !.pc = "replace", !.temporary = TRUE, !.size = Chunks])
  <2>1. Moves([x EXCEPT !.pc = "replace", !.temporary = TRUE, !.size = Chunks])
    BY <1>1, <1>2 DEF WriterRecords, WriterSound
  <2> QED
    BY <1>2, <1>4, <2>1, WriterMovesSafe DEF WriteBlob
<1>5. CASE WriterEnds(w, "error")
  <2>1. Moves([x EXCEPT !.pc = "over", !.answer = "error"])
    BY <1>1 DEF WriterRecords, WriterSound
  <2> QED
    BY <1>2, <1>5, <2>1, WriterMovesSafe DEF WriterEnds, WriteBlob
<1> QED
  BY <1>3, <1>4, <1>5 DEF WriteBlob

LEMMA ReplaceBlobSafe == ASSUME ArtifactsInv, NEW w \in Writers, ReplaceBlob(w) PROVE ArtifactsInv'
<1> DEFINE x == writer[w]
<1>1. /\ x \in WriterRecords /\ x.pc = "replace" /\ WriterSound(x, blob, powerCuts)
      /\ UNCHANGED powerCuts /\ blob \in BlobRecords
  BY DEF ArtifactsInv, ReplaceBlob, WriterAt
<1>2. CASE /\ blob' = [now |-> "whole", data |-> TRUE, cut |-> blob.cut \cup {"whole"}]
           /\ WriterMoves(w, [x EXCEPT !.pc = "sync", !.temporary = FALSE, !.made = TRUE])
  <2>1. Better(blob, blob')
    <3>1. blob.cut \in SUBSET {"none", "part", "whole"}
      BY <1>1 DEF BlobRecords
    <3>2. blob.cut \cup {"whole"} \in SUBSET {"none", "part", "whole"}
      BY <3>1
    <3>3. blob' \in BlobRecords
      BY <1>2, <3>2 DEF BlobRecords
    <3>4. Settled(blob) => blob.cut \cup {"whole"} = {"whole"}
      BY DEF Settled
    <3>5. blob.cut \cup {"whole"} = {"whole"} => Settled(blob')
      BY <1>2 DEF Settled
    <3>6. blob'.now = "whole" /\ blob'.data
      BY <1>2
    <3> QED
      BY <3>3, <3>4, <3>5, <3>6 DEF Better
  <2>2. /\ [x EXCEPT !.pc = "sync", !.temporary = FALSE, !.made = TRUE] \in WriterRecords
        /\ WriterSound([x EXCEPT !.pc = "sync", !.temporary = FALSE, !.made = TRUE], blob', powerCuts)
    BY <1>1, <1>2 DEF WriterRecords, WriterSound
  <2> QED
    BY <1>1, <1>2, <2>1, <2>2, WriterMovesSafe
<1>3. CASE WriterGoto(w, "abort") /\ UNCHANGED blob
  <2>1. /\ [x EXCEPT !.pc = "abort"] \in WriterRecords
        /\ WriterSound([x EXCEPT !.pc = "abort"], blob, powerCuts)
    BY <1>1 DEF WriterRecords, WriterSound
  <2> QED
    BY <1>1, <1>3, <2>1, SameIsBetter, WriterMovesSafe DEF WriterGoto
<1> QED
  BY <1>2, <1>3 DEF ReplaceBlob

LEMMA SyncDirectorySafe == ASSUME ArtifactsInv, NEW w \in Writers, SyncDirectory(w) PROVE ArtifactsInv'
<1> DEFINE x == writer[w]
<1>1. /\ x \in WriterRecords /\ x.pc = "sync" /\ WriterSound(x, blob, powerCuts)
      /\ UNCHANGED powerCuts /\ blob \in BlobRecords
  BY DEF ArtifactsInv, SyncDirectory, WriterAt
<1>2. CASE /\ blob' = [blob EXCEPT !.cut = IF blob.data THEN {blob.now} ELSE {"part", "whole"}]
           /\ WriterEnds(w, "ok")
  <2>1. blob.now = "whole" /\ (x.made => blob.data)
    BY <1>1 DEF WriterSound
  <2>2. blob' = [now |-> "whole", data |-> blob.data,
                 cut |-> IF blob.data THEN {"whole"} ELSE {"part", "whole"}]
    BY <1>1, <1>2, <2>1 DEF BlobRecords
  <2>3. Better(blob, blob') /\ (x.made => Settled(blob')) /\ blob'.now = "whole"
    <3> DEFINE cut == IF blob.data THEN {"whole"} ELSE {"part", "whole"}
    <3>1. cut \in SUBSET {"none", "part", "whole"} /\ blob.data \in BOOLEAN
      BY <1>1 DEF BlobRecords
    <3>2. blob' = [now |-> "whole", data |-> blob.data, cut |-> cut]
      BY <2>2
    <3> HIDE DEF cut
    <3>3. blob' \in BlobRecords /\ blob'.now = "whole" /\ blob'.data = blob.data
      BY <3>1, <3>2 DEF BlobRecords
    <3>4. blob.data => Settled(blob')
      BY <3>2 DEF Settled, cut
    <3>5. Settled(blob) => blob.data
      BY DEF Settled
    <3> QED
      BY <2>1, <3>3, <3>4, <3>5 DEF Better
  <2>4. /\ [x EXCEPT !.pc = "over", !.answer = "ok"] \in WriterRecords
        /\ WriterSound([x EXCEPT !.pc = "over", !.answer = "ok"], blob', powerCuts)
    BY <1>1, <2>3 DEF WriterRecords, WriterSound
  <2> QED
    BY <1>1, <1>2, <2>3, <2>4, WriterMovesSafe DEF WriterEnds
<1>3. CASE WriterGoto(w, "abort") /\ UNCHANGED blob
  <2>1. /\ [x EXCEPT !.pc = "abort"] \in WriterRecords
        /\ WriterSound([x EXCEPT !.pc = "abort"], blob, powerCuts)
    BY <1>1 DEF WriterRecords, WriterSound
  <2> QED
    BY <1>1, <1>3, <2>1, SameIsBetter, WriterMovesSafe DEF WriterGoto
<1> QED
  BY <1>2, <1>3 DEF SyncDirectory

LEMMA NextChunkSafe == ASSUME ArtifactsInv, NEW w \in Writers, NextChunk(w) PROVE ArtifactsInv'
<1> DEFINE x == writer[w]
<1>1. /\ x \in WriterRecords /\ WriterSound(x, blob, powerCuts) /\ Better(blob, blob')
      /\ UNCHANGED <<blob, powerCuts>>
  BY SameIsBetter DEF ArtifactsInv, NextChunk
<1>2. CASE WriterAt(w, "begin") /\ WriterMoves(w, [x EXCEPT !.pc = "chunks", !.temporary = TRUE])
  <2>1. /\ [x EXCEPT !.pc = "chunks", !.temporary = TRUE] \in WriterRecords
        /\ WriterSound([x EXCEPT !.pc = "chunks", !.temporary = TRUE], blob, powerCuts)
    BY <1>1, <1>2 DEF WriterRecords, WriterSound, WriterAt
  <2> QED
    BY <1>1, <1>2, <2>1, WriterMovesSafe
<1>3. CASE WriterAt(w, "begin") /\ WriterEnds(w, "error")
  <2>1. /\ [x EXCEPT !.pc = "over", !.answer = "error"] \in WriterRecords
        /\ WriterSound([x EXCEPT !.pc = "over", !.answer = "error"], blob, powerCuts)
    BY <1>1, <1>3 DEF WriterRecords, WriterSound, WriterAt
  <2> QED
    BY <1>1, <1>3, <2>1, WriterMovesSafe DEF WriterEnds
<1>4. CASE WriterAt(w, "chunks") /\ WriterGoto(w, "abort")
  <2>1. /\ [x EXCEPT !.pc = "abort"] \in WriterRecords
        /\ WriterSound([x EXCEPT !.pc = "abort"], blob, powerCuts)
    BY <1>1, <1>4 DEF WriterRecords, WriterSound, WriterAt
  <2> QED
    BY <1>1, <1>4, <2>1, WriterMovesSafe DEF WriterGoto
<1>5. CASE WriterAt(w, "chunks") /\ WriterMoves(w, [x EXCEPT !.appending = TRUE])
  <2>1. /\ [x EXCEPT !.appending = TRUE] \in WriterRecords
        /\ WriterSound([x EXCEPT !.appending = TRUE], blob, powerCuts)
    BY <1>1, <1>5 DEF WriterRecords, WriterSound, WriterAt
  <2> QED
    BY <1>1, <1>5, <2>1, WriterMovesSafe
<1>6. CASE WriterAt(w, "chunks") /\ ~x.appending /\ x.size = Chunks /\ WriterGoto(w, "publish")
  <2>1. /\ [x EXCEPT !.pc = "publish"] \in WriterRecords
        /\ WriterSound([x EXCEPT !.pc = "publish"], blob, powerCuts)
    BY <1>1, <1>6 DEF WriterRecords, WriterSound, WriterAt
  <2> QED
    BY <1>1, <1>6, <2>1, WriterMovesSafe DEF WriterGoto
<1> QED
  BY <1>2, <1>3, <1>4, <1>5, <1>6 DEF NextChunk

LEMMA AppendChunkSafe ==
    ASSUME ArtifactsInv, NEW w \in Writers, AppendChunk(w) \/ AppendChunkFails(w)
    PROVE  ArtifactsInv'
<1> DEFINE x == writer[w]
<1>1. /\ x \in WriterRecords /\ WriterSound(x, blob, powerCuts) /\ Better(blob, blob')
      /\ x.appending /\ UNCHANGED <<blob, powerCuts>>
  BY SameIsBetter DEF ArtifactsInv, AppendChunk, AppendChunkFails
<1>2. CASE AppendChunk(w)
  <2>1. PICK n \in 0..Chunks : WriterMoves(w, [x EXCEPT !.appending = FALSE, !.size = n])
    <3>1. x.size \in 0..Chunks /\ Chunks \in Nat
      BY <1>1, ArtifactsAssumption DEF WriterRecords
    <3>2. (IF x.size < Chunks THEN x.size + 1 ELSE x.size) \in 0..Chunks
      BY <3>1
    <3> QED
      BY <1>2, <3>2 DEF AppendChunk
  <2>2. /\ [x EXCEPT !.appending = FALSE, !.size = n] \in WriterRecords
        /\ WriterSound([x EXCEPT !.appending = FALSE, !.size = n], blob, powerCuts)
    BY <1>1, <2>1 DEF WriterRecords, WriterSound
  <2> QED
    BY <1>1, <2>1, <2>2, WriterMovesSafe
<1>3. CASE AppendChunkFails(w)
  <2>1. PICK pc \in {x.pc, "abort"} :
           /\ WriterMoves(w, [x EXCEPT !.appending = FALSE, !.pc = pc])
           /\ pc # x.pc => x.pc = "chunks"
    BY <1>3 DEF AppendChunkFails
  <2>2. /\ [x EXCEPT !.appending = FALSE, !.pc = pc] \in WriterRecords
        /\ WriterSound([x EXCEPT !.appending = FALSE, !.pc = pc], blob, powerCuts)
    BY <1>1, <2>1 DEF WriterRecords, WriterSound
  <2> QED
    BY <1>1, <2>1, <2>2, WriterMovesSafe
<1> QED
  BY <1>2, <1>3

LEMMA CancelWriterSafe == ASSUME ArtifactsInv, NEW w \in Writers, CancelWriter(w) PROVE ArtifactsInv'
<1> DEFINE x == writer[w]
<1>1. /\ x \in WriterRecords /\ WriterSound(x, blob, powerCuts) /\ Better(blob, blob')
      /\ x.pc = "chunks" /\ UNCHANGED <<blob, powerCuts>>
  BY SameIsBetter DEF ArtifactsInv, CancelWriter, WriterAt
<1>2. PICK pc \in {"chunks", "abort"} : WriterMoves(w, [x EXCEPT !.cancelled = TRUE, !.pc = pc])
  BY <1>1 DEF CancelWriter
<1>3. /\ [x EXCEPT !.cancelled = TRUE, !.pc = pc] \in WriterRecords
      /\ WriterSound([x EXCEPT !.cancelled = TRUE, !.pc = pc], blob, powerCuts)
  BY <1>1, <1>2 DEF WriterRecords, WriterSound
<1> QED
  BY <1>1, <1>2, <1>3, WriterMovesSafe

LEMMA PublishBlobSafe == ASSUME ArtifactsInv, NEW w \in Writers, PublishBlob(w) PROVE ArtifactsInv'
<1> DEFINE x == writer[w]
           y == [x EXCEPT !.pc = "sync", !.temporary = FALSE]
<1>1. /\ x \in WriterRecords /\ x.pc = "publish" /\ WriterSound(x, blob, powerCuts)
      /\ UNCHANGED powerCuts /\ blob \in BlobRecords
  BY DEF ArtifactsInv, PublishBlob, WriterAt
<1>2. y \in WriterRecords
  BY <1>1 DEF WriterRecords
<1>3. ASSUME blob'.now = "whole" PROVE WriterSound(y, blob', powerCuts)
  BY <1>1, <1>3 DEF WriterRecords, WriterSound
<1>4. CASE /\ blob.now = "none" /\ WriterMoves(w, y)
           /\ blob' = [now |-> IF x.size = Chunks THEN "whole" ELSE "part", data |-> FALSE,
                       cut |-> blob.cut \cup {"part", "whole"}]
  <2>1. blob'.now = "whole"
    BY <1>1, <1>4 DEF WriterSound
  <2>2. Better(blob, blob')
    BY <1>1, <1>4, <2>1 DEF Better, BlobRecords, Settled
  <2> QED
    BY <1>1, <1>2, <1>3, <1>4, <2>1, <2>2, WriterMovesSafe
<1>5. CASE Identical /\ WriterMoves(w, y) /\ UNCHANGED blob
  BY <1>1, <1>2, <1>3, <1>5, SameIsBetter, WriterMovesSafe DEF Identical
<1>6. CASE WriterGoto(w, "abort") /\ UNCHANGED blob
  <2>1. /\ [x EXCEPT !.pc = "abort"] \in WriterRecords
        /\ WriterSound([x EXCEPT !.pc = "abort"], blob, powerCuts)
    BY <1>1 DEF WriterRecords, WriterSound
  <2> QED
    BY <1>1, <1>6, <2>1, SameIsBetter, WriterMovesSafe DEF WriterGoto
<1> QED
  BY <1>4, <1>5, <1>6 DEF PublishBlob

LEMMA AbortWriterSafe == ASSUME ArtifactsInv, NEW w \in Writers, AbortWriter(w) PROVE ArtifactsInv'
<1> DEFINE x == writer[w]
<1>1. /\ x \in WriterRecords /\ WriterSound(x, blob, powerCuts) /\ Better(blob, blob')
      /\ x.pc = "abort" /\ UNCHANGED <<blob, powerCuts>>
  BY SameIsBetter DEF ArtifactsInv, AbortWriter, WriterAt
<1>2. PICK a \in {"cancelled", "error"} :
         WriterMoves(w, [x EXCEPT !.pc = "over", !.temporary = FALSE, !.answer = a])
  BY DEF AbortWriter
<1>3. /\ [x EXCEPT !.pc = "over", !.temporary = FALSE, !.answer = a] \in WriterRecords
      /\ WriterSound([x EXCEPT !.pc = "over", !.temporary = FALSE, !.answer = a], blob, powerCuts)
  BY <1>1, <1>2 DEF WriterRecords, WriterSound
<1> QED
  BY <1>1, <1>2, <1>3, WriterMovesSafe

\* What is settled is not taken back.
LEMMA PowerCutSafe == ASSUME ArtifactsInv, PowerCut PROVE ArtifactsInv'
<1>1. PICK left \in blob.cut : blob' = [now |-> left, data |-> TRUE, cut |-> {left}]
  BY DEF PowerCut
<1>2. blob' \in BlobRecords /\ powerCuts' \in Nat /\ powerCuts' # 0
  <2>1. left \in {"none", "part", "whole"} /\ {left} \in SUBSET {"none", "part", "whole"}
    BY <1>1 DEF ArtifactsInv, BlobRecords
  <2>2. blob' \in BlobRecords
    BY <1>1, <2>1 DEF BlobRecords
  <2>3. powerCuts \in Nat
    BY DEF ArtifactsInv
  <2>4. powerCuts' = powerCuts + 1
    BY DEF PowerCut
  <2>5. powerCuts' \in Nat /\ powerCuts' # 0
    BY <2>3, <2>4
  <2> QED
    BY <2>2, <2>5
<1>3. ASSUME NEW w \in Writers
      PROVE  writer'[w] \in WriterRecords /\ WriterSound(writer'[w], blob', powerCuts')
  <2> DEFINE x == writer[w]
  <2>1. x \in WriterRecords /\ WriterSound(x, blob, powerCuts)
    BY <1>3 DEF ArtifactsInv
  <2>2. CASE x.pc \in {"begin", "over"}
    <3>1. writer'[w] = x
      BY <1>3, <2>2 DEF PowerCut
    <3>2. Settled(blob) => Settled(blob')
      BY <1>1 DEF Settled
    <3> QED
      BY <1>2, <2>1, <2>2, <3>1, <3>2 DEF WriterSound
  <2>3. CASE x.pc \notin {"begin", "over"}
    <3>1. writer'[w] = [x EXCEPT !.pc = "over", !.answer = "dead", !.appending = FALSE]
      BY <1>3, <2>3 DEF PowerCut
    <3> QED
      BY <2>1, <3>1 DEF WriterRecords, WriterSound
  <2> QED
    BY <2>2, <2>3
<1>4. writer' \in [Writers -> WriterRecords]
  BY <1>3 DEF PowerCut
<1> QED
  BY <1>2, <1>3, <1>4 DEF ArtifactsInv

LEMMA ArtifactsNextSafe == ASSUME ArtifactsInv, [ArtifactsNext]_artifactVars PROVE ArtifactsInv'
<1>1. CASE UNCHANGED artifactVars
  BY <1>1 DEF artifactVars, ArtifactsInv
<1>2. ASSUME NEW w \in Writers, CancelWriter(w) \/ PublishBlob(w) \/ AbortWriter(w)
      PROVE  ArtifactsInv'
  BY <1>2, CancelWriterSafe, PublishBlobSafe, AbortWriterSafe
<1>3. ASSUME NEW w \in Writers, WriteBlob(w) \/ ReplaceBlob(w) \/ SyncDirectory(w)
      PROVE  ArtifactsInv'
  BY <1>3, WriteBlobSafe, ReplaceBlobSafe, SyncDirectorySafe
<1> QED
  BY <1>1, <1>2, <1>3, NextChunkSafe, AppendChunkSafe, PowerCutSafe DEF ArtifactsNext

\* workspace.py and delegation.py (_write, publish, abort): a reference that a caller holds
\* resolves, however many calls store the content, fail or are cancelled, and however often
\* the power is cut; and no temporary file outlives its call.
THEOREM ReferencesHold == ArtifactsSpec => []ArtifactsKept
<1>1. ArtifactsInv => ArtifactsKept
  <2> SUFFICES ASSUME ArtifactsInv, NEW w \in Writers
               PROVE  /\ powerCuts = 0 => blob.now # "part"
                      /\ writer[w].answer = "ok" /\ (powerCuts = 0 \/ writer[w].made) => blob.now = "whole"
                      /\ writer[w].pc = "sync" => blob.now = "whole"
                      /\ WriterAt(w, "over") /\ writer[w].answer # "dead" => ~writer[w].temporary
    BY DEF ArtifactsKept, ReferencesResolve, NoTemporaryLeft, ArtifactsInv
  <2>1. WriterSound(writer[w], blob, powerCuts)
    BY DEF ArtifactsInv
  <2> QED
    BY <2>1 DEF ArtifactsInv, WriterSound, Settled, WriterAt
<1> QED
  BY <1>1, ArtifactsInitSafe, ArtifactsNextSafe, PTL DEF ArtifactsSpec

-----------------------------------------------------------------------------
\* Context: what is estimated, and what is left out.

Sums(sum, N, v) == sum = [n \in 0..N |-> IF n = 0 THEN 0 ELSE sum[n - 1] + v[n]]

LEMMA SumExists ==
    ASSUME NEW N \in Nat, NEW v \in [1..N -> Nat]
    PROVE  \E g : Sums(g, N, v)
<1> DEFINE F == [n \in 1..N |-> [u \in Nat |-> u + v[n]]]
<1>1. F \in [1..N -> [Nat -> Nat]]
  OBVIOUS
<1>2. PICK g \in [0..N -> Nat] : Iterates(F, g, N, 0)
  <2> HIDE DEF F
  <2> QED
    BY <1>1, Iterated
<1>3. g[0] = 0 /\ \A n \in 1..N : g[n] = F[n][g[n - 1]]
  BY <1>2 DEF Iterates
<1>4. \A n \in 0..N : n # 0 => n \in 1..N /\ n - 1 \in 0..N
  OBVIOUS
<1>5. \A n \in 0..N : g[n] = IF n = 0 THEN 0 ELSE g[n - 1] + v[n]
  BY <1>3, <1>4
<1>6. g = [n \in 0..N |-> IF n = 0 THEN 0 ELSE g[n - 1] + v[n]]
  BY <1>5
<1> QED
  BY <1>6 DEF Sums

LEMMA SumOfNat ==
    ASSUME NEW N \in Nat, NEW v \in [1..N -> Nat], NEW sum, Sums(sum, N, v)
    PROVE  sum[N] \in Nat
<1> DEFINE Bad == {n \in 0..N : sum[n] \notin Nat}
<1>1. SUFFICES ASSUME Bad # {} PROVE FALSE
  BY DEF Bad
<1>2. PICK m \in Bad : \A k \in Bad : m <= k
  <2>1. Bad \subseteq Nat
    OBVIOUS
  <2> HIDE DEF Bad
  <2> QED
    BY <1>1, <2>1, HasLeast
<1>3. \A n \in 0..N : sum[n] = IF n = 0 THEN 0 ELSE sum[n - 1] + v[n]
  BY DEF Sums
<1>4. m # 0
  BY <1>2, <1>3
<1>5. m \in 1..N /\ m - 1 \in 0..N /\ ~(m <= m - 1)
  BY <1>2, <1>4
<1>6. sum[m - 1] \in Nat /\ v[m] \in Nat
  BY <1>2, <1>5
<1> QED
  BY <1>2, <1>3, <1>4, <1>5, <1>6

LEMMA TokensAre == ASSUME NEW groups \in Seq(Groups) PROVE Tokens(groups) \in Nat
<1>1. PICK N \in Nat : N = Len(groups)
  OBVIOUS
<1> DEFINE v == [n \in 1..N |-> groups[n].tokens]
<1>2. v \in [1..N -> Nat]
  BY <1>1, ContextAssumption
<1>3. PICK g : Sums(g, N, v)
  <2> HIDE DEF v
  <2> QED
    BY <1>2, SumExists
<1>4. g = [n \in 0..N |-> IF n = 0 THEN 0 ELSE g[n - 1] + groups[n].tokens]
  <2>1. \A n \in 0..N : g[n] = IF n = 0 THEN 0 ELSE g[n - 1] + groups[n].tokens
    <3>1. \A n \in 0..N : g[n] = IF n = 0 THEN 0 ELSE g[n - 1] + v[n]
      <4> HIDE DEF v
      <4> QED
        BY <1>3 DEF Sums
    <3>2. \A n \in 0..N : n # 0 => n \in 1..N
      OBVIOUS
    <3> QED
      BY <3>1, <3>2
  <2> QED
    BY <1>3, <2>1 DEF Sums
<1> DEFINE fin == CHOOSE sum : sum = [n \in 0..N |-> IF n = 0 THEN 0 ELSE sum[n - 1] + groups[n].tokens]
<1>5. fin = [n \in 0..N |-> IF n = 0 THEN 0 ELSE fin[n - 1] + groups[n].tokens]
  BY ONLY <1>4, ZenonT(60) DEF fin
<1>6. Tokens(groups) = fin[N]
  BY <1>1 DEF Tokens
<1>7. Sums(fin, N, v)
  <2> HIDE DEF fin
  <2>1. \A n \in 0..N : n # 0 => v[n] = groups[n].tokens
    OBVIOUS
  <2> QED
    BY <1>5, <2>1 DEF Sums
<1> HIDE DEF fin, v
<1>8. fin[N] \in Nat
  BY <1>2, <1>7, SumOfNat
<1> QED
  BY <1>6, <1>8

LEMMA EntryTokensAre == ASSUME NEW those PROVE EntryTokens(those) \in Nat
<1>1. PICK N \in Nat : N = Len(Entries) /\ \A n \in 1..N : Entries[n].tokens \in Nat
  BY ContextAssumption
<1> DEFINE v == [n \in 1..N |-> IF n \in those THEN Entries[n].tokens ELSE 0]
<1>2. v \in [1..N -> Nat]
  BY <1>1
<1>3. PICK g : Sums(g, N, v)
  <2> HIDE DEF v
  <2> QED
    BY <1>2, SumExists
<1>4. g = [n \in 0..N |-> IF n = 0 THEN 0 ELSE g[n - 1] + (IF n \in those THEN Entries[n].tokens ELSE 0)]
  <2>1. \A n \in 0..N : g[n] = IF n = 0 THEN 0 ELSE g[n - 1] + (IF n \in those THEN Entries[n].tokens ELSE 0)
    <3>1. \A n \in 0..N : g[n] = IF n = 0 THEN 0 ELSE g[n - 1] + v[n]
      <4> HIDE DEF v
      <4> QED
        BY <1>3 DEF Sums
    <3>2. \A n \in 0..N : n # 0 => n \in 1..N
      OBVIOUS
    <3> QED
      BY <3>1, <3>2
  <2> QED
    BY <1>3, <2>1 DEF Sums
<1> DEFINE fin == CHOOSE sum : sum = [n \in 0..N |-> IF n = 0 THEN 0 ELSE sum[n - 1] + (IF n \in those THEN Entries[n].tokens ELSE 0)]
<1>5. fin = [n \in 0..N |-> IF n = 0 THEN 0 ELSE fin[n - 1] + (IF n \in those THEN Entries[n].tokens ELSE 0)]
  BY ONLY <1>4, ZenonT(60) DEF fin
<1>6. EntryTokens(those) = fin[N]
  BY <1>1 DEF EntryTokens
<1>7. Sums(fin, N, v)
  <2> HIDE DEF fin
  <2>1. \A n \in 0..N : n # 0 => v[n] = IF n \in those THEN Entries[n].tokens ELSE 0
    OBVIOUS
  <2> QED
    BY <1>5, <2>1 DEF Sums
<1> HIDE DEF fin, v
<1>8. fin[N] \in Nat
  BY <1>2, <1>7, SumOfNat
<1> QED
  BY ONLY <1>6, <1>8, Zenon

LEMMA EstimateIs ==
    ASSUME NEW those, NEW old, old.tokens \in Nat, NEW groups \in Seq(Groups)
    PROVE  Estimate(those, old, groups) \in Nat
BY TokensAre, EntryTokensAre DEF Estimate

\* The rounds in which entries are left out, until what is left fits.
FitsWith(those, old, groups) == Estimate(those, old, groups) <= InputBudget
Rounds(fit, old, groups) ==
    /\ fit[0] = Shown
    /\ \A n \in 1..Len(Entries) :
         fit[n] = IF FitsWith(fit[n - 1], old, groups) THEN fit[n - 1]
                  ELSE fit[n - 1] \ Removable(fit[n - 1])

\* And the entries that would be left were one left out in every round.
Chain(left) ==
    /\ left[0] = Shown
    /\ \A n \in 1..Len(Entries) : left[n] = left[n - 1] \ Removable(left[n - 1])

LEMMA ChainExists == \E left : Chain(left)
<1>1. PICK N \in Nat : N = Len(Entries)
  BY ContextAssumption
<1>2. PICK S : S = SUBSET DOMAIN Entries
  OBVIOUS
<1> DEFINE F == [n \in 1..N |-> [u \in S |-> u \ Removable(u)]]
<1>3. F \in [1..N -> [S -> S]]
  BY <1>2
<1>4. Shown \in S
  BY <1>2 DEF Shown, Protected
<1>5. PICK g \in [0..N -> S] : Iterates(F, g, N, Shown)
  <2> HIDE DEF F
  <2> QED
    BY <1>3, <1>4, Iterated
<1>6. g[0] = Shown /\ \A n \in 1..N : g[n] = F[n][g[n - 1]]
  BY <1>5 DEF Iterates
<1>7. \A n \in 1..N : n - 1 \in 0..N
  OBVIOUS
<1>8. \A n \in 1..N : g[n] = g[n - 1] \ Removable(g[n - 1])
  BY <1>6, <1>7
<1> QED
  BY ONLY <1>1, <1>6, <1>8, Zenon DEF Chain

LEMMA FittedIs ==
    ASSUME NEW old, NEW groups
    PROVE  \E fit : Rounds(fit, old, groups) /\ Fitted(old, groups) = fit[Len(Entries)]
<1>1. PICK N \in Nat : N = Len(Entries)
  BY ContextAssumption
<1>2. PICK S : S = SUBSET DOMAIN Entries
  OBVIOUS
<1> DEFINE NextRound(u) == IF FitsWith(u, old, groups) THEN u ELSE u \ Removable(u)
           F == [n \in 1..N |-> [u \in S |-> NextRound(u)]]
<1>3. F \in [1..N -> [S -> S]]
  BY <1>2
<1>4. Shown \in S
  BY <1>2 DEF Shown, Protected
<1>5. PICK g \in [0..N -> S] : Iterates(F, g, N, Shown)
  <2> HIDE DEF F
  <2> QED
    BY <1>3, <1>4, Iterated
<1>6. g[0] = Shown /\ \A n \in 1..N : g[n] = F[n][g[n - 1]]
  BY <1>5 DEF Iterates
<1>7. \A n \in 0..N : n # 0 => n \in 1..N /\ n - 1 \in 0..N
  OBVIOUS
<1>8. \A n \in 1..N : g[n] = NextRound(g[n - 1])
  <2> HIDE DEF NextRound
  <2> QED
    BY <1>5, <1>6, <1>7
<1>9. g = [n \in 0..N |-> IF n = 0 THEN Shown ELSE NextRound(g[n - 1])]
  <2> HIDE DEF NextRound
  <2>1. \A n \in 0..N : g[n] = IF n = 0 THEN Shown ELSE NextRound(g[n - 1])
    BY <1>6, <1>7, <1>8
  <2> QED
    BY <2>1
<1> DEFINE fin == CHOOSE fit : fit = [n \in 0..N |-> IF n = 0 THEN Shown ELSE NextRound(fit[n - 1])]
<1>10. fin = [n \in 0..N |-> IF n = 0 THEN Shown ELSE NextRound(fin[n - 1])]
  <2> HIDE DEF NextRound
  <2> QED
    BY ONLY <1>9, ZenonT(60) DEF fin
<1>11. Fitted(old, groups) = fin[N]
  BY <1>1 DEF Fitted, FitsWith
<1>12. Rounds(fin, old, groups)
  <2>1. fin[0] = Shown
    <3> HIDE DEF fin, NextRound
    <3> QED
      BY <1>10
  <2>2. \A n \in 1..N : fin[n] = NextRound(fin[n - 1])
    <3> HIDE DEF fin, NextRound
    <3>1. \A n \in 1..N : n \in 0..N /\ n # 0
      OBVIOUS
    <3> QED
      BY <1>10, <3>1
  <2> HIDE DEF fin
  <2> QED
    BY <1>1, <2>1, <2>2 DEF Rounds
<1> QED
  BY <1>1, <1>11, <1>12

\* Whatever is left out of the World, nothing protected is.
LEMMA FittedKeeps ==
    ASSUME NEW old, NEW groups, manager.limits = "world" PROVE Protected \subseteq Fitted(old, groups)
<1>1. PICK N \in Nat : N = Len(Entries)
  BY ContextAssumption
<1>2. PICK fit : Rounds(fit, old, groups) /\ Fitted(old, groups) = fit[N]
  BY <1>1, FittedIs
<1> DEFINE Bad == {n \in 0..N : ~ (Protected \subseteq fit[n])}
<1>3. SUFFICES ASSUME Bad # {} PROVE FALSE
  BY <1>2
<1>4. PICK m \in Bad : \A k \in Bad : m <= k
  <2>1. Bad \subseteq Nat
    OBVIOUS
  <2> HIDE DEF Bad
  <2> QED
    BY <1>3, <2>1, HasLeast
<1>5. m # 0
  BY <1>2, <1>4 DEF Rounds, Shown
<1>6. m \in 1..N /\ m - 1 \in 0..N /\ ~(m <= m - 1)
  BY <1>4, <1>5
<1>7. Protected \subseteq fit[m - 1]
  BY <1>4, <1>6
<1>8. \A u : Protected \subseteq u => Protected \subseteq u \ Removable(u)
  BY DEF Removable, LastOf
<1>9. Protected \subseteq fit[m]
  <2>1. fit[m] = fit[m - 1] \/ fit[m] = fit[m - 1] \ Removable(fit[m - 1])
    BY <1>1, <1>2, <1>6 DEF Rounds
  <2> QED
    BY <1>7, <1>8, <2>1
<1> QED
  BY <1>4, <1>9

\* What was left for one summary fits with another: what is left for that one fits too.
LEMMA FittedFits ==
    ASSUME NEW old, NEW groups, NEW new, NEW rest, FitsWith(Fitted(old, groups), new, rest)
    PROVE  FitsWith(Fitted(new, rest), new, rest)
<1>1. PICK N \in Nat : N = Len(Entries)
  BY ContextAssumption
<1>2. PICK one : Rounds(one, old, groups) /\ Fitted(old, groups) = one[N]
  BY <1>1, FittedIs
<1>3. PICK two : Rounds(two, new, rest) /\ Fitted(new, rest) = two[N]
  BY <1>1, FittedIs
<1>4. PICK left : Chain(left)
  BY ChainExists
<1> DEFINE Fine(n) == \E k \in 0..n : one[n] = left[k]
           Good(n) == \/ FitsWith(two[n], new, rest)
                      \/ two[n] = left[n] /\ \A k \in 0..n : ~FitsWith(left[k], new, rest)
           Bad == {n \in 0..N : ~ (Fine(n) /\ Good(n))}
<1>5. Bad = {}
  <2>1. SUFFICES ASSUME Bad # {} PROVE FALSE
    OBVIOUS
  <2>2. PICK m \in Bad : \A k \in Bad : m <= k
    <3>1. Bad \subseteq Nat
      OBVIOUS
    <3> HIDE DEF Bad
    <3> QED
      BY <2>1, <3>1, HasLeast
  <2>3. one[0] = left[0] /\ two[0] = left[0]
    BY <1>2, <1>3, <1>4 DEF Rounds, Chain
  <2>4. m # 0
    <3>1. Fine(0) /\ Good(0)
      <4>1. 0..0 = {0}
        OBVIOUS
      <4> QED
        BY <2>3, <4>1
    <3> QED
      BY <2>2, <3>1
  <2>5. m \in 1..N /\ m - 1 \in 0..N /\ ~(m <= m - 1)
    BY <2>2, <2>4
  <2>6. Fine(m - 1) /\ Good(m - 1)
    BY <2>2, <2>5
  <2>7. \A k \in 0..(m - 1) : k \in 0..m /\ k + 1 \in 0..m /\ k + 1 \in 1..N /\ (k + 1) - 1 = k
    BY <2>5
  <2>8. Fine(m)
    <3>1. PICK k \in 0..(m - 1) : one[m - 1] = left[k]
      BY <2>6
    <3>2. left[k + 1] = left[k] \ Removable(left[k])
      BY <1>1, <1>4, <2>7 DEF Chain
    <3>3. one[m] = left[k] \/ one[m] = left[k + 1]
      BY <1>1, <1>2, <2>5, <3>1, <3>2 DEF Rounds
    <3> QED
      BY <2>7, <3>3
  <2>9. Good(m)
    <3>1. two[m] = IF FitsWith(two[m - 1], new, rest) THEN two[m - 1]
                   ELSE two[m - 1] \ Removable(two[m - 1])
      BY <1>1, <1>3, <2>5 DEF Rounds
    <3>2. CASE FitsWith(two[m - 1], new, rest)
      BY <3>1, <3>2
    <3>3. CASE ~FitsWith(two[m - 1], new, rest)
      <4>1. two[m - 1] = left[m - 1] /\ \A k \in 0..(m - 1) : ~FitsWith(left[k], new, rest)
        BY <2>6, <3>3
      <4>2. two[m] = left[m]
        BY <1>1, <1>4, <2>5, <3>1, <3>3, <4>1 DEF Chain
      <4>3. \A k \in 0..m : k = m \/ k \in 0..(m - 1)
        BY <2>5
      <4> QED
        BY <4>1, <4>2, <4>3
    <3> QED
      BY <3>2, <3>3
  <2> QED
    BY <2>2, <2>8, <2>9
<1>6. Fine(N) /\ Good(N)
  BY <1>5
<1>7. PICK k \in 0..N : one[N] = left[k]
  BY <1>6
<1>8. FitsWith(left[k], new, rest)
  BY ONLY <1>2, <1>7, FitsWith(Fitted(old, groups), new, rest), Zenon
<1>9. FitsWith(two[N], new, rest)
  BY ONLY <1>6, <1>7, <1>8, Zenon
<1> QED
  BY ONLY <1>3, <1>9, Zenon

-----------------------------------------------------------------------------
\* Context: the transcript and the summary of its beginning.

\* A summary that is committed leaves something that fits.
SettledBy(new) == FitsWith(Fitted(new, Rest(new)), new, Rest(new))
SummaryOk(old) == old.of \in Seq(Groups) /\ Begins(old.of) /\ old.tokens \in Nat

ContextTypes ==
    /\ transcript \in Seq(Groups) /\ SummaryOk(summary) /\ manager.version \in {1, 2}
    /\ prepared = [outcome |-> prepared.outcome, entries |-> prepared.entries,
                   summary |-> prepared.summary, shown |-> prepared.shown,
                   commits |-> prepared.commits, expected |-> prepared.expected]
CommitsSound ==
    prepared.commits =>
      /\ prepared.outcome = "ok" /\ SummaryOk(prepared.summary)
      /\ prepared.summary.version = manager.version => SettledBy(prepared.summary)
\* What prepare holds is still so when the summarizer answers.
WritingSound ==
    writing.end # 0 =>
      /\ manager.kind = "compacting" /\ writing.transcript = transcript /\ TailStart # 1
      /\ \E old : /\ old.of \in Seq(Groups) /\ writing.entries = Fitted(old, Rest(old))
                 /\ writing.end \in NewEnds(writing.entries, old)
ContextInv == ContextTypes /\ CommitsSound /\ WritingSound /\ NothingLost /\ CompactionSettles

LEMMA ContextInitSafe == ContextInit => ContextInv
<1> SUFFICES ASSUME ContextInit PROVE ContextInv
  OBVIOUS
<1>1. transcript = <<>> /\ summary = NoSummary /\ prepared = NotPrepared /\ manager.version \in {1, 2}
      /\ writing.end = 0
  BY DEF ContextInit, NotWriting
<1>2. SummaryOk(summary)
  <2>1. /\ summary.of = <<>> /\ summary.tokens = 0 /\ Len(<<>>) = 0 /\ <<>> \in Seq(Groups)
        /\ SubSeq(transcript, 1, 0) = <<>>
    BY <1>1 DEF NoSummary
  <2> QED
    BY <1>1, <2>1 DEF SummaryOk, Begins
<1>3. prepared.outcome = "none" /\ ~prepared.commits
  BY <1>1 DEF NotPrepared
<1>4. prepared = [outcome |-> prepared.outcome, entries |-> prepared.entries,
                  summary |-> prepared.summary, shown |-> prepared.shown,
                  commits |-> prepared.commits, expected |-> prepared.expected]
  BY <1>1 DEF NotPrepared
<1>5. transcript \in Seq(Groups)
  BY <1>1
<1> QED
  BY <1>1, <1>2, <1>3, <1>4, <1>5 DEF ContextInv, ContextTypes, CommitsSound, WritingSound, NothingLost, CompactionSettles

\* Nothing is prepared: there is nothing to say of it.
LEMMA UnpreparedSafe ==
    ASSUME ContextTypes', WritingSound', ~prepared'.commits, prepared'.outcome # "ok" PROVE ContextInv'
BY DEF ContextInv, CommitsSound, NothingLost, CompactionSettles

LEMMA FailsSafe ==
    ASSUME ContextInv, NEW error \in {"exceeded", "summarizer"}, Fails(error), WritingSound',
           UNCHANGED <<transcript, summary, manager>>
    PROVE  ContextInv'
<1>1. prepared' = [outcome |-> error, entries |-> {}, summary |-> NoSummary, shown |-> <<>>,
                   commits |-> FALSE, expected |-> <<>>]
  BY DEF Fails, NotPrepared
<1>2. /\ prepared'.outcome # "ok" /\ ~prepared'.commits
      /\ prepared' = [outcome |-> prepared'.outcome, entries |-> prepared'.entries,
                      summary |-> prepared'.summary, shown |-> prepared'.shown,
                      commits |-> prepared'.commits, expected |-> prepared'.expected]
  BY <1>1
<1>3. ContextTypes'
  BY <1>2 DEF ContextInv, ContextTypes, SummaryOk, Begins
<1> QED
  BY <1>2, <1>3, UnpreparedSafe

\* A prefix and what comes after it.
Splits(S, q, k, of, rest) ==
    /\ of \in Seq(S) /\ Len(of) = k /\ rest \in Seq(S) /\ Len(rest) = Len(q) - k
    /\ of \o rest = q /\ rest = SubSeq(q, Len(q) - Len(rest) + 1, Len(q))

LEMMA SplitAt ==
    ASSUME NEW S, NEW q \in Seq(S), NEW k \in 0..Len(q)
    PROVE  Splits(S, q, k, SubSeq(q, 1, k), SubSeq(q, k + 1, Len(q)))
<1>0. PICK of, rest : of = SubSeq(q, 1, k) /\ rest = SubSeq(q, k + 1, Len(q))
  OBVIOUS
<1>1. PICK N \in Nat : N = Len(q) /\ k \in Nat /\ k <= N
  OBVIOUS
<1>2. of \in Seq(S) /\ Len(of) = k
  BY <1>0, <1>1
<1>3. rest \in Seq(S) /\ Len(rest) = N - k
  BY <1>0, <1>1
<1>4. of \o rest = q
  <2>1. 1 \in 1..(Len(q) + 1) /\ k \in (1 - 1)..Len(q) /\ Len(q) \in k..Len(q)
    BY <1>1
  <2>2. SubSeq(q, 1, k) \o SubSeq(q, k + 1, Len(q)) = SubSeq(q, 1, Len(q))
    BY <2>1, ConcatAdjacentSubSeq
  <2>3. SubSeq(q, 1, Len(q)) = q
    BY SubSeqFull
  <2> QED
    BY ONLY <1>0, <2>2, <2>3, Zenon
<1>5. Len(q) - Len(rest) + 1 = k + 1 /\ Len(rest) = Len(q) - k
  <2>1. PICK r : r = Len(rest)
    OBVIOUS
  <2>2. N - r + 1 = k + 1
    BY ONLY <1>1, <1>3, <2>1
  <2> QED
    BY <1>1, <1>3, <2>1, <2>2
<1>6. SubSeq(q, Len(q) - Len(rest) + 1, Len(q)) = SubSeq(q, k + 1, Len(q))
  BY ONLY <1>5, Zenon
<1>7. Splits(S, q, k, of, rest)
  BY ONLY <1>0, <1>2, <1>3, <1>4, <1>5, <1>6, Zenon DEF Splits
<1> QED
  BY ONLY <1>0, <1>7, Zenon

LEMMA RestOf ==
    ASSUME transcript \in Seq(Groups), NEW old, Begins(old.of), old.of \in Seq(Groups)
    PROVE  /\ Rest(old) \in Seq(Groups) /\ old.of \o Rest(old) = transcript
           /\ Rest(old) = SubSeq(transcript, Len(transcript) - Len(Rest(old)) + 1, Len(transcript))
<1>1. PICK k \in Nat : k = Len(old.of) /\ k <= Len(transcript) /\ old.of = SubSeq(transcript, 1, k)
  BY DEF Begins
<1>2. k \in 0..Len(transcript)
  BY <1>1
<1>3. PICK rest : rest = SubSeq(transcript, k + 1, Len(transcript))
  OBVIOUS
<1>4. Rest(old) = rest
  BY <1>1, <1>3 DEF Rest
<1>5. PICK of : of = old.of
  OBVIOUS
<1>6. of = SubSeq(transcript, 1, k)
  BY <1>1, <1>5
<1>7. /\ rest \in Seq(Groups) /\ of \o rest = transcript
      /\ rest = SubSeq(transcript, Len(transcript) - Len(rest) + 1, Len(transcript))
  <2>1. Splits(Groups, transcript, k, of, rest)
    BY ONLY transcript \in Seq(Groups), <1>2, <1>3, <1>6, SplitAt, Zenon
  <2> QED
    BY <2>1 DEF Splits
<1> QED
  BY ONLY <1>4, <1>5, <1>7, Zenon

\* What it takes that a context is prepared well.
LEMMA PreparesSafe ==
    ASSUME ContextInv, UNCHANGED <<transcript, summary, manager>>, WritingSound',
           NEW entries, NEW old, NEW groups, NEW commits \in BOOLEAN, NEW expected,
           Prepares(entries, old, groups, commits, expected),
           manager.limits # "none" => FitsWith(entries, old, groups),
           manager.limits = "world" => Protected \subseteq entries,
           groups = SubSeq(transcript, Len(transcript) - Len(groups) + 1, Len(transcript)),
           manager.kind # "window" => old.of \o groups = transcript,
           transcript # <<>> /\ manager.kind = "window" => groups # <<>>,
           commits => SummaryOk(old) /\ (old.version = manager.version => SettledBy(old)),
           commits /\ old # NoSummary =>
             Cardinality(TurnStarts) - Cardinality({i \in DOMAIN old.of : i \in TurnStarts}) >= MinTurns,
           ~commits /\ manager.kind = "compacting" /\ Valid => SettledBy(summary)
    PROVE  ContextInv'
<1>1. prepared' = [outcome |-> "ok", entries |-> entries, summary |-> old, shown |-> groups,
                   commits |-> commits, expected |-> expected]
  BY DEF Prepares
<1>2. /\ prepared'.outcome = "ok" /\ prepared'.entries = entries /\ prepared'.summary = old
      /\ prepared'.shown = groups /\ prepared'.commits = commits
      /\ prepared' = [outcome |-> prepared'.outcome, entries |-> prepared'.entries,
                      summary |-> prepared'.summary, shown |-> prepared'.shown,
                      commits |-> prepared'.commits, expected |-> prepared'.expected]
  BY <1>1
<1>3. ContextTypes'
  BY <1>2 DEF ContextInv, ContextTypes, SummaryOk, Begins
<1>4. CommitsSound'
  BY <1>2 DEF CommitsSound, SummaryOk, Begins, SettledBy, Rest, Fitted, Shown
<1>5. NothingLost'
  BY <1>2 DEF NothingLost, FitsWith, TurnStarts
<1>6. CompactionSettles'
  BY <1>2 DEF CompactionSettles, SettledBy, FitsWith, Valid, Rest, Begins, Fitted, Shown
<1> QED
  BY <1>3, <1>4, <1>5, <1>6 DEF ContextInv

\* The groups of a window: as many as are allowed, and one if there is one.
LEMMA RecentIs ==
    ASSUME transcript \in Seq(Groups)
    PROVE  /\ Recent = SubSeq(transcript, Len(transcript) - Len(Recent) + 1, Len(transcript))
           /\ transcript # <<>> => Recent # <<>>
<1>1. PICK L \in Nat : L = Len(transcript)
  OBVIOUS
<1> DEFINE Fit(n) == n = 1 \/ Messages(SubSeq(transcript, L - n + 1, L)) <= MaxMessages
           Most(n) == (n = 0 \/ \A m \in 1..n : Fit(m)) /\ (n = L \/ ~Fit(n + 1))
           Ends_ == {n \in 0..L : n = L \/ ~Fit(n + 1)}
<1>2. PICK n \in Ends_ : \A m \in Ends_ : n <= m
  <2>1. Ends_ \subseteq Nat /\ L \in Ends_
    BY <1>1
  <2> HIDE DEF Ends_
  <2> QED
    BY <2>1, HasLeast
<1>3. Most(n)
  <2>1. ASSUME NEW m \in 1..n PROVE Fit(m)
    <3>1. m - 1 \in 0..L /\ ~(n <= m - 1) /\ m - 1 # L /\ (m - 1) + 1 = m
      BY <1>1, <1>2, <2>1
    <3>2. m - 1 \notin Ends_
      BY <1>2, <3>1
    <3> HIDE DEF Fit
    <3> QED
      BY <3>1, <3>2
  <2> HIDE DEF Fit
  <2> QED
    BY <1>2, <2>1
<1> DEFINE most == CHOOSE k \in 0..L : Most(k)
<1>4. most \in 0..L /\ Most(most)
  <2> HIDE DEF Most
  <2> QED
    BY <1>2, <1>3
<1>5. Recent = SubSeq(transcript, L - most + 1, L)
  BY <1>1 DEF Recent
<1>6. PICK k \in 0..L : k = most /\ Most(k)
  BY <1>4
<1>7. k = 0 => L = 0
  <2>1. 0 + 1 = 1
    OBVIOUS
  <2> QED
    BY <1>6, <2>1
<1> HIDE DEF Most, most
<1>8. PICK first : first = SubSeq(transcript, 1, L - k)
  OBVIOUS
<1>9. L - k \in 0..Len(transcript) /\ (L - k) + 1 = L - k + 1
  BY <1>1
<1>10. Recent = SubSeq(transcript, (L - k) + 1, Len(transcript))
  BY <1>1, <1>5, <1>6
<1>11. /\ Len(Recent) = L - (L - k)
       /\ Recent = SubSeq(transcript, Len(transcript) - Len(Recent) + 1, Len(transcript))
  <2>1. PICK rest : rest = Recent
    OBVIOUS
  <2>2. /\ Len(rest) = Len(transcript) - (L - k)
        /\ rest = SubSeq(transcript, Len(transcript) - Len(rest) + 1, Len(transcript))
    <3>1. rest = SubSeq(transcript, (L - k) + 1, Len(transcript))
      BY <1>10, <2>1
    <3> QED
      <4>1. Splits(Groups, transcript, L - k, first, rest)
        BY ONLY transcript \in Seq(Groups), <1>8, <1>9, <3>1, SplitAt, Zenon
      <4> QED
        BY <4>1 DEF Splits
  <2> QED
    BY <1>1, <2>1, <2>2
<1>12. transcript # <<>> => L # 0
  BY <1>1
<1>13. L # 0 => Len(Recent) # 0
  BY <1>1, <1>7, <1>11
<1> QED
  BY <1>11, <1>12, <1>13

LEMMA PrepareSimpleSafe == ASSUME ContextInv, PrepareSimple PROVE ContextInv'
<1> DEFINE old == IF manager.kind = "full" THEN summary ELSE NoSummary
           groups == IF manager.kind = "full" THEN Rest(summary) ELSE Recent
           entries == Fitted(old, groups)
<1>1. /\ manager.kind \in {"full", "window"} /\ UNCHANGED <<transcript, summary, manager, writing>>
      /\ IF manager.limits = "none" \/ FitsWith(entries, old, groups)
         THEN Prepares(entries, old, groups, FALSE, <<>>) ELSE Fails("exceeded")
  BY DEF PrepareSimple, FitsWith
<1>2. transcript \in Seq(Groups) /\ summary.of \in Seq(Groups) /\ Begins(summary.of)
  BY DEF ContextInv, ContextTypes, SummaryOk
<1>3. groups = SubSeq(transcript, Len(transcript) - Len(groups) + 1, Len(transcript))
  BY <1>2, RestOf, RecentIs
<1>4. manager.kind # "window" => old.of \o groups = transcript
  BY <1>1, <1>2, RestOf
<1>5. transcript # <<>> /\ manager.kind = "window" => groups # <<>>
  BY <1>2, RecentIs
<1>6. manager.limits = "world" => Protected \subseteq entries
  BY FittedKeeps
<1>7. manager.kind # "compacting" /\ WritingSound'
  <2>1. writing.end = 0 /\ writing'.end = 0
    BY <1>1 DEF PrepareSimple, Waiting
  <2> QED
    BY <1>1, <2>1 DEF WritingSound
<1>8. PICK o, g, e : o = old /\ g = groups /\ e = entries
  OBVIOUS
<1> HIDE DEF old, groups, entries
<1>9. CASE manager.limits = "none" \/ FitsWith(e, o, g)
  BY <1>1, <1>3, <1>4, <1>5, <1>6, <1>7, <1>8, <1>9, PreparesSafe
<1>10. CASE manager.limits # "none" /\ ~FitsWith(e, o, g)
  BY <1>1, <1>7, <1>8, <1>10, FailsSafe
<1> QED
  BY <1>9, <1>10

\* What may be summarised lies before the last turns.
LEMMA TurnsLeft ==
    ASSUME transcript \in Seq(Groups), NEW end \in 0..Len(transcript), end < TailStart, TailStart # 1,
           NEW of, of = SubSeq(transcript, 1, end)
    PROVE  Cardinality(TurnStarts) - Cardinality({i \in DOMAIN of : i \in TurnStarts}) >= MinTurns
<1> DEFINE last == {i \in TurnStarts : Cardinality({j \in TurnStarts : j >= i}) = MinTurns}
<1>1. TailStart \in last
  <2>1. TailStart = IF last = {} THEN 1 ELSE CHOOSE i \in last : TRUE
    BY DEF TailStart
  <2> HIDE DEF last
  <2> QED
    BY <2>1
<1>2. PICK t, T : t = TailStart /\ T = TurnStarts
  OBVIOUS
<1>3. PICK late : late = {j \in T : j >= t}
  OBVIOUS
<1>4. Cardinality(late) = MinTurns /\ t \in T
  BY <1>1, <1>2, <1>3
<1>5. PICK early : early = {i \in DOMAIN of : i \in T}
  OBVIOUS
<1>6. T \subseteq 1..Len(transcript) /\ Len(transcript) \in Nat
  BY <1>2 DEF TurnStarts
<1>7. IsFiniteSet(T) /\ IsFiniteSet(late) /\ IsFiniteSet(early)
  <2>1. PICK a, b : a \in Int /\ b \in Int /\ a = 1 /\ b = Len(transcript)
    BY <1>6
  <2>2. IsFiniteSet(a..b)
    BY ONLY <2>1, FS_Interval
  <2>3. T \subseteq a..b /\ late \subseteq T /\ early \subseteq T
    BY <1>3, <1>5, <1>6, <2>1
  <2> QED
    BY ONLY <2>2, <2>3, FS_Subset
<1>8. DOMAIN of = 1..end
  OBVIOUS
<1>9. late \cap early = {} /\ late \cup early \subseteq T
  <2>1. ASSUME NEW i \in late, i \in early PROVE FALSE
    <3>1. i \in 1..end /\ i >= t /\ end < t /\ t \in Nat /\ end \in Nat
      BY <1>2, <1>3, <1>4, <1>5, <1>6, <1>8, <2>1
    <3> QED
      BY <3>1
  <2> QED
    BY <1>3, <1>5, <2>1
<1>10. Cardinality(late \cup early) = Cardinality(late) + Cardinality(early)
  <2>1. Cardinality(late \cup early)
          = Cardinality(late) + Cardinality(early) - Cardinality(late \cap early)
    BY ONLY <1>7, FS_Union
  <2>2. Cardinality(late \cap early) = 0
    BY <1>9, FS_EmptySet
  <2>3. Cardinality(late) \in Nat /\ Cardinality(early) \in Nat
    BY <1>7, FS_CardinalityType
  <2> QED
    BY ONLY <2>1, <2>2, <2>3
<1>11. Cardinality(late \cup early) <= Cardinality(T) /\ Cardinality(T) \in Nat
       /\ Cardinality(early) \in Nat /\ Cardinality(late) \in Nat
  BY ONLY <1>7, <1>9, FS_Subset, FS_CardinalityType
<1>12. Cardinality(T) - Cardinality(early) >= MinTurns
  BY ONLY <1>4, <1>10, <1>11
<1> QED
  BY <1>2, <1>5, <1>12

\* A new summary: it stands for what is before the last turns, and leaves what fits.
LEMMA SummarizerAnswersSafe == ASSUME ContextInv, SummarizerAnswers PROVE ContextInv'
<1>1. /\ writing.end # 0 /\ writing'.end = 0 /\ UNCHANGED <<transcript, summary, manager>>
      /\ manager.kind = "compacting" /\ writing.transcript = transcript /\ TailStart # 1
  BY DEF SummarizerAnswers, NotWriting, ContextInv, WritingSound
<1>2. WritingSound'
  BY <1>1 DEF WritingSound
<1>3. PICK entries, end, old : /\ entries = writing.entries /\ end = writing.end
                              /\ old.of \in Seq(Groups) /\ entries = Fitted(old, Rest(old))
                              /\ end \in NewEnds(entries, old)
  BY <1>1 DEF ContextInv, WritingSound
<1>4. CASE Fails("summarizer") \/ Fails("exceeded")
  BY <1>1, <1>2, <1>4, FailsSafe
<1>5. ASSUME NEW tokens \in SummaryTokens, NEW new, NEW rest,
             new = [of |-> SubSeq(transcript, 1, end), tokens |-> tokens, version |-> manager.version],
             rest = SubSeq(transcript, end + 1, Len(transcript)),
             WithinTarget(Estimate(entries, new, rest)),
             Prepares(entries, new, rest, TRUE, writing.expected)
      PROVE  ContextInv'
  <2>1. transcript \in Seq(Groups)
    BY DEF ContextInv, ContextTypes
  <2>2. end \in (Len(old.of) + 1)..(TailStart - 1)
    BY <1>3 DEF NewEnds, Ends
  <2>3. TailStart \in 1..Len(transcript)
    <3> DEFINE last == {i \in TurnStarts : Cardinality({j \in TurnStarts : j >= i}) = MinTurns}
    <3>1. TailStart = IF last = {} THEN 1 ELSE CHOOSE i \in last : TRUE
      BY DEF TailStart
    <3>2. last \subseteq 1..Len(transcript)
      BY <2>1 DEF TurnStarts
    <3> HIDE DEF last
    <3> QED
      BY <1>1, <3>1, <3>2
  <2>4. end \in 0..Len(transcript) /\ end < TailStart /\ Len(transcript) \in Nat
    <3>1. Len(old.of) \in Nat /\ Len(transcript) \in Nat
      BY <1>3, <2>1
    <3> QED
      BY <2>2, <2>3, <3>1
  <2>5. PICK of : of = SubSeq(transcript, 1, end)
    OBVIOUS
  <2>6. new.of = of /\ new.tokens = tokens
    BY <1>5, <2>5
  <2>7. Splits(Groups, transcript, end, of, SubSeq(transcript, end + 1, Len(transcript)))
    BY ONLY <2>1, <2>4, <2>5, SplitAt, Zenon
  <2>8. of \in Seq(Groups) /\ Len(of) = end
    BY ONLY <2>7, Zenon DEF Splits
  <2>9. Begins(new.of)
    BY <2>4, <2>5, <2>6, <2>8 DEF Begins
  <2>10. SummaryOk(new)
    BY <2>6, <2>8, <2>9, ContextAssumption DEF SummaryOk
  <2>11. /\ Rest(new) \in Seq(Groups) /\ new.of \o Rest(new) = transcript
         /\ Rest(new) = SubSeq(transcript, Len(transcript) - Len(Rest(new)) + 1, Len(transcript))
    BY <2>1, <2>6, <2>8, <2>9, RestOf
  <2>12. Rest(new) = rest
    BY <1>5, <2>6, <2>8 DEF Rest
  <2>13. FitsWith(entries, new, rest)
    <3>1. PICK e : e = Estimate(entries, new, rest)
      OBVIOUS
    <3>2. e \in Nat
      BY <2>10, <2>11, <2>12, <3>1, EstimateIs DEF SummaryOk
    <3>3. e <= Target /\ Target <= InputBudget /\ Target \in Nat /\ InputBudget \in Nat
      BY <1>5, <3>1, ContextAssumption DEF WithinTarget
    <3>4. e <= InputBudget
      BY ONLY <3>2, <3>3
    <3> QED
      BY <3>1, <3>4 DEF FitsWith
  <2>14. SettledBy(new)
    BY <1>3, <2>12, <2>13, FittedFits DEF SettledBy
  <2>15. Cardinality(TurnStarts) - Cardinality({i \in DOMAIN new.of : i \in TurnStarts}) >= MinTurns
    <3>1. Cardinality(TurnStarts) - Cardinality({i \in DOMAIN of : i \in TurnStarts}) >= MinTurns
      BY <1>1, <2>1, <2>4, <2>5, TurnsLeft
    <3> QED
      BY <2>6, <3>1
  <2>16. manager.limits = "world" => Protected \subseteq entries
    BY <1>3, FittedKeeps
  <2> QED
    BY <1>1, <1>2, <1>5, <2>10, <2>11, <2>12, <2>13, <2>14, <2>15, <2>16, PreparesSafe
<1> QED
  BY <1>1, <1>3, <1>4, <1>5 DEF SummarizerAnswers

LEMMA NoSummaryOk == ASSUME transcript \in Seq(Groups) PROVE SummaryOk(NoSummary)
<1>1. NoSummary.of = <<>> /\ NoSummary.tokens = 0 /\ Len(<<>>) = 0 /\ <<>> \in Seq(Groups)
  BY DEF NoSummary
<1>2. SubSeq(transcript, 1, 0) = <<>> /\ 0 <= Len(transcript)
  OBVIOUS
<1> QED
  BY <1>1, <1>2 DEF SummaryOk, Begins

LEMMA PrepareCompactingSafe == ASSUME ContextInv, PrepareCompacting PROVE ContextInv'
<1>1. PICK old : old = IF Valid THEN summary ELSE NoSummary
  OBVIOUS
<1>2. PICK entries : entries = Fitted(old, Rest(old))
  OBVIOUS
<1>3. /\ manager.kind = "compacting" /\ UNCHANGED <<transcript, summary, manager>> /\ writing.end = 0
      /\ IF FitsWith(entries, old, Rest(old))
         THEN Prepares(entries, old, Rest(old), old # summary, summary.of) /\ UNCHANGED writing
         ELSE \/ Fails("exceeded") /\ UNCHANGED writing
              \/ /\ TailStart # 1 /\ prepared' = NotPrepared
                 /\ \E end \in NewEnds(entries, old) :
                      writing' = [transcript |-> transcript, entries |-> entries, end |-> end,
                                  expected |-> summary.of]
  BY <1>1, <1>2 DEF PrepareCompacting, FitsWith, Waiting
<1>4. transcript \in Seq(Groups) /\ SummaryOk(summary) /\ manager.version \in {1, 2}
  BY DEF ContextInv, ContextTypes
<1>5. SummaryOk(old)
  BY <1>1, <1>4, NoSummaryOk
<1>6. /\ Rest(old) \in Seq(Groups) /\ old.of \o Rest(old) = transcript
      /\ Rest(old) = SubSeq(transcript, Len(transcript) - Len(Rest(old)) + 1, Len(transcript))
  BY <1>4, <1>5, RestOf DEF SummaryOk
<1>7. manager.limits = "world" => Protected \subseteq entries
  BY <1>2, FittedKeeps
<1>8. CASE FitsWith(entries, old, Rest(old))
  <2>1. SettledBy(old)
    BY <1>2, <1>8 DEF SettledBy
  <2>2. old # summary => ~Valid /\ old = NoSummary
    BY <1>1
  <2>3. ~(old # summary) /\ Valid => SettledBy(summary)
    BY <2>1
  <2>4. PICK commits \in BOOLEAN : commits = (old # summary)
    OBVIOUS
  <2>5. PICK rest : rest = Rest(old)
    OBVIOUS
  <2>6. commits /\ old # NoSummary =>
             Cardinality(TurnStarts) - Cardinality({i \in DOMAIN old.of : i \in TurnStarts}) >= MinTurns
    BY <2>2, <2>4
  <2>7. Prepares(entries, old, rest, commits, summary.of) /\ WritingSound'
    BY <1>3, <1>8, <2>4, <2>5 DEF WritingSound
  <2> QED
    BY <1>3, <1>5, <1>6, <1>7, <1>8, <2>1, <2>3, <2>4, <2>5, <2>6, <2>7, PreparesSafe
<1>9. CASE ~FitsWith(entries, old, Rest(old)) /\ Fails("exceeded") /\ UNCHANGED writing
  <2>1. WritingSound'
    BY <1>3, <1>9 DEF WritingSound
  <2> QED
    BY <1>3, <1>9, <2>1, FailsSafe
<1>10. CASE /\ ~FitsWith(entries, old, Rest(old)) /\ TailStart # 1 /\ prepared' = NotPrepared
            /\ \E end \in NewEnds(entries, old) :
                 writing' = [transcript |-> transcript, entries |-> entries, end |-> end,
                             expected |-> summary.of]
  <2>1. PICK end \in NewEnds(entries, old) :
             writing' = [transcript |-> transcript, entries |-> entries, end |-> end,
                         expected |-> summary.of]
    BY <1>10
  <2>2. writing'.end = end /\ writing'.transcript = transcript /\ writing'.entries = entries
    BY <2>1
  <2>3. old.of \in Seq(Groups)
    BY <1>5 DEF SummaryOk
  <2>4. UNCHANGED <<TailStart, Fitted(old, Rest(old)), NewEnds(entries, old)>>
    BY <1>3 DEF TailStart, TurnStarts, Fitted, Shown, Estimate, Rest, NewEnds, Ends
  <2>5. WritingSound'
    BY <1>2, <1>3, <1>10, <2>1, <2>2, <2>3, <2>4 DEF WritingSound
  <2>6. ContextTypes' /\ ~prepared'.commits /\ prepared'.outcome # "ok"
    BY <1>3, <1>10 DEF ContextInv, ContextTypes, SummaryOk, Begins, NotPrepared
  <2> QED
    BY <2>5, <2>6, UnpreparedSafe
<1> QED
  BY <1>3, <1>8, <1>9, <1>10

LEMMA WritingKept ==
    ASSUME WritingSound, UNCHANGED <<transcript, manager, writing>> PROVE WritingSound'
<1>1. UNCHANGED TailStart
  BY DEF TailStart, TurnStarts
<1>2. \A old : UNCHANGED Rest(old)
  BY DEF Rest
<1>3. \A old, groups : UNCHANGED Fitted(old, groups)
  BY DEF Fitted, Shown
<1>4. \A entries, old : UNCHANGED NewEnds(entries, old)
  BY <1>1 DEF NewEnds, Ends
<1> QED
  BY <1>1, <1>2, <1>3, <1>4 DEF WritingSound

\* The update is made for the summary there is.
LEMMA CommittedSafe ==
    ASSUME ContextInv, prepared.commits, summary' = prepared.summary, UNCHANGED <<transcript, manager>>,
           prepared' = [prepared EXCEPT !.commits = FALSE], WritingSound'
    PROVE  ContextInv'
<1>2. PICK o, e, s, g, c, x : prepared = [outcome |-> o, entries |-> e, summary |-> s, shown |-> g,
                                         commits |-> c, expected |-> x]
  BY DEF ContextInv, ContextTypes
<1>3. prepared' = [outcome |-> o, entries |-> e, summary |-> s, shown |-> g, commits |-> FALSE,
                   expected |-> x]
  BY <1>2
<1>4. /\ prepared.outcome = o /\ prepared.entries = e /\ prepared.summary = s /\ prepared.shown = g
      /\ prepared'.outcome = o /\ prepared'.entries = e /\ prepared'.summary = s /\ prepared'.shown = g
      /\ ~prepared'.commits /\ summary' = s
  BY <1>2, <1>3
<1>5. SummaryOk(s) /\ (s.version = manager.version => SettledBy(s))
  BY <1>4 DEF ContextInv, CommitsSound
<1>6. ContextTypes'
  <2>1. prepared' = [outcome |-> prepared'.outcome, entries |-> prepared'.entries,
                     summary |-> prepared'.summary, shown |-> prepared'.shown,
                     commits |-> prepared'.commits, expected |-> prepared'.expected]
    BY <1>3
  <2> QED
    BY <1>4, <1>5, <2>1 DEF ContextInv, ContextTypes, SummaryOk, Begins
<1>7. CommitsSound'
  BY <1>4 DEF CommitsSound
<1>8. NothingLost'
  BY <1>4 DEF ContextInv, NothingLost, TurnStarts
<1>9. CompactionSettles'
  BY <1>4, <1>5 DEF CompactionSettles, SettledBy, FitsWith, Valid, Rest, Fitted, Shown
<1> QED
  BY <1>6, <1>7, <1>8, <1>9 DEF ContextInv

LEMMA CommitCompactionSafe == ASSUME ContextInv, CommitCompaction PROVE ContextInv'
<1>1. prepared.commits /\ UNCHANGED <<transcript, manager, writing>>
  BY DEF CommitCompaction
<1>2. WritingSound'
  BY <1>1, WritingKept DEF ContextInv
<1>3. CASE summary' = prepared.summary /\ prepared' = [prepared EXCEPT !.commits = FALSE]
  BY <1>1, <1>2, <1>3, CommittedSafe
<1>4. CASE prepared' = NotPrepared /\ UNCHANGED summary
  <2>1. ContextTypes' /\ ~prepared'.commits /\ prepared'.outcome # "ok"
    BY <1>1, <1>4 DEF ContextInv, ContextTypes, SummaryOk, Begins, NotPrepared
  <2> QED
    BY <1>2, <2>1, UnpreparedSafe
<1> QED
  BY <1>3, <1>4 DEF CommitCompaction

LEMMA AppendGroupSafe == ASSUME ContextInv, AppendGroup PROVE ContextInv'
<1>1. PICK group \in Groups : transcript' = Append(transcript, group)
  BY DEF AppendGroup
<1>2. prepared' = NotPrepared /\ UNCHANGED <<summary, manager, writing>> /\ writing.end = 0
  BY DEF AppendGroup, Waiting
<1>3. PICK t : t = Append(transcript, group)
  OBVIOUS
<1>4. transcript \in Seq(Groups) /\ SummaryOk(summary) /\ manager.version \in {1, 2}
  BY DEF ContextInv, ContextTypes
<1>5. t \in Seq(Groups) /\ Len(t) = Len(transcript) + 1 /\ Len(transcript) \in Nat
  BY <1>3, <1>4
<1>6. PICK of, k : of = summary.of /\ k = Len(of)
  OBVIOUS
<1>7. of \in Seq(Groups) /\ k \in Nat /\ k <= Len(transcript) /\ of = SubSeq(transcript, 1, k)
  BY <1>4, <1>6 DEF SummaryOk, Begins
<1>8. SubSeq(t, 1, k) = SubSeq(transcript, 1, k)
  <2>1. \A i \in 1..k : t[i] = transcript[i]
    BY <1>3, <1>4, <1>7
  <2>2. SubSeq(t, 1, k) \in Seq(Groups) /\ Len(SubSeq(t, 1, k)) = k
    BY <1>5, <1>7
  <2>3. \A i \in 1..k : SubSeq(t, 1, k)[i] = SubSeq(transcript, 1, k)[i]
    BY <1>4, <1>5, <1>7, <2>1
  <2>4. PICK one, two : one = SubSeq(t, 1, k) /\ two = SubSeq(transcript, 1, k)
    OBVIOUS
  <2>5. /\ one \in Seq(Groups) /\ two \in Seq(Groups) /\ Len(one) = k /\ Len(two) = k
        /\ \A i \in 1..Len(one) : one[i] = two[i]
    BY <1>6, <1>7, <2>2, <2>3, <2>4
  <2>6. one = two
    BY ONLY <2>5, SeqEqual
  <2> QED
    BY <2>4, <2>6
<1>9. k <= Len(t) /\ of = SubSeq(t, 1, k)
  BY <1>5, <1>7, <1>8
<1>10. SummaryOk(summary)'
  BY <1>1, <1>2, <1>3, <1>4, <1>6, <1>9 DEF SummaryOk, Begins
<1>11. ContextTypes'
  BY <1>1, <1>2, <1>3, <1>4, <1>5, <1>10 DEF ContextTypes, NotPrepared
<1> QED
  BY <1>2, <1>11, UnpreparedSafe DEF NotPrepared, WritingSound

LEMMA ReopenSafe == ASSUME ContextInv, Reopen PROVE ContextInv'
<1>1. prepared' = NotPrepared /\ UNCHANGED <<transcript, summary>> /\ manager'.version \in {1, 2}
      /\ writing'.end = 0
  BY DEF Reopen, Managers, NotWriting
<1>2. ContextTypes'
  BY <1>1 DEF ContextInv, ContextTypes, SummaryOk, Begins, NotPrepared
<1> QED
  BY <1>1, <1>2, UnpreparedSafe DEF NotPrepared, WritingSound

LEMMA ContextNextSafe == ASSUME ContextInv, [ContextNext]_contextVars PROVE ContextInv'
<1>1. CASE UNCHANGED contextVars
  <2>1. WritingSound'
    BY <1>1, WritingKept DEF ContextInv, contextVars
  <2>2. ContextTypes' /\ CommitsSound'
    BY <1>1 DEF contextVars, ContextInv, ContextTypes, SummaryOk, Begins, CommitsSound, SettledBy, FitsWith,
       Rest, Fitted, Shown
  <2>3. NothingLost'
    BY <1>1 DEF contextVars, ContextInv, NothingLost, TurnStarts
  <2>4. CompactionSettles'
    BY <1>1 DEF contextVars, ContextInv, CompactionSettles, Valid, Begins, Rest, Fitted, Shown
  <2> QED
    BY <2>1, <2>2, <2>3, <2>4 DEF ContextInv
<1> QED
  BY <1>1, PrepareSimpleSafe, PrepareCompactingSafe, SummarizerAnswersSafe, CommitCompactionSafe,
     AppendGroupSafe, ReopenSafe
     DEF ContextNext

\* context/budget.py:219-365, context/world.py:202-270, loop.py:176-231: for any estimates,
\* limits, World and transcript, under any managers in turn, though a summary is written while
\* the Run waits: what is prepared under limits fits, the World's entries that are protected
\* and the last turns are in it, summary and messages make up the transcript, and after a
\* summary is committed what is there to be shown fits without another one.
THEOREM NothingIsLost == ContextSpec => []ContextSound
<1>1. ContextInv => ContextSound
  BY DEF ContextInv, ContextSound
<1> QED
  BY <1>1, ContextInitSafe, ContextNextSafe, PTL DEF ContextSpec

-----------------------------------------------------------------------------
\* ModelRegistry.

\* A name is registered once, and a default that was set is one of the names.
RegistryInv ==
    /\ models \in Seq(Configs)
    /\ RegistrySound

LEMMA RegistryInitSafe == RegistryInit => RegistryInv
<1> SUFFICES ASSUME RegistryInit PROVE RegistryInv
  OBVIOUS
<1>1. models \in Seq(Configs) /\ DOMAIN models = {}
  BY DEF RegistryInit
<1> QED
  BY <1>1 DEF RegistryInit, RegistryInv, RegistrySound, IsInjective, Reply

\* What leaves the registry with models of different names is accepted only with a default
\* that stands.
LEMMA LeavesSafe ==
    ASSUME NEW ms \in Seq(Configs), NEW default, NEW code \in {"registered", "default"},
           Leaves(ms, default, code), IsInjective([i \in DOMAIN ms |-> ms[i].name])
    PROVE  RegistryInv'
<1>1. /\ models' = ms /\ defaultModel' = default
      /\ reply' \in {Reply(TRUE, code, NoModel), Reply(FALSE, "config", NoModel)}
      /\ reply'.ok => DefaultStands(ms, default)
  BY DEF Leaves, Reply
<1>2. reply'.model = NoModel /\ reply'.code \in {"registered", "default", "config"}
  BY <1>1 DEF Reply
<1> QED
  BY <1>1, <1>2 DEF RegistryInv, RegistrySound, DefaultStands, Registered

LEMMA RegisterSafe ==
    ASSUME RegistryInv, NEW batch \in Seq(Configs), Register(batch)
    PROVE  RegistryInv'
<1>1. CASE /\ IsInjective([i \in DOMAIN batch |-> batch[i].name])
           /\ Registered(batch) \cap Registered(models) = {}
           /\ Leaves(models \o batch, defaultModel, "registered")
  <2> DEFINE all == models \o batch
  <2>1. models \in Seq(Configs) /\ IsInjective([i \in DOMAIN models |-> models[i].name])
    BY DEF RegistryInv, RegistrySound
  <2>2. all \in Seq(Configs)
    BY <2>1
  <2>3. ASSUME NEW i \in DOMAIN all, NEW j \in DOMAIN all, all[i].name = all[j].name
        PROVE  i = j
    <3> DEFINE n == Len(models)
    <3>1. n \in Nat /\ DOMAIN models = 1..n
      BY <2>1
    <3>2. \A k \in DOMAIN all : \/ k \in 1..n /\ all[k] = models[k]
                                \/ k - n \in DOMAIN batch /\ k \in Nat /\ all[k] = batch[k - n]
      BY <2>1
    <3>3. CASE i \in 1..n /\ j \in 1..n /\ all[i] = models[i] /\ all[j] = models[j]
      BY <2>1, <2>3, <3>1, <3>3 DEF IsInjective
    <3>4. CASE /\ i - n \in DOMAIN batch /\ j - n \in DOMAIN batch /\ i \in Nat /\ j \in Nat
               /\ all[i] = batch[i - n] /\ all[j] = batch[j - n]
      <4>1. i - n = j - n
        <5> HIDE DEF n, all
        <5> QED
          BY <1>1, <2>3, <3>4 DEF IsInjective
      <4> QED
        BY <3>1, <3>4, <4>1
    <3>5. ASSUME NEW k \in DOMAIN models, NEW l \in DOMAIN batch PROVE models[k].name # batch[l].name
      BY <1>1, <3>5 DEF Registered
    <3>6. CASE \/ i \in 1..n /\ all[i] = models[i] /\ j - n \in DOMAIN batch /\ all[j] = batch[j - n]
               \/ j \in 1..n /\ all[j] = models[j] /\ i - n \in DOMAIN batch /\ all[i] = batch[i - n]
      <4> HIDE DEF n, all
      <4> QED
        BY <2>3, <3>1, <3>5, <3>6
    <3> QED
      BY <2>3, <3>2, <3>3, <3>4, <3>6
  <2>4. IsInjective([i \in DOMAIN all |-> all[i].name])
    <3> HIDE DEF all
    <3> QED
      BY <2>3 DEF IsInjective
  <2> QED
    BY <1>1, <2>2, <2>4, LeavesSafe
<1>2. CASE Replies(Reply(FALSE, "duplicate", NoModel))
  BY <1>2 DEF Replies, Reply, RegistryInv, RegistrySound
<1> QED
  BY <1>1, <1>2 DEF Register

LEMMA ResolveModelSafe ==
    ASSUME RegistryInv, NEW name, NEW enabledOnly \in BOOLEAN, ResolveModel(name, enabledOnly)
    PROVE  RegistryInv'
<1> DEFINE asked == IF name = NoName THEN defaultModel ELSE name
           found == Standing(asked, enabledOnly)
           code == IF name = NoName THEN "byDefault" ELSE "byName"
<1>1. CASE found = {}
  <2>1. Replies(Reply(FALSE, "notFound", NoModel))
    BY <1>1 DEF ResolveModel
  <2> QED
    BY <2>1 DEF Replies, Reply, RegistryInv, RegistrySound
<1>2. CASE found # {}
  <2>1. Replies(Reply(TRUE, code, Foremost(found)))
    BY <1>2 DEF ResolveModel
  <2>2. models \in Seq(Configs) /\ found \subseteq DOMAIN models /\ DOMAIN models \subseteq Nat
    BY DEF RegistryInv, Standing, Candidates
  <2>3. PICK i \in found : Foremost(found) = models[i]
    <3>1. \E i \in found : \A j \in found : i <= j
      <4> HIDE DEF found
      <4> QED
        BY <1>2, <2>2, HasLeast
    <3> QED
      BY <3>1 DEF Foremost
  <2>4. models[i] \in ToSet(models) /\ asked \in {NoName, models[i].name}
    BY <2>2, <2>3 DEF ToSet, Standing
  <2>5. code = "byDefault" => defaultModel \in {NoName, models[i].name}
    BY <2>4
  <2>6. /\ reply'.model = models[i] /\ reply'.code = code /\ UNCHANGED <<models, defaultModel>>
    BY <2>1, <2>3 DEF Replies, Reply
  <2>7. code \in {"byDefault", "byName"}
    OBVIOUS
  <2> HIDE DEF code
  <2> QED
    BY <2>4, <2>5, <2>6, <2>7 DEF RegistryInv, RegistrySound, ToSet
<1> QED
  BY <1>1, <1>2

LEMMA RegistryNextSafe ==
    ASSUME RegistryInv, [RegistryNext]_registryVars PROVE RegistryInv'
<1>1. CASE UNCHANGED registryVars
  BY <1>1 DEF registryVars, RegistryInv, RegistrySound, DefaultStands, Registered
<1>2. ASSUME NEW m \in Configs, Register(<<m>>) PROVE RegistryInv'
  <2>1. <<m>> \in Seq(Configs)
    BY <1>2
  <2> QED
    BY <1>2, <2>1, RegisterSafe
<1>3. ASSUME NEW m \in Configs, NEW n \in Configs, Register(<<m, n>>) PROVE RegistryInv'
  <2>1. <<m, n>> \in Seq(Configs)
    BY <1>3
  <2> QED
    BY <1>3, <2>1, RegisterSafe
<1>4. ASSUME NEW name, SetDefault(name) PROVE RegistryInv'
  <2>1. models \in Seq(Configs) /\ IsInjective([i \in DOMAIN models |-> models[i].name])
    BY DEF RegistryInv, RegistrySound
  <2> QED
    BY <1>4, <2>1, LeavesSafe DEF SetDefault
<1>5. CASE Clear
  <2>1. models' \in Seq(Configs) /\ DOMAIN models' = {}
    BY <1>5 DEF Clear
  <2>2. reply'.code = "cleared" /\ reply'.model = NoModel
    BY <1>5 DEF Clear, Reply
  <2> QED
    BY <2>1, <2>2 DEF RegistryInv, RegistrySound, IsInjective
<1> QED
  BY <1>1, <1>2, <1>3, <1>4, <1>5, ResolveModelSafe DEF RegistryNext

\* registry.py:46-75, 88-128: whatever is registered, refused and cleared, a name stands for
\* one model, and what is resolved is registered.
THEOREM ResolvedIsRegistered == RegistrySpec => []RegistrySound
<1>1. RegistryInv => RegistrySound
  BY DEF RegistryInv
<1> QED
  BY <1>1, RegistryInitSafe, RegistryNextSafe, PTL DEF RegistrySpec

-----------------------------------------------------------------------------
\* ModelRequest.

\* One item of the context: released once it is on no list, unless a release failed.
MediaRecords == [resolved : {0, 1}, closed : {0, 1}, list : {"none", "content", "messages", "stream"}]
ItemSound(x, failed) ==
    /\ x \in MediaRecords
    /\ x.list # "none" => x.resolved = 1 /\ x.closed = 0
    /\ x.list = "none" => x.closed <= x.resolved /\ (~failed => x.closed = x.resolved)

\* The lists that media may be on, by where the call is.
ListsAt(pc) ==
    IF pc \in {"encoding", "unwindContent"} THEN {"none", "content", "messages"}
    ELSE IF pc = "unwindMessages" THEN {"none", "messages"}
    ELSE IF pc \in {"streaming", "closeStream", "closeMedia"} THEN {"none", "stream"}
    ELSE IF pc = "over" THEN {"none", "content", "messages", "stream"} ELSE {"none"}

RequestPcs == {"validating", "client", "encoding", "unwindContent", "unwindMessages", "streaming",
               "closeStream", "closeMedia", "closeClient", "over"}

MediaSound(lists) ==
    /\ media = [p \in Places(request) |-> media[p]]
    /\ \A p \in Places(request) : ItemSound(media[p], broken) /\ media[p].list \in lists

Has(item) == \E p \in Places(request) : request[p[1]][p[2]] = item
Encoded(p) == p[1] < place.message \/ (p[1] = place.message /\ p[2] < place.item)

\* Where the stream may be open.
MayBeOpen(pc) ==
    \/ pc \in {"streaming", "closeStream", "over"}
    \/ ~closable /\ pc \in {"closeMedia", "closeClient"}

RequestInv ==
    /\ closable \in BOOLEAN
    /\ request \in Requests /\ broken \in BOOLEAN
    /\ place \in [pc : RequestPcs, message : Nat, item : Nat]
    /\ MediaSound(ListsAt(place.pc))
    /\ opened \subseteq {"client", "stream"}
    /\ RequestAt("validating") \/ RequestAt("client") => place.message = 1 /\ place.item = 1 /\ opened = {}
    /\ ~MayBeOpen(place.pc) => "stream" \notin opened
    /\ RequestAt("over") /\ ~broken => opened \subseteq LeftOpen /\ \A p \in Places(request) : media[p].list = "none"
    /\ RequestAt("validating") \/ RequestAt("client") \/ RequestAt("encoding") =>
         \A p \in Places(request) : ~Encoded(p) => media[p].resolved = 0
    /\ RequestAt("encoding") =>
         \A p \in Places(request) : media[p].list = "content" => p[1] = place.message
    /\ RequestAt("encoding") => \A p \in Places(request) : Encoded(p) => request[p[1]][p[2]] # "file"
    /\ RequestAt("streaming") \/ ending = "ok" => ~Has("file")
    /\ Has("audio") => /\ RequestAt("validating") \/ RequestAt("over")
                       /\ opened = {} /\ \A p \in Places(request) : media[p].resolved = 0

\* The items of a context, and where they are.
LEMMA PlacesAre ==
    ASSUME RequestInv
    PROVE  /\ request \in Seq(Seq(Items))
           /\ \A p \in Places(request) : /\ p[1] \in Nat /\ p[2] \in Nat /\ p[1] >= 1 /\ p[2] >= 1
                                         /\ p[1] <= Len(request) /\ p[2] <= Len(request[p[1]])
                                         /\ p = <<p[1], p[2]>>
           /\ \A i \in 1..Len(request) : Len(request[i]) \in Nat
<1>1. request \in Seq(Seq(Items))
  BY ModelRequestAssumption DEF RequestInv
<1>2. \A i \in DOMAIN request : i \in 1..Len(request) /\ request[i] \in Seq(Items)
  BY <1>1
<1>3. ASSUME NEW p \in Places(request)
      PROVE  /\ p[1] \in Nat /\ p[2] \in Nat /\ p[1] >= 1 /\ p[2] >= 1
             /\ p[1] <= Len(request) /\ p[2] <= Len(request[p[1]]) /\ p = <<p[1], p[2]>>
  <2>1. PICK i \in DOMAIN request : p \in {i} \X DOMAIN request[i]
    BY DEF Places
  <2>2. p[1] = i /\ p[2] \in DOMAIN request[i] /\ p = <<p[1], p[2]>>
    BY <2>1
  <2>3. request[i] \in Seq(Items) /\ i \in 1..Len(request) /\ Len(request) \in Nat
    BY <1>1, <1>2, <2>1
  <2>4. p[2] \in 1..Len(request[i]) /\ Len(request[i]) \in Nat
    BY <2>2, <2>3
  <2> QED
    BY <2>2, <2>3, <2>4
<1>4. \A i \in 1..Len(request) : Len(request[i]) \in Nat
  BY <1>1
<1> QED
  BY <1>1, <1>3, <1>4

LEMMA RequestInitSafe == RequestInit => RequestInv
<1> SUFFICES ASSUME RequestInit PROVE RequestInv
  OBVIOUS
<1>1. \A p \in Places(request) : media[p] = [resolved |-> 0, closed |-> 0, list |-> "none"]
  BY DEF RequestInit
<1>2. place = [pc |-> "validating", message |-> 1, item |-> 1]
  BY DEF RequestInit, At
<1>3. MediaSound({"none"})
  BY <1>1 DEF RequestInit, MediaSound, ItemSound, MediaRecords
<1>4. place \in [pc : RequestPcs, message : Nat, item : Nat]
  BY <1>2 DEF RequestPcs
<1> QED
  <2>1. place.pc = "validating" /\ place.message = 1 /\ place.item = 1
    BY <1>2
  <2>2. ListsAt(place.pc) = {"none"}
    BY <2>1 DEF ListsAt
  <2>3. request \in Requests /\ broken \in BOOLEAN /\ closable \in BOOLEAN /\ opened = {} /\ ending = "none"
    BY DEF RequestInit
  <2> QED
    BY <1>1, <1>3, <1>4, <2>1, <2>2, <2>3 DEF RequestInv, RequestAt, MayBeOpen, LeftOpen

\* A step to another place, as it is written.
LEMMA Goes ==
    ASSUME RequestInv, NEW pc \in RequestPcs, RequestGoto(pc)
    PROVE  /\ place' = [pc |-> pc, message |-> place.message, item |-> place.item]
           /\ place' \in [pc : RequestPcs, message : Nat, item : Nat]
<1>1. place \in [pc : RequestPcs, message : Nat, item : Nat]
  BY DEF RequestInv
<1>2. place' = [pc |-> pc, message |-> place.message, item |-> place.item]
  BY <1>1 DEF RequestGoto
<1> QED
  BY <1>1, <1>2

LEMMA ValidateContextSafe == ASSUME RequestInv, ValidateContext PROVE RequestInv'
<1>1. /\ RequestAt("validating") /\ UNCHANGED <<request, owned, closable, media, opened, broken>>
      /\ MediaSound({"none"}) /\ ~RequestAt("over") /\ ~RequestAt("client") /\ ~RequestAt("encoding")
      /\ opened = {}
  BY DEF ValidateContext, RequestInv, ListsAt, RequestAt
<1>2. CASE Has("audio")
  <2>1. RequestGoto("over") /\ ending' = "capability"
    BY <1>2 DEF ValidateContext, Has
  <2>2. place' = [pc |-> "over", message |-> place.message, item |-> place.item]
        /\ place' \in [pc : RequestPcs, message : Nat, item : Nat]
    BY <2>1, Goes DEF RequestPcs
  <2>3. (MediaSound({"none"}))' /\ (MediaSound(ListsAt("over")))'
    BY <1>1 DEF MediaSound, ListsAt
  <2> QED
    BY <1>1, <1>2, <2>1, <2>2, <2>3 DEF RequestInv, RequestAt, Has, MediaSound
<1>3. CASE ~Has("audio")
  <2>1. RequestGoto("client") /\ UNCHANGED ending
    BY <1>3 DEF ValidateContext, Has
  <2>2. place' = [pc |-> "client", message |-> place.message, item |-> place.item]
        /\ place' \in [pc : RequestPcs, message : Nat, item : Nat]
    BY <2>1, Goes DEF RequestPcs
  <2>3. (MediaSound(ListsAt("client")))'
    BY <1>1 DEF MediaSound, ListsAt
  <2> QED
    BY <1>1, <1>3, <2>1, <2>2, <2>3 DEF RequestInv, RequestAt, Has, Encoded
<1> QED
  BY <1>2, <1>3

\* A context with audio goes no further.
LEMMA NoAudio ==
    ASSUME RequestInv, place.pc \notin {"validating", "over"} PROVE ~Has("audio")
  BY DEF RequestInv, RequestAt

\* A step after the encoding keeps what is needed, if the media and what is open are right.
LEMMA AfterEncoding ==
    ASSUME RequestInv, place.pc \notin {"validating", "over"},
           NEW pc \in RequestPcs \ {"validating", "client", "encoding"}, RequestGoto(pc),
           UNCHANGED <<request, closable>>, broken' \in BOOLEAN, (MediaSound(ListsAt(pc)))',
           opened' \subseteq {"client", "stream"},
           ~MayBeOpen(pc) => "stream" \notin opened',
           pc = "over" /\ ~broken' =>
             opened' \subseteq LeftOpen /\ \A p \in Places(request) : media'[p].list = "none",
           pc = "streaming" \/ ending' = "ok" => ~Has("file")
    PROVE  RequestInv'
<1>1. /\ place' = [pc |-> pc, message |-> place.message, item |-> place.item]
      /\ place' \in [pc : RequestPcs, message : Nat, item : Nat]
  BY Goes
<1>2. ~Has("audio") /\ (Has("audio"))' = Has("audio") /\ (Has("file"))' = Has("file")
  BY NoAudio DEF Has
<1>3. /\ place'.pc = pc /\ ~(RequestAt("validating"))' /\ ~(RequestAt("client"))' /\ ~(RequestAt("encoding"))'
      /\ (RequestAt("over"))' = (pc = "over") /\ (RequestAt("streaming"))' = (pc = "streaming")
      /\ (MayBeOpen(place.pc))' = MayBeOpen(pc) /\ LeftOpen' = LeftOpen
  BY <1>1 DEF RequestAt, MayBeOpen, LeftOpen
<1>4. (MediaSound(ListsAt(place.pc)))'
  BY <1>3
<1>5. request' \in Requests
  BY DEF RequestInv
<1> QED
  BY <1>1, <1>2, <1>3, <1>4, <1>5 DEF RequestInv

LEMMA MakeClientSafe == ASSUME RequestInv, MakeClient PROVE RequestInv'
<1>1. /\ RequestAt("client") /\ UNCHANGED <<request, owned, closable, media, broken>> /\ place.pc = "client"
      /\ MediaSound({"none"}) /\ opened = {} /\ ~Has("audio")
  BY NoAudio DEF MakeClient, RequestInv, ListsAt, RequestAt
<1>2. CASE RequestGoto("encoding") /\ opened' \subseteq {"client"} /\ UNCHANGED ending
  <2>1. /\ place' = [pc |-> "encoding", message |-> place.message, item |-> place.item]
        /\ place' \in [pc : RequestPcs, message : Nat, item : Nat]
    BY <1>2, Goes DEF RequestPcs
  <2>2. (MediaSound(ListsAt("encoding")))'
    BY <1>1 DEF MediaSound, ListsAt
  <2>3. place.message = 1 /\ place.item = 1
    BY <1>1 DEF RequestInv
  <2>4. \A p \in Places(request) : ~Encoded(p) /\ ~(Encoded(p))' /\ media[p].resolved = 0
    BY <1>1, <2>1, <2>3, PlacesAre DEF RequestInv, Encoded
  <2>5. ending' = "ok" => ~Has("file")
    BY <1>2 DEF RequestInv
  <2>6. \A p \in Places(request) : media'[p].list # "content"
    BY <1>1 DEF MediaSound
  <2> QED
    BY <1>1, <1>2, <2>1, <2>2, <2>4, <2>5, <2>6 DEF RequestInv, RequestAt, Has
<1>3. CASE Raises("provider") /\ UNCHANGED opened
  <2>1. (MediaSound(ListsAt("closeStream")))'
    BY <1>1 DEF MediaSound, ListsAt
  <2>2. RequestGoto("closeStream") /\ ending' = "provider" /\ broken' \in BOOLEAN
    BY <1>1, <1>3 DEF Raises, RequestInv
  <2> QED
    BY <1>1, <1>3, <2>1, <2>2, AfterEncoding DEF RequestPcs
<1> QED
  BY <1>1, <1>2, <1>3 DEF MakeClient

\* One item is changed.
LEMMA ItemPut ==
    ASSUME NEW lists, MediaSound(lists), NEW p \in Places(request), NEW x,
           ItemSound(x, broken'), x.list \in lists, broken => broken',
           media' = [media EXCEPT ![p] = x], UNCHANGED request
    PROVE  /\ (MediaSound(lists))' /\ media'[p] = x
           /\ \A q \in Places(request) \ {p} : media'[q] = media[q]
<1>1. /\ media'[p] = x /\ \A q \in Places(request) \ {p} : media'[q] = media[q]
      /\ media' = [q \in Places(request) |-> media'[q]]
  BY DEF MediaSound
<1>2. \A q \in Places(request) : ItemSound(media'[q], broken') /\ media'[q].list \in lists
  BY <1>1 DEF MediaSound, ItemSound
<1> QED
  BY <1>1, <1>2 DEF MediaSound

\* The media of one list are put on another.
LEMMA ListMoved ==
    ASSUME NEW lists, MediaSound(lists), NEW from, from # "none", NEW to \in {"messages", "stream"},
           media' = Moved(from, to), UNCHANGED <<request, broken>>
    PROVE  /\ (MediaSound((lists \ {from}) \cup {to}))'
           /\ \A p \in Places(request) : media'[p].resolved = media[p].resolved
<1>1. DOMAIN media = Places(request)
  BY DEF MediaSound
<1>2. ASSUME NEW p \in Places(request)
      PROVE  /\ ItemSound(media'[p], broken) /\ media'[p].list \in (lists \ {from}) \cup {to}
             /\ media'[p].resolved = media[p].resolved
  <2>1. media'[p] = IF media[p].list = from THEN [media[p] EXCEPT !.list = to] ELSE media[p]
    BY <1>1 DEF Moved
  <2>2. ItemSound(media[p], broken) /\ media[p].list \in lists /\ media[p] \in MediaRecords
    BY DEF MediaSound, ItemSound
  <2>3. CASE media[p].list = from
    BY <2>1, <2>2, <2>3 DEF ItemSound, MediaRecords
  <2>4. CASE media[p].list # from
    BY <2>1, <2>2, <2>4
  <2> QED
    BY <2>3, <2>4
<1>3. media' = [p \in Places(request) |-> media'[p]]
  BY <1>1 DEF Moved
<1> QED
  BY <1>2, <1>3 DEF MediaSound

LEMMA NextMessageSafe == ASSUME RequestInv, NextMessage PROVE RequestInv'
<1>1. /\ place.pc = "encoding" /\ place.message <= Len(request) /\ place.item > Len(request[place.message])
      /\ media' = Moved("content", "messages")
      /\ place' = [pc |-> "encoding", message |-> place.message + 1, item |-> 1]
      /\ UNCHANGED <<request, owned, closable, opened, ending, broken>>
      /\ place.message \in Nat /\ place.item \in Nat
  BY DEF NextMessage, RequestAt, At, RequestInv
<1>2. place' \in [pc : RequestPcs, message : Nat, item : Nat]
  BY <1>1 DEF RequestPcs
<1>3. MediaSound({"none", "content", "messages"})
  BY <1>1 DEF RequestInv, ListsAt
<1>4. /\ (MediaSound(({"none", "content", "messages"} \ {"content"}) \cup {"messages"}))'
      /\ \A p \in Places(request) : media'[p].resolved = media[p].resolved
  BY <1>1, <1>3, ListMoved
<1>5. (MediaSound(ListsAt("encoding")))'
  BY <1>4 DEF MediaSound, ListsAt
<1>6. \A p \in Places(request) : (Encoded(p))' <=> Encoded(p)
  <2> SUFFICES ASSUME NEW p \in Places(request) PROVE (Encoded(p))' <=> Encoded(p)
    OBVIOUS
  <2>1. /\ p[1] \in Nat /\ p[2] \in Nat /\ p[1] >= 1 /\ p[2] >= 1
        /\ p[1] <= Len(request) /\ p[2] <= Len(request[p[1]]) /\ Len(request[p[1]]) \in Nat
    BY PlacesAre
  <2>2. place'.message = place.message + 1 /\ place'.item = 1
    BY <1>1
  <2> QED
    BY SMTT(30), <1>1, <2>1, <2>2 DEF Encoded
<1>7. ~Has("audio") /\ (Has("audio"))' = Has("audio") /\ (Has("file"))' = Has("file")
  BY <1>1, NoAudio DEF Has
<1>8. \A p \in Places(request) : media'[p].list # "content"
  BY <1>1, <1>4 DEF MediaSound
<1> QED
  BY <1>1, <1>2, <1>4, <1>5, <1>6, <1>7, <1>8 DEF RequestInv, RequestAt, MayBeOpen, LeftOpen

LEMMA EncodeItemSafe == ASSUME RequestInv, EncodeItem PROVE RequestInv'
<1> DEFINE p == <<place.message, place.item>>
           item == request[place.message][place.item]
           new == [resolved |-> 1, closed |-> 0, list |-> "content"]
<1>1. /\ place.pc = "encoding" /\ p \in Places(request) /\ p[1] = place.message /\ p[2] = place.item
      /\ UNCHANGED <<request, owned, closable, opened, broken>> /\ broken \in BOOLEAN
      /\ place.message \in Nat /\ place.item \in Nat
  BY DEF EncodeItem, RequestAt, RequestInv
<1>2. MediaSound({"none", "content", "messages"})
  BY <1>1 DEF RequestInv, ListsAt
<1>3. media[p].resolved = 0 /\ ItemSound(media[p], broken)
  <2>1. ~Encoded(p)
    BY <1>1 DEF Encoded
  <2> QED
    BY <1>1, <1>2, <2>1 DEF RequestInv, RequestAt, MediaSound
<1>4. [media EXCEPT ![p] = Taken(@)] = [media EXCEPT ![p] = new]
  <2>1. media[p] \in MediaRecords /\ media[p].closed = 0
    BY <1>3 DEF ItemSound, MediaRecords
  <2>2. Taken(media[p]) = new
    BY <1>3, <2>1 DEF Taken
  <2> QED
    BY <2>2
<1>5. media' \in {media, [media EXCEPT ![p] = new]}
  BY <1>4 DEF EncodeItem
<1>6. ItemSound(new, broken)
  BY DEF ItemSound, MediaRecords
<1> HIDE DEF new
<1>7. /\ (MediaSound({"none", "content", "messages"}))'
      /\ \A q \in Places(request) \ {p} : media'[q] = media[q]
  <2>1. CASE media' = media
    BY <1>1, <1>2, <2>1 DEF MediaSound
  <2>2. CASE media' = [media EXCEPT ![p] = new]
    <3>1. new.list \in {"none", "content", "messages"}
      BY DEF new
    <3> QED
      BY <1>1, <1>2, <1>6, <2>2, <3>1, ItemPut
  <2> QED
    BY <1>5, <2>1, <2>2
<1>8. ~Has("audio") /\ (Has("audio"))' = Has("audio") /\ (Has("file"))' = Has("file")
  BY <1>1, NoAudio DEF Has
<1>9. CASE \E kind \in {"media", "capability", "cancelled"} : EncodingFails(kind)
  <2>1. RequestGoto("unwindContent") /\ ending' # "ok"
    BY <1>9 DEF EncodingFails
  <2>2. (MediaSound(ListsAt("unwindContent")))'
    BY <1>7 DEF ListsAt
  <2>3. "stream" \notin opened /\ opened \subseteq {"client", "stream"}
    BY <1>1 DEF RequestInv, RequestAt, MayBeOpen, LeftOpen
  <2> QED
    BY <1>1, <2>1, <2>2, <2>3, AfterEncoding DEF RequestPcs
<1>10. CASE item # "file" /\ place' = [place EXCEPT !.item = @ + 1] /\ UNCHANGED ending
  <2>1. place' = [pc |-> "encoding", message |-> place.message, item |-> place.item + 1]
    BY <1>1, <1>10 DEF RequestInv
  <2>2. place' \in [pc : RequestPcs, message : Nat, item : Nat]
    BY <1>1, <2>1 DEF RequestPcs
  <2>3. \A q \in Places(request) : (Encoded(q))' <=> Encoded(q) \/ q = p
    <3> SUFFICES ASSUME NEW q \in Places(request) PROVE (Encoded(q))' <=> Encoded(q) \/ q = p
      OBVIOUS
    <3>1. q[1] \in Nat /\ q[2] \in Nat /\ q = <<q[1], q[2]>>
      BY PlacesAre
    <3>2. place'.message = place.message /\ place'.item = place.item + 1
      BY <2>1
    <3>3. q = p <=> q[1] = place.message /\ q[2] = place.item
      BY <3>1
    <3> QED
      BY <1>1, <3>1, <3>2, <3>3 DEF Encoded
  <2>4. (MediaSound(ListsAt("encoding")))'
    BY <1>7 DEF ListsAt
  <2>5. place'.pc = "encoding"
    BY <2>1
  <2>6. \A q \in Places(request) : ~(Encoded(q))' => media'[q].resolved = 0
    BY <1>1, <1>7, <2>3 DEF RequestInv, RequestAt
  <2>7. request[p[1]][p[2]] = item
    BY <1>1
  <2>8. \A q \in Places(request) : (Encoded(q))' => request[q[1]][q[2]] # "file"
    BY <1>1, <1>10, <2>3, <2>7 DEF RequestInv, RequestAt
  <2>9. \A q \in Places(request) : media'[q].list = "content" => q[1] = place'.message
    BY <1>1, <1>7, <2>1 DEF RequestInv, RequestAt
  <2> QED
    BY <1>1, <1>8, <1>10, <2>2, <2>4, <2>5, <2>6, <2>8, <2>9 DEF RequestInv, RequestAt, MayBeOpen, LeftOpen
<1> QED
  BY <1>9, <1>10 DEF EncodeItem

LEMMA Closed ==
    ASSUME NEW lists, MediaSound(lists), "none" \in lists, NEW p \in Places(request),
           media[p].list # "none", media' = CloseOf(p), UNCHANGED <<request, broken>>
    PROVE  (MediaSound(lists))'
<1>1. ItemSound(media[p], broken) /\ media[p] \in MediaRecords /\ media[p].resolved = 1 /\ media[p].closed = 0
  BY DEF MediaSound, ItemSound
<1> DEFINE new == [resolved |-> 1, closed |-> 1, list |-> "none"]
<1>2. Returned(media[p]) = new
  BY <1>1 DEF Returned
<1>3. media' = [media EXCEPT ![p] = new]
  BY <1>2 DEF CloseOf
<1>4. ItemSound(new, broken) /\ new.list = "none"
  BY DEF ItemSound, MediaRecords
<1> HIDE DEF new
<1> QED
  BY <1>3, <1>4, ItemPut

LEMMA UnwindSafe ==
    ASSUME RequestInv,
           NEW pc \in {"unwindContent", "unwindMessages"}, NEW list \in {"content", "messages"},
           NEW next \in {"unwindMessages", "closeStream"}, Unwind(pc, list, next),
           ListsAt(next) \ {"stream"} = ListsAt(pc) \ {list}, list \in ListsAt(pc), "stream" \notin ListsAt(pc)
    PROVE  RequestInv'
<1>1. /\ place.pc = pc /\ MediaSound(ListsAt(pc)) /\ UNCHANGED <<request, owned, closable, opened>>
      /\ "stream" \notin opened /\ opened \subseteq {"client", "stream"} /\ broken \in BOOLEAN
      /\ "none" \in ListsAt(pc) /\ DOMAIN media = Places(request)
  BY DEF Unwind, RequestInv, RequestAt, MediaSound, ListsAt, MayBeOpen, LeftOpen
<1>2. ending = "ok" => ~Has("file")
  BY DEF RequestInv
<1>3. CASE Listed(list) = {} /\ RequestGoto(next) /\ UNCHANGED <<media, ending, broken>>
  <2>1. \A p \in Places(request) : media[p].list # list
    BY <1>1, <1>3 DEF Listed
  <2>2. (MediaSound(ListsAt(next)))'
    BY <1>1, <1>3, <2>1 DEF MediaSound
  <2> QED
    BY <1>1, <1>2, <1>3, <2>2, AfterEncoding DEF RequestPcs
<1>4. ASSUME NEW p \in Listed(list), media' = CloseOf(p), UNCHANGED <<place, ending, broken>>
      PROVE  RequestInv'
  <2>1. p \in Places(request) /\ media[p].list # "none"
    BY <1>1 DEF Listed
  <2>2. (MediaSound(ListsAt(pc)))'
    BY <1>1, <1>4, <2>1, Closed
  <2>3. RequestGoto(pc)
    BY <1>1, <1>4 DEF RequestGoto, RequestInv
  <2> QED
    BY <1>1, <1>2, <1>4, <2>2, <2>3, AfterEncoding DEF RequestPcs
<1>5. CASE /\ media' = [q \in DOMAIN media |-> IF q \in Listed(list)
                          THEN [media[q] EXCEPT !.list = "none"] ELSE media[q]]
           /\ broken' = TRUE /\ ending' \in {"provider", "cancelled"}
           /\ RequestGoto(next)
  <2>1. ASSUME NEW q \in Places(request)
        PROVE  ItemSound(media'[q], TRUE) /\ media'[q].list \in ListsAt(next)
    <3>1. media'[q] = IF media[q].list = list THEN [media[q] EXCEPT !.list = "none"] ELSE media[q]
      BY <1>1, <1>5 DEF Listed
    <3>2. ItemSound(media[q], broken) /\ media[q].list \in ListsAt(pc)
      BY <1>1 DEF MediaSound
    <3>3. CASE media[q].list = list
      <4>1. media'[q].list = "none" /\ media'[q].resolved = 1 /\ media'[q].closed = 0
            /\ media'[q] \in MediaRecords
        BY <3>1, <3>2, <3>3 DEF ItemSound, MediaRecords
      <4> QED
        BY <1>1, <4>1 DEF ItemSound
    <3>4. CASE media[q].list # list
      BY <1>1, <3>1, <3>2, <3>4 DEF ItemSound
    <3> QED
      BY <3>3, <3>4
  <2>2. media' = [q \in Places(request) |-> media'[q]]
    BY <1>1, <1>5
  <2>3. (MediaSound(ListsAt(next)))'
    BY <1>1, <1>5, <2>1, <2>2 DEF MediaSound
  <2> QED
    BY <1>1, <1>5, <2>3, AfterEncoding DEF RequestPcs
<1> QED
  BY <1>3, <1>4, <1>5 DEF Unwind

LEMMA OpenStreamSafe == ASSUME RequestInv, OpenStream PROVE RequestInv'
<1>1. /\ place.pc = "encoding" /\ place.message > Len(request) /\ media' = Moved("messages", "stream")
      /\ UNCHANGED <<request, owned, closable, broken>> /\ broken \in BOOLEAN
      /\ "stream" \notin opened /\ opened \subseteq {"client", "stream"} /\ place.message \in Nat
  BY DEF OpenStream, RequestInv, RequestAt, MayBeOpen, LeftOpen
<1>2. \A p \in Places(request) : Encoded(p)
  <2>1. Len(request) \in Nat
    BY PlacesAre
  <2> QED
    BY <1>1, <2>1, PlacesAre DEF Encoded
<1>3. ~Has("file")
  BY <1>1, <1>2 DEF Has, RequestInv, RequestAt
<1>4. MediaSound({"none", "content", "messages"})
  BY <1>1 DEF RequestInv, ListsAt
<1>5. \A p \in Places(request) : media[p].list # "content"
  <2>1. Len(request) \in Nat
    BY PlacesAre
  <2> QED
    BY <1>1, <2>1, PlacesAre DEF RequestInv, RequestAt
<1>6. MediaSound({"none", "messages"})
  BY <1>4, <1>5 DEF MediaSound
<1>7. (MediaSound(({"none", "messages"} \ {"messages"}) \cup {"stream"}))'
  BY <1>1, <1>6, ListMoved
<1>8. ({"none", "messages"} \ {"messages"}) \cup {"stream"} = {"none", "stream"}
  OBVIOUS
<1>9. (MediaSound(ListsAt("streaming")))' /\ (MediaSound(ListsAt("closeStream")))'
  BY <1>7, <1>8 DEF ListsAt
<1>10. CASE RequestGoto("streaming") /\ opened' = opened \cup {"stream"} /\ UNCHANGED ending
  BY <1>1, <1>3, <1>9, <1>10, AfterEncoding DEF RequestPcs, MayBeOpen, LeftOpen
<1>11. ASSUME NEW kind, Raises(kind), UNCHANGED opened PROVE RequestInv'
  BY <1>1, <1>3, <1>9, <1>11, AfterEncoding DEF RequestPcs, Raises
<1> QED
  BY <1>10, <1>11 DEF OpenStream

LEMMA EventsOverSafe == ASSUME RequestInv, StreamOver PROVE RequestInv'
<1>1. PICK kind : Raises(kind)
  BY DEF StreamOver
<1>2. /\ place.pc = "streaming" /\ ~Has("file") /\ MediaSound({"none", "stream"})
      /\ opened \subseteq {"client", "stream"} /\ broken \in BOOLEAN
      /\ UNCHANGED <<request, owned, closable, media, opened, broken>>
  BY DEF StreamOver, RequestInv, RequestAt, ListsAt
<1>3. (MediaSound(ListsAt("closeStream")))'
  BY <1>2 DEF MediaSound, ListsAt
<1> QED
  BY <1>1, <1>2, <1>3, AfterEncoding DEF RequestPcs, Raises, MayBeOpen, LeftOpen

\* A release that fails is told of, and leaves the media as they are.
LEMMA StaysSound ==
    ASSUME NEW lists, MediaSound(lists), NEW more, lists \subseteq more,
           UNCHANGED <<request, media>>, broken => broken'
    PROVE  (MediaSound(more))'
  BY DEF MediaSound, ItemSound

LEMMA CloseStreamSafe == ASSUME RequestInv, CloseStream PROVE RequestInv'
<1>1. /\ place.pc = "closeStream" /\ MediaSound({"none", "stream"}) /\ broken \in BOOLEAN
      /\ opened \subseteq {"client", "stream"} /\ UNCHANGED <<request, owned, closable, media>>
      /\ closable \in BOOLEAN
      /\ ending = "ok" => ~Has("file")
  BY DEF CloseStream, RequestInv, RequestAt, ListsAt
<1>2. CASE /\ opened' = IF closable THEN opened \ {"stream"} ELSE opened
           /\ RequestGoto("closeMedia") /\ UNCHANGED <<ending, broken>>
  <2>1. (MediaSound(ListsAt("closeMedia")))'
    BY <1>1, <1>2, StaysSound DEF ListsAt
  <2> QED
    BY <1>1, <1>2, <2>1, AfterEncoding DEF RequestPcs, MayBeOpen
<1>3. CASE /\ ending' \in {"raised", "cancelled"} /\ RequestGoto("over") /\ broken' = TRUE
           /\ UNCHANGED opened
  <2>1. {"none", "stream"} \subseteq ListsAt("over")
    BY DEF ListsAt
  <2>2. (MediaSound(ListsAt("over")))'
    BY <1>1, <1>3, <2>1, StaysSound
  <2> QED
    BY <1>1, <1>3, <2>2, AfterEncoding DEF RequestPcs, MayBeOpen, LeftOpen
<1> QED
  BY <1>2, <1>3 DEF CloseStream

LEMMA CloseMediaSafe == ASSUME RequestInv, CloseMedia PROVE RequestInv'
<1>1. /\ place.pc = "closeMedia" /\ MediaSound({"none", "stream"}) /\ broken \in BOOLEAN
      /\ opened \subseteq {"client", "stream"} /\ (closable => "stream" \notin opened)
      /\ closable \in BOOLEAN /\ UNCHANGED <<request, owned, closable, opened>>
      /\ ending = "ok" => ~Has("file")
  BY DEF CloseMedia, RequestInv, RequestAt, ListsAt, MayBeOpen
<1>2. CASE Listed("stream") = {} /\ RequestGoto("closeClient") /\ UNCHANGED <<media, ending, broken>>
  <2>1. MediaSound({"none"})
    BY <1>1, <1>2 DEF MediaSound, Listed
  <2>2. (MediaSound(ListsAt("closeClient")))'
    BY <1>2, <1>1, <2>1, StaysSound DEF ListsAt
  <2> QED
    BY <1>1, <1>2, <2>2, AfterEncoding DEF RequestPcs, MayBeOpen, LeftOpen
<1>3. ASSUME NEW p \in Listed("stream"), media' = CloseOf(p), UNCHANGED <<place, ending, broken>>
      PROVE  RequestInv'
  <2>1. p \in Places(request) /\ media[p].list # "none"
    BY <1>1 DEF Listed, MediaSound
  <2>2. (MediaSound({"none", "stream"}))'
    BY <1>1, <1>3, <2>1, Closed
  <2>3. (MediaSound(ListsAt("closeMedia")))'
    BY <2>2 DEF ListsAt
  <2>4. RequestGoto("closeMedia")
    BY <1>1, <1>3 DEF RequestGoto, RequestInv
  <2> QED
    BY <1>1, <1>3, <2>3, <2>4, AfterEncoding DEF RequestPcs, MayBeOpen, LeftOpen
<1>4. CASE ending' = "cancelled" /\ broken' = TRUE /\ RequestGoto("over") /\ UNCHANGED media
  <2>1. {"none", "stream"} \subseteq ListsAt("over")
    BY DEF ListsAt
  <2>2. (MediaSound(ListsAt("over")))'
    BY <1>1, <1>4, <2>1, StaysSound
  <2> QED
    BY <1>1, <1>4, <2>2, AfterEncoding DEF RequestPcs, MayBeOpen, LeftOpen
<1> QED
  BY <1>2, <1>3, <1>4 DEF CloseMedia

LEMMA CloseClientSafe == ASSUME RequestInv, CloseClient PROVE RequestInv'
<1>1. /\ place.pc = "closeClient" /\ MediaSound({"none"}) /\ broken \in BOOLEAN
      /\ opened \subseteq {"client", "stream"} /\ (closable => "stream" \notin opened)
      /\ closable \in BOOLEAN /\ UNCHANGED <<request, owned, closable, media>> /\ RequestGoto("over")
      /\ ending = "ok" => ~Has("file")
  BY DEF CloseClient, RequestInv, RequestAt, ListsAt, MayBeOpen
<1>2. \A p \in Places(request) : media'[p].list = "none"
  BY <1>1 DEF MediaSound
<1>3. {"none"} \subseteq ListsAt("over") /\ (broken => broken')
  BY <1>1 DEF ListsAt, CloseClient
<1>4. (MediaSound(ListsAt("over")))'
  BY <1>1, <1>3, StaysSound
<1>5. CASE opened' = opened \ {"client"} /\ UNCHANGED <<ending, broken>>
  <2>1. opened' \subseteq LeftOpen
    BY <1>1, <1>5 DEF LeftOpen
  <2> QED
    BY <1>1, <1>2, <1>4, <1>5, <2>1, AfterEncoding DEF RequestPcs, MayBeOpen, LeftOpen
<1>6. CASE ending' \in {"raised", "cancelled"} /\ broken' = TRUE /\ UNCHANGED opened
  BY <1>1, <1>2, <1>4, <1>6, AfterEncoding DEF RequestPcs, MayBeOpen, LeftOpen
<1> QED
  BY <1>5, <1>6 DEF CloseClient

LEMMA RequestNextSafe == ASSUME RequestInv, [RequestNext]_requestVars PROVE RequestInv'
<1>1. CASE UNCHANGED requestVars
  BY <1>1 DEF requestVars, RequestInv, MediaSound, RequestAt, Has, Encoded, MayBeOpen, LeftOpen
<1>2. CASE UnwindContent
  BY <1>2, UnwindSafe DEF UnwindContent, ListsAt
<1>3. CASE UnwindMessages
  BY <1>3, UnwindSafe DEF UnwindMessages, ListsAt
<1> QED
  BY <1>1, <1>2, <1>3, ValidateContextSafe, MakeClientSafe, EncodeItemSafe, NextMessageSafe,
     OpenStreamSafe, EventsOverSafe, CloseStreamSafe, CloseMediaSafe, CloseClientSafe DEF RequestNext

\* client.py:648-661, 878-881, 971-974: however a call ends, what it acquired is released,
\* unless a release itself fails where nothing catches it, or the stream is one without an
\* aclose, which is never closed; nothing is released twice; and a context with a modality
\* the Model does not have acquires nothing.
THEOREM AcquiredIsReleased == RequestSpec => []Released
<1>1. ASSUME RequestInv PROVE Released
  <2>1. /\ DOMAIN media = Places(request)
        /\ \A p \in Places(request) : ItemSound(media[p], broken)
    BY <1>1 DEF RequestInv, MediaSound
  <2>2. \A p \in Places(request) : media[p].closed <= media[p].resolved /\ media[p].resolved <= 1
    BY <2>1 DEF ItemSound, MediaRecords
  <2>3. RequestAt("over") /\ ~broken =>
          opened \subseteq LeftOpen /\ \A p \in Places(request) : media[p].closed = media[p].resolved
    BY <1>1, <2>1 DEF RequestInv, ItemSound
  <2> QED
    BY <1>1, <2>1, <2>2, <2>3 DEF Released, RequestInv, Has
<1> QED
  BY <1>1, RequestInitSafe, RequestNextSafe, PTL DEF RequestSpec

-----------------------------------------------------------------------------
\* ModelStream.

\* The fields of each event.
LEMMA EventFields ==
    ASSUME NEW i, NEW id, NEW name, NEW u, NEW calls, NEW call
    PROVE  /\ Event("begin").kind = "begin" /\ Event("text").kind = "text"
           /\ UsageIs(u).kind = "usage" /\ UsageIs(u).usage = u
           /\ Started(i, id, name).kind = "started" /\ Started(i, id, name).index = i
           /\ Started(i, id, name).id = id /\ Started(i, id, name).name = name
           /\ Arguments(i, id).kind = "arguments" /\ Arguments(i, id).index = i
           /\ Arguments(i, id).id = id
           /\ Completed(i, call).kind = "completed" /\ Completed(i, call).index = i
           /\ Completed(i, call).id = call.id /\ Completed(i, call).name = call.name
           /\ Response(calls, u).kind = "response" /\ Response(calls, u).calls = calls
           /\ Response(calls, u).usage = u
  BY DEF Event, UsageIs, Started, Arguments, Completed, Response

\* The calls of one side, by index.
CallRecord(call) == call \in [id : {call.id}, name : {call.name}, done : BOOLEAN]
CallMap(calls) ==
    /\ calls = [i \in DOMAIN calls |-> calls[i]]
    /\ \A i \in DOMAIN calls : CallRecord(calls[i])

\* What is there has the fields it should have.
StreamTypes ==
    /\ provider = [calls |-> provider.calls, text |-> provider.text, usage |-> provider.usage,
                   over |-> provider.over]
    /\ collector = [calls |-> collector.calls, usage |-> collector.usage,
                    response |-> collector.response, pc |-> collector.pc]
    /\ CallMap(provider.calls) /\ CallMap(collector.calls)
    /\ provider.over \in BOOLEAN
    /\ \E S : heard \in Seq(S)

\* The adapter was given one id for two calls.
SameId == \E i, j \in DOMAIN provider.calls : i # j /\ provider.calls[i].id = provider.calls[j].id

\* The adapter and the collector know the same calls, the adapter perhaps one name more.
Told(p, c) ==
    /\ DOMAIN p = DOMAIN c
    /\ \A i \in DOMAIN p :
         /\ c[i].id = p[i].id /\ c[i].done = p[i].done
         /\ c[i].name \in {NameMissing, p[i].name} /\ (c[i].done => c[i].name = p[i].name)
Mirrors ==
    /\ Told(provider.calls, collector.calls)
    /\ collector.usage = provider.usage
    /\ provider.over <=> collector.response # <<>>
    /\ heard = <<>> => DOMAIN provider.calls = {} /\ ~provider.over

StreamInv ==
    source = "adapter" =>
      /\ StreamTypes
      /\ collector.pc = "open" => Mirrors
      /\ collector.pc = "refused" /\ collector.response = <<>> => SameId

LEMMA StreamInitSafe == StreamInit => StreamInv
<1> SUFFICES ASSUME StreamInit PROVE StreamInv
  OBVIOUS
<1>1. DOMAIN provider.calls = {} /\ DOMAIN collector.calls = {} /\ collector.pc = "open"
  BY DEF StreamInit
<1>2. StreamTypes
  BY <1>1 DEF StreamInit, StreamTypes, CallMap
<1>3. Mirrors
  BY <1>1 DEF StreamInit, Mirrors, Told
<1> QED
  BY <1>1, <1>2, <1>3 DEF StreamInv

\* What the collector makes of an event it accepts.
LEMMA HeardFields ==
    ASSUME NEW e
    PROVE  LET c == Heard(e) IN
           /\ c = [calls |-> c.calls, usage |-> c.usage, response |-> c.response, pc |-> c.pc]
           /\ c.pc = collector.pc
           /\ e.kind \notin {"started", "completed"} => c.calls = collector.calls
           /\ e.kind \in {"started", "completed"} =>
                c.calls = WithCall(collector.calls, e.index,
                                   [id |-> e.id, name |-> e.name, done |-> e.kind = "completed"])
           /\ c.usage = IF e.kind = "usage" THEN e.usage ELSE collector.usage
           /\ c.response = IF e.kind = "response" THEN <<e.calls, e.usage>> ELSE collector.response
  BY DEF Heard

\* A call that is added to some, or changed among them.
LEMMA CallPut ==
    ASSUME NEW calls, CallMap(calls), NEW n, NEW call, CallRecord(call), NEW new, new = WithCall(calls, n, call)
    PROVE  CallMap(new)
  BY DEF CallMap, WithCall

LEMMA RecordDone ==
    ASSUME NEW call, CallRecord(call)
    PROVE  [call EXCEPT !.done = TRUE] = [id |-> call.id, name |-> call.name, done |-> TRUE]
<1>1. PICK new : new = [call EXCEPT !.done = TRUE]
  OBVIOUS
<1>2. new \in [id : {call.id}, name : {call.name}, done : BOOLEAN] /\ new.done = TRUE
  BY <1>1 DEF CallRecord
<1> QED
  BY <1>1, <1>2

\* An event that was heard.
LEMMA HeardGrows ==
    ASSUME \E S : heard \in Seq(S), NEW e, heard' = Append(heard, e)
    PROVE  heard' # <<>> /\ \E S : heard' \in Seq(S)
<1>1. PICK S : heard \in Seq(S)
  OBVIOUS
<1>2. heard \in Seq(S \cup {e})
  BY <1>1
<1>3. heard' \in Seq(S \cup {e}) /\ Len(heard') = Len(heard) + 1 /\ Len(heard) \in Nat
  BY <1>2
<1> QED
  BY <1>3

\* The adapter's part of a step does not matter where the collector refuses.
LEMMA Refuses ==
    ASSUME StreamTypes, NEW e, Hears(e), ~Accepts(e)
    PROVE  /\ collector' = [calls |-> collector.calls, usage |-> collector.usage,
                            response |-> collector.response, pc |-> "refused"]
           /\ UNCHANGED <<source, heard>>
  BY DEF Hears, StreamTypes

\* An event that is about no call is accepted.
LEMMA HearsPlain ==
    ASSUME StreamInv, source = "adapter", NEW e, Hears(e), e.kind \in {"begin", "usage", "text"},
           e.kind = "begin" <=> heard = <<>>, ~provider.over,
           UNCHANGED provider.calls, UNCHANGED provider.over,
           provider' = [calls |-> provider'.calls, text |-> provider'.text, usage |-> provider'.usage,
                        over |-> provider'.over],
           provider'.usage = IF e.kind = "usage" THEN e.usage ELSE provider.usage
    PROVE  StreamInv'
<1>1. StreamTypes /\ Mirrors /\ collector.pc = "open"
  BY DEF StreamInv, Hears
<1>2. Accepts(e)
  BY <1>1 DEF Accepts, Mirrors, Told
<1>3. collector' = Heard(e) /\ heard' = Append(heard, e) /\ source' = source
  BY <1>2 DEF Hears
<1>4. /\ collector' = [calls |-> collector'.calls, usage |-> collector'.usage,
                       response |-> collector'.response, pc |-> collector'.pc]
      /\ collector'.pc = "open" /\ collector'.calls = collector.calls
      /\ collector'.usage = provider'.usage /\ collector'.response = collector.response
  BY <1>1, <1>3, HeardFields DEF Mirrors, Told
<1>5. StreamTypes'
  BY <1>1, <1>3, <1>4, HeardGrows DEF StreamTypes
<1>6. Mirrors'
  <2>1. heard' # <<>>
    BY <1>1, <1>3, HeardGrows DEF StreamTypes
  <2> QED
    BY <1>1, <1>4, <2>1 DEF Mirrors, Told
<1> QED
  BY <1>3, <1>4, <1>5, <1>6 DEF StreamInv

\* A call that both put among theirs.
LEMMA PutTold ==
    ASSUME NEW p, NEW c, CallMap(p), CallMap(c), Told(p, c), NEW n, NEW call, CallRecord(call),
           NEW q, q = WithCall(p, n, call), NEW d, d = WithCall(c, n, call)
    PROVE  CallMap(q) /\ CallMap(d) /\ Told(q, d)
<1>1. CallMap(q) /\ CallMap(d)
  BY CallPut
<1>2. /\ DOMAIN q = DOMAIN p \cup {n} /\ q[n] = call
      /\ \A j \in DOMAIN p \ {n} : q[j] = p[j]
  BY DEF WithCall
<1>3. /\ DOMAIN d = DOMAIN c \cup {n} /\ d[n] = call
      /\ \A j \in DOMAIN c \ {n} : d[j] = c[j]
  BY DEF WithCall
<1> QED
  BY <1>1, <1>2, <1>3 DEF Told

\* An event that opens or completes a call, at both sides.
LEMMA CallHeard ==
    ASSUME StreamInv, source = "adapter", heard # <<>>, ~provider.over,
           NEW e, e.kind \in {"started", "completed"}, Hears(e), Accepts(e),
           NEW call, CallRecord(call), Heard(e).calls = WithCall(collector.calls, e.index, call),
           provider' = [calls |-> WithCall(provider.calls, e.index, call), text |-> provider.text,
                        usage |-> provider.usage, over |-> provider.over]
    PROVE  StreamInv'
<1>1. StreamTypes /\ Mirrors /\ collector.pc = "open"
  BY DEF StreamInv, Hears
<1>2. collector' = Heard(e) /\ heard' = Append(heard, e) /\ source' = source
  BY DEF Hears
<1>3. /\ collector' = [calls |-> collector'.calls, usage |-> collector'.usage,
                       response |-> collector'.response, pc |-> collector'.pc]
      /\ collector'.calls = WithCall(collector.calls, e.index, call)
      /\ collector'.usage = collector.usage /\ collector'.response = collector.response
      /\ collector'.pc = collector.pc
  BY <1>2, HeardFields
<1>4. /\ provider' = [calls |-> provider'.calls, text |-> provider'.text, usage |-> provider'.usage,
                      over |-> provider'.over]
      /\ provider'.calls = WithCall(provider.calls, e.index, call)
      /\ provider'.usage = provider.usage /\ provider'.over = provider.over
  OBVIOUS
<1>5. PICK p, c, q, d :
         /\ p = provider.calls /\ c = collector.calls /\ q = provider'.calls /\ d = collector'.calls
  OBVIOUS
<1>6. CallMap(p) /\ CallMap(c) /\ Told(p, c)
  BY <1>1, <1>5 DEF StreamTypes, Mirrors
<1>7. q = WithCall(p, e.index, call) /\ d = WithCall(c, e.index, call)
  BY <1>3, <1>4, <1>5
<1>8. CallMap(q) /\ CallMap(d) /\ Told(q, d)
  BY <1>6, <1>7, PutTold
<1>9. heard' # <<>> /\ StreamTypes'
  BY <1>1, <1>2, <1>3, <1>4, <1>5, <1>8, HeardGrows DEF StreamTypes
<1>10. Mirrors'
  BY <1>1, <1>3, <1>4, <1>5, <1>8, <1>9 DEF Mirrors
<1> QED
  BY <1>1, <1>2, <1>3, <1>9, <1>10 DEF StreamInv

\* Opening a call: refused only when another has its id.
LEMMA FragmentOpensSafe ==
    ASSUME StreamInv, source = "adapter", FragmentOpens PROVE StreamInv'
<1>1. PICK i \in Indexes \ DOMAIN provider.calls, id \in CallIds, name \in {"n", NameMissing} :
         /\ provider' = [provider EXCEPT
              !.calls = WithCall(@, i, [id |-> id, name |-> name, done |-> FALSE])]
         /\ Hears(Started(i, id, name))
  BY DEF FragmentOpens
<1>2. StreamTypes /\ Mirrors /\ collector.pc = "open" /\ heard # <<>> /\ ~provider.over
  BY <1>1 DEF StreamInv, Hears, FragmentOpens, Reading, Translating
<1>3. PICK e, new : e = Started(i, id, name) /\ new = [id |-> id, name |-> name, done |-> FALSE]
  OBVIOUS
<1>4. e.kind = "started" /\ e.index = i /\ e.id = id /\ e.name = name /\ Hears(e)
  BY <1>1, <1>3, EventFields
<1>5. provider' = [calls |-> WithCall(provider.calls, i, new), text |-> provider.text,
                   usage |-> provider.usage, over |-> provider.over]
  BY <1>1, <1>2, <1>3 DEF StreamTypes
<1>6. CallRecord(new) /\ new.id = id
  BY <1>3 DEF CallRecord
<1>7. CASE Accepts(e)
  <2>1. Heard(e).calls = WithCall(collector.calls, i, new)
    BY <1>3, <1>4 DEF Heard
  <2> QED
    BY <1>2, <1>4, <1>5, <1>6, <1>7, <2>1, CallHeard
<1>8. CASE ~Accepts(e)
  <2>1. PICK p, q, c :
           p = provider.calls /\ q = provider'.calls /\ c = collector.calls
    OBVIOUS
  <2>2. /\ collector' = [calls |-> c, usage |-> collector.usage,
                         response |-> collector.response, pc |-> "refused"]
        /\ UNCHANGED <<source, heard>>
    BY <1>2, <1>4, <1>8, <2>1, Refuses
  <2>3. CallMap(p) /\ CallMap(c) /\ Told(p, c) /\ q = WithCall(p, i, new) /\ i \notin DOMAIN p
    BY <1>1, <1>2, <1>5, <2>1 DEF StreamTypes, Mirrors
  <2>4. PICK k \in DOMAIN c : c[k].id = id
    BY <1>2, <1>4, <1>8, <2>1, <2>3 DEF Accepts, Mirrors, Known, Told
  <2>5. k \in DOMAIN p /\ k # i /\ p[k].id = id
    BY <2>3, <2>4 DEF Told
  <2>6. CallMap(q) /\ k \in DOMAIN q /\ i \in DOMAIN q /\ q[i] = new /\ q[k] = p[k]
    <3>1. CallMap(q)
      BY <1>6, <2>3, CallPut
    <3> QED
      BY <2>3, <2>5, <3>1 DEF WithCall
  <2>7. SameId'
    BY <1>6, <2>1, <2>5, <2>6 DEF SameId
  <2>8. StreamTypes'
    BY <1>2, <1>5, <2>1, <2>2, <2>3, <2>6 DEF StreamTypes
  <2> QED
    BY <2>2, <2>7, <2>8 DEF StreamInv
<1> QED
  BY <1>7, <1>8

LEMMA FragmentNamesSafe ==
    ASSUME StreamInv, source = "adapter", FragmentNames PROVE StreamInv'
<1>1. PICK i \in DOMAIN provider.calls :
         /\ provider.calls[i].name = NameMissing
         /\ provider' = [provider EXCEPT !.calls[i].name = "n"]
  BY DEF FragmentNames
<1> DEFINE p == provider.calls
           new == [id |-> p[i].id, name |-> "n", done |-> p[i].done]
<1>2. /\ StreamTypes /\ Mirrors /\ collector.pc = "open" /\ ~p[i].done
      /\ UNCHANGED <<source, heard, collector>>
  BY <1>1 DEF StreamInv, FragmentNames, Reading, Finishing, StreamTypes, CallMap, CallRecord
<1>3. CallRecord(p[i]) /\ CallMap(p)
  BY <1>1, <1>2 DEF StreamTypes, CallMap
<1>4. [p[i] EXCEPT !.name = "n"] = new
  BY <1>3 DEF CallRecord
<1>5. /\ provider' = [calls |-> provider'.calls, text |-> provider'.text, usage |-> provider.usage,
                      over |-> provider.over]
      /\ provider'.calls = [p EXCEPT ![i] = new]
  BY <1>1, <1>2, <1>4 DEF StreamTypes
<1>6. CallRecord(new)
  BY <1>3 DEF CallRecord
<1> HIDE DEF new
<1>7. /\ provider'.calls = [j \in DOMAIN p |-> provider'.calls[j]]
      /\ DOMAIN provider'.calls = DOMAIN p
      /\ provider'.calls[i] = new /\ \A j \in DOMAIN p \ {i} : provider'.calls[j] = p[j]
  BY <1>1, <1>3, <1>5 DEF CallMap
<1>8. CallMap(provider'.calls)
  BY <1>3, <1>6, <1>7 DEF CallMap
<1>9. StreamTypes'
  BY <1>2, <1>5, <1>8 DEF StreamTypes
<1>10. Mirrors'
  <2>1. new.id = p[i].id /\ new.done = p[i].done /\ new.name = "n"
    BY DEF new
  <2>2. collector.calls[i].name \in {NameMissing} /\ ~collector.calls[i].done
    BY <1>1, <1>2 DEF Mirrors, Told
  <2> QED
    BY <1>2, <1>5, <1>7, <2>1, <2>2 DEF Mirrors, Told
<1> QED
  BY <1>2, <1>9, <1>10 DEF StreamInv

LEMMA FragmentGoesOnSafe ==
    ASSUME StreamInv, source = "adapter", FragmentGoesOn PROVE StreamInv'
<1>1. PICK i \in DOMAIN provider.calls : Hears(Arguments(i, provider.calls[i].id))
  BY DEF FragmentGoesOn
<1> DEFINE e == Arguments(i, provider.calls[i].id)
<1>2. /\ StreamTypes /\ Mirrors /\ collector.pc = "open" /\ heard # <<>> /\ ~provider.over
      /\ ~provider.calls[i].done /\ UNCHANGED provider
  BY <1>1 DEF StreamInv, Hears, FragmentGoesOn, Reading, Finishing, Translating
<1>3. e.kind = "arguments" /\ e.index = i /\ e.id = provider.calls[i].id
  BY EventFields
<1> HIDE DEF e
<1>4. Accepts(e)
  BY <1>1, <1>2, <1>3 DEF Accepts, GoesOn, Known, State, Mirrors, Told
<1>5. collector' = Heard(e) /\ heard' = Append(heard, e) /\ source' = source
  BY <1>1, <1>4 DEF Hears, e
<1>6. /\ collector' = [calls |-> collector'.calls, usage |-> collector'.usage,
                       response |-> collector'.response, pc |-> collector'.pc]
      /\ collector'.calls = collector.calls /\ collector'.usage = collector.usage
      /\ collector'.response = collector.response
  BY <1>3, <1>5, HeardFields
<1>7. heard' # <<>> /\ StreamTypes'
  BY <1>2, <1>5, <1>6, HeardGrows DEF StreamTypes
<1>8. Mirrors' /\ collector'.pc = "open"
  BY ZenonT(40), <1>2, <1>3, <1>5, <1>6, <1>7, HeardFields DEF Mirrors, Told
<1> QED
  BY <1>5, <1>7, <1>8 DEF StreamInv

LEMMA CallDone ==
    ASSUME NEW p, CallMap(p), NEW i \in DOMAIN p
    PROVE  [p EXCEPT ![i].done = TRUE] = WithCall(p, i, [id |-> p[i].id, name |-> p[i].name, done |-> TRUE])
<1>1. CallRecord(p[i])
  BY DEF CallMap
<1>2. [p[i] EXCEPT !.done = TRUE] = [id |-> p[i].id, name |-> p[i].name, done |-> TRUE]
  BY <1>1, RecordDone
<1>3. PICK new : new = [id |-> p[i].id, name |-> p[i].name, done |-> TRUE]
  OBVIOUS
<1>4. [p EXCEPT ![i].done = TRUE] = [p EXCEPT ![i] = new]
  BY <1>2, <1>3
<1>5. [p EXCEPT ![i] = new] = WithCall(p, i, new)
  BY DEF CallMap, WithCall
<1> QED
  BY <1>3, <1>4, <1>5

LEMMA AdapterCompletesSafe ==
    ASSUME StreamInv, source = "adapter", AdapterCompletes PROVE StreamInv'
<1>1. PICK i \in NextOf(provider.calls) :
         /\ provider.calls[i].name # NameMissing
         /\ provider' = [provider EXCEPT !.calls[i].done = TRUE]
         /\ Hears(Completed(i, provider.calls[i]))
  BY DEF AdapterCompletes
<1>2. /\ StreamTypes /\ Mirrors /\ collector.pc = "open" /\ heard # <<>> /\ ~provider.over
  BY <1>1 DEF StreamInv, Hears, AdapterCompletes, Translating
<1>3. PICK p, c, e, new :
         /\ p = provider.calls /\ c = collector.calls /\ e = Completed(i, p[i])
         /\ new = [id |-> p[i].id, name |-> p[i].name, done |-> TRUE]
  OBVIOUS
<1>4. i \in DOMAIN p /\ ~p[i].done /\ CallMap(p) /\ Told(p, c)
  BY <1>1, <1>2, <1>3 DEF NextOf, StreamTypes, Mirrors
<1>5. e.kind = "completed" /\ e.index = i /\ e.id = p[i].id /\ e.name = p[i].name /\ Hears(e)
  BY <1>1, <1>3, EventFields
<1>6. CallRecord(new)
  BY <1>3 DEF CallRecord
<1>7. [p EXCEPT ![i].done = TRUE] = WithCall(p, i, new)
  BY <1>3, <1>4, CallDone
<1>8. provider' = [calls |-> WithCall(provider.calls, i, new), text |-> provider.text,
                   usage |-> provider.usage, over |-> provider.over]
  <2>1. provider' = [provider EXCEPT !.calls = [p EXCEPT ![i].done = TRUE]]
    BY <1>1, <1>3
  <2> QED
    BY <1>2, <1>3, <1>7, <2>1 DEF StreamTypes
<1>9. i \in DOMAIN c /\ ~c[i].done /\ c[i].id = p[i].id /\ c[i].name \in {NameMissing, p[i].name}
  BY <1>4 DEF Told
<1>10. Accepts(e)
  BY <1>2, <1>3, <1>5, <1>9 DEF Accepts, GoesOn, Known, State, Mirrors, Told
<1>11. Heard(e).calls = WithCall(collector.calls, i, new)
  BY <1>3, <1>5 DEF Heard
<1> QED
  BY <1>2, <1>5, <1>6, <1>8, <1>10, <1>11, CallHeard

\* The same is said of calls that are said the same of.
LEMMA InOrderSame ==
    ASSUME NEW calls, NEW others, DOMAIN calls = DOMAIN others,
           \A i \in DOMAIN calls : calls[i].id = others[i].id /\ calls[i].name = others[i].name
    PROVE  InOrder(calls) = InOrder(others)
<1>1. Named(calls) = Named(others)
  BY DEF Named
<1> QED
  BY <1>1 DEF InOrder

LEMMA AdapterRespondsSafe ==
    ASSUME StreamInv, source = "adapter", AdapterResponds PROVE StreamInv'
<1> DEFINE p == provider.calls
           c == collector.calls
           e == Response(InOrder(p), provider.usage)
<1>1. /\ StreamTypes /\ Mirrors /\ collector.pc = "open" /\ heard # <<>> /\ ~provider.over
      /\ \A i \in DOMAIN p : p[i].done
      /\ provider' = [provider EXCEPT !.over = TRUE] /\ Hears(e)
  BY DEF StreamInv, Hears, AdapterResponds, Translating
<1>2. e.kind = "response" /\ e.calls = InOrder(p) /\ e.usage = provider.usage
  BY EventFields
<1>3. InOrder(c) = InOrder(p)
  BY <1>1, InOrderSame DEF Mirrors, Told
<1> HIDE DEF e
<1>4. Accepts(e)
  BY <1>1, <1>2, <1>3 DEF Accepts, Mirrors, Told
<1>5. collector' = Heard(e) /\ heard' = Append(heard, e) /\ source' = source
  BY <1>1, <1>4 DEF Hears
<1>6. /\ collector' = [calls |-> collector'.calls, usage |-> collector'.usage,
                       response |-> collector'.response, pc |-> collector'.pc]
      /\ collector'.pc = "open" /\ collector'.calls = c /\ collector'.usage = collector.usage
      /\ collector'.response = <<e.calls, e.usage>>
  BY <1>1, <1>2, <1>5, HeardFields
<1>7. /\ provider' = [calls |-> provider'.calls, text |-> provider'.text, usage |-> provider'.usage,
                      over |-> TRUE]
      /\ provider'.calls = p /\ provider'.usage = provider.usage
  BY <1>1 DEF StreamTypes
<1>8. heard' # <<>> /\ StreamTypes'
  BY <1>1, <1>5, <1>6, <1>7, HeardGrows DEF StreamTypes
<1>9. collector'.response # <<>>
  BY <1>6
<1>10. Mirrors'
  BY <1>1, <1>6, <1>7, <1>8, <1>9 DEF Mirrors, Told
<1> QED
  BY <1>5, <1>6, <1>8, <1>10 DEF StreamInv

LEMMA AdapterPlainSafe ==
    ASSUME StreamInv, source = "adapter", AdapterBegins \/ ChunkPlain PROVE StreamInv'
<1>1. StreamTypes /\ (collector.pc = "open" => Mirrors)
  BY DEF StreamInv
<1>2. CASE AdapterBegins
  <2>1. Hears(Event("begin")) /\ UNCHANGED provider /\ heard = <<>> /\ collector.pc = "open"
    BY <1>2 DEF AdapterBegins, Hears
  <2>2. Event("begin").kind = "begin" /\ ~provider.over
    BY <1>1, <2>1, EventFields DEF Mirrors, Told
  <2> QED
    BY <1>1, <2>1, <2>2, HearsPlain DEF StreamTypes
<1>3. ASSUME NEW u \in Usages, provider' = [provider EXCEPT !.usage = u], Hears(UsageIs(u)), Reading
      PROVE  StreamInv'
  <2>1. UsageIs(u).kind = "usage" /\ UsageIs(u).usage = u /\ ~provider.over /\ heard # <<>>
    BY <1>3, EventFields DEF Reading, Translating
  <2>2. /\ provider' = [calls |-> provider.calls, text |-> provider.text, usage |-> u,
                        over |-> provider.over]
    BY <1>1, <1>3 DEF StreamTypes
  <2> QED
    BY <1>3, <2>1, <2>2, HearsPlain
<1>4. CASE Reading /\ provider' = [provider EXCEPT !.text = TRUE] /\ Hears(Event("text"))
  <2>1. Event("text").kind = "text" /\ ~provider.over /\ heard # <<>>
    BY <1>4, EventFields DEF Reading, Translating
  <2>2. /\ provider' = [calls |-> provider.calls, text |-> TRUE, usage |-> provider.usage,
                        over |-> provider.over]
    BY <1>1, <1>4 DEF StreamTypes
  <2> QED
    BY <1>4, <2>1, <2>2, HearsPlain
<1> QED
  BY <1>2, <1>3, <1>4 DEF ChunkPlain

\* An end that comes too early is one the adapter does not make.
LEMMA StreamOverSafe ==
    ASSUME StreamInv, source = "adapter", StreamEnds \/ StreamBreaks PROVE StreamInv'
<1>1. StreamTypes /\ Mirrors /\ UNCHANGED <<source, provider, heard>>
  BY DEF StreamInv, StreamEnds, StreamBreaks
<1>2. PICK pc \in {"refused", "returned", "failed"} :
         /\ collector' = [collector EXCEPT !.pc = pc]
         /\ pc = "refused" => provider.over
  BY DEF StreamEnds, StreamBreaks
<1>3. collector' = [calls |-> collector.calls, usage |-> collector.usage,
                    response |-> collector.response, pc |-> pc]
  BY <1>1, <1>2 DEF StreamTypes
<1>4. StreamTypes'
  BY <1>1, <1>3 DEF StreamTypes
<1> QED
  BY <1>1, <1>2, <1>3, <1>4 DEF StreamInv, Mirrors

LEMMA StreamNextSafe == ASSUME StreamInv, [StreamNext]_streamVars PROVE StreamInv'
<1>1. CASE UNCHANGED streamVars
  BY <1>1 DEF streamVars, StreamInv, StreamTypes, Mirrors, SameId
<1>2. CASE source # "adapter" /\ StreamNext
  <2>1. source' = source
    <3>1. OtherYields \/ StreamEnds \/ StreamBreaks
      BY <1>2 DEF StreamNext, AdapterBegins, ChunkPlain, FragmentOpens, FragmentNames, Reading,
          FragmentGoesOn, AdapterCompletes, AdapterResponds, Translating
    <3>2. ASSUME NEW e, Hears(e) PROVE source' = source
      BY <3>2 DEF Hears
    <3>3. CASE OtherYields
      BY <3>3, <3>2 DEF OtherYields
    <3> QED
      BY <3>1, <3>3 DEF StreamEnds, StreamBreaks
  <2> QED
    BY <1>2, <2>1 DEF StreamInv
<1>3. CASE source = "adapter" /\ StreamNext
  <2>1. ~OtherYields
    BY <1>3 DEF OtherYields
  <2> QED
    BY <1>3, <2>1, StreamOverSafe, AdapterPlainSafe, FragmentOpensSafe, FragmentNamesSafe,
       FragmentGoesOnSafe, AdapterCompletesSafe, AdapterRespondsSafe DEF StreamNext
<1> QED
  BY <1>1, <1>2, <1>3

\* client.py:664-780 against 346-528: however a provider cuts and mixes its fragments, the
\* collector refuses nothing the adapter yields, but a call that has the id of another.
THEOREM NothingIsRefused == StreamSpec => []AdapterAccepted
<1>1. StreamInv => AdapterAccepted
  BY DEF StreamInv, AdapterAccepted, SameId
<1> QED
  BY <1>1, StreamInitSafe, StreamNextSafe, PTL DEF StreamSpec

\* The members of a finite set of numbers in their order.
Enumerates(order, set) ==
    /\ order \in [1..Cardinality(set) -> set]
    /\ \A m, n \in 1..Cardinality(set) : m < n => order[m] < order[n]

LEMMA HasLargest ==
    ASSUME NEW V, IsFiniteSet(V), V \subseteq Nat, V # {}
    PROVE  \E t \in V : \A u \in V : u <= t
<1> DEFINE R == {pq \in V \X V : pq[1] > pq[2]}
<1>1. Orders(R, V)
  BY DEF Orders
<1>2. PICK t \in V : \A u \in V : <<u, t>> \notin R
  <2> HIDE DEF R
  <2> QED
    BY <1>1, FiniteHasLeast
<1>3. ASSUME NEW u \in V PROVE u <= t
  <2>1. u \in Nat /\ t \in Nat /\ ~(u > t)
    BY <1>2, <1>3
  <2> QED
    BY <2>1
<1> QED
  BY <1>3

LEMMA CanBeEnumerated ==
    ASSUME NEW T, IsFiniteSet(T), T \subseteq Nat
    PROVE  \E order : Enumerates(order, T)
<1> DEFINE Odd == {V \in SUBSET T : \A order : ~Enumerates(order, V)}
           Sizes == {Cardinality(V) : V \in Odd}
<1>1. SUFFICES ASSUME Odd # {} PROVE FALSE
  <2>1. T \notin Odd
    BY <1>1
  <2> QED
    BY <2>1
<1>2. \A V \in SUBSET T : IsFiniteSet(V) /\ Cardinality(V) \in Nat
  BY FS_Subset, FS_CardinalityType
<1>3. PICK k \in Sizes : \A j \in Sizes : k <= j
  <2>1. Sizes \subseteq Nat /\ Sizes # {}
    BY <1>1, <1>2
  <2> HIDE DEF Sizes, Odd
  <2> QED
    BY <2>1, HasLeast
<1>4. PICK V \in Odd : k = Cardinality(V)
  OBVIOUS
<1>5. V \in SUBSET T /\ IsFiniteSet(V) /\ k \in Nat /\ \A order : ~Enumerates(order, V)
  BY <1>2, <1>4
<1>6. CASE V = {}
  <2>1. Cardinality(V) = 0
    BY <1>6, FS_EmptySet
  <2>2. [n \in 1..0 |-> 0] \in [1..0 -> V]
    OBVIOUS
  <2>3. Enumerates([n \in 1..0 |-> 0], V)
    BY <2>1, <2>2 DEF Enumerates
  <2> QED
    BY <1>5, <2>3
<1>7. CASE V # {}
  <2>1. PICK t \in V : \A u \in V : u <= t
    BY <1>5, <1>7, HasLargest
  <2>2. PICK W : W = V \ {t}
    OBVIOUS
  <2>3. Cardinality(W) = k - 1 /\ Cardinality(W) \in Nat /\ W \in SUBSET T
    BY <1>2, <1>4, <1>5, <2>2, FS_RemoveElement
  <2>4. W \notin Odd
    <3>1. ~(k <= k - 1)
      BY <1>5
    <3> QED
      BY <1>3, <2>3, <3>1
  <2>5. PICK g : Enumerates(g, W)
    BY <2>3, <2>4
  <2>6. /\ g \in [1..(k - 1) -> W] /\ \A m, n \in 1..(k - 1) : m < n => g[m] < g[n]
    BY <2>3, <2>5 DEF Enumerates
  <2> DEFINE h == [n \in 1..k |-> IF n = k THEN t ELSE g[n]]
  <2>7. \A n \in 1..k : n # k => n \in 1..(k - 1)
    BY <1>5
  <2>8. h \in [1..k -> V]
    BY <2>2, <2>6, <2>7
  <2>9. ASSUME NEW m \in 1..k, NEW n \in 1..k, m < n PROVE h[m] < h[n]
    <3>1. m # k /\ m \in 1..(k - 1) /\ h[m] = g[m]
      BY <1>5, <2>7, <2>9
    <3>2. CASE n = k
      <4>1. g[m] \in V /\ g[m] # t
        BY <2>2, <2>6, <3>1
      <4>2. g[m] <= t /\ g[m] \in Nat /\ t \in Nat
        BY <1>5, <2>1, <4>1
      <4> QED
        BY <3>1, <3>2, <4>1, <4>2
    <3>3. CASE n # k
      BY <2>6, <2>7, <2>9, <3>1, <3>3
    <3> QED
      BY <3>2, <3>3
  <2> HIDE DEF h
  <2>10. Enumerates(h, V)
    BY <1>4, <2>8, <2>9 DEF Enumerates
  <2> QED
    BY <1>5, <2>10
<1> QED
  BY <1>6, <1>7

LEMMA IndexedEnumerates ==
    ASSUME NEW T, IsFiniteSet(T), T \subseteq Nat
    PROVE  Enumerates(Indexed(T), T)
<1>1. PICK g : Enumerates(g, T)
  BY CanBeEnumerated
<1>2. /\ g \in [1..Cardinality(T) -> T]
      /\ \A m, n \in DOMAIN g : m < n => g[m] < g[n]
  BY <1>1 DEF Enumerates
<1>3. /\ Indexed(T) \in [1..Cardinality(T) -> T]
      /\ \A m, n \in DOMAIN Indexed(T) : m < n => Indexed(T)[m] < Indexed(T)[n]
  BY <1>2 DEF Indexed
<1> QED
  BY <1>3 DEF Enumerates

\* What the history of events says of a call the collector knows: one event opened it, and
\* one completed it if it is complete; its arguments came after the one, before the other.
PositionsOf(i, call, starts, ends, goes) ==
    \E s \in DOMAIN heard :
      /\ starts = {s} /\ heard[s].id = call.id
      /\ \A n \in goes : s < n /\ heard[n].id = call.id
      /\ ~call.done => ends = {}
      /\ call.done => \E c \in DOMAIN heard :
                        /\ ends = {c} /\ s < c /\ heard[c].id = call.id /\ heard[c].name = call.name
                        /\ \A n \in goes : n < c
CallSound(i) ==
    PositionsOf(i, collector.calls[i], Position("started", i), Position("completed", i),
                Position("arguments", i))

\* No other call was heard of, ids are told once, and the last usage is known.
CallKinds == {"started", "arguments", "completed"}
CallsSound ==
    /\ IsFiniteSet(DOMAIN collector.calls) /\ DOMAIN collector.calls \subseteq Nat
    /\ \A i \in DOMAIN collector.calls : CallSound(i)
    /\ \A i, j \in DOMAIN collector.calls : collector.calls[i].id = collector.calls[j].id => i = j
    /\ \A n \in DOMAIN heard : heard[n].kind \in CallKinds => heard[n].index \in DOMAIN collector.calls
LastUsage ==
    \A n \in DOMAIN heard : heard[n].kind = "usage" =>
      /\ collector.usage # NoUsage
      /\ \/ heard[n].usage = collector.usage
         \/ \E m \in n + 1..Len(heard) : heard[m].kind = "usage"

\* The response is the last event and was compared with what came before it.
Responded ==
    /\ heard # <<>> /\ heard[Len(heard)].kind = "response"
    /\ \A i \in DOMAIN collector.calls : collector.calls[i].done
    /\ heard[Len(heard)].calls = InOrder(collector.calls)
    /\ collector.usage # NoUsage => heard[Len(heard)].usage = collector.usage

CollectInv ==
    /\ collector = [calls |-> collector.calls, usage |-> collector.usage,
                    response |-> collector.response, pc |-> collector.pc]
    /\ \E S : heard \in Seq(S)
    /\ CallsSound /\ LastUsage
    /\ collector.response # <<>> => Responded
    /\ collector.pc = "returned" => collector.response # <<>>

LEMMA CollectInitSafe == StreamInit => CollectInv
<1> SUFFICES ASSUME StreamInit PROVE CollectInv
  OBVIOUS
<1>1. /\ heard = <<>> /\ DOMAIN heard = {} /\ DOMAIN collector.calls = {}
      /\ collector.response = <<>> /\ collector.pc = "open"
      /\ collector = [calls |-> collector.calls, usage |-> collector.usage,
                    response |-> collector.response, pc |-> collector.pc]
  BY DEF StreamInit
<1>2. IsFiniteSet(DOMAIN collector.calls)
  BY <1>1, FS_EmptySet
<1>3. heard \in Seq({})
  BY <1>1
<1> QED
  BY <1>1, <1>2, <1>3 DEF CollectInv, CallsSound, LastUsage

\* Only how the collector ended has changed.
LEMMA CollectEnds ==
    ASSUME CollectInv, UNCHANGED heard, NEW pc, collector' = [collector EXCEPT !.pc = pc],
           pc = "returned" => collector.response # <<>>
    PROVE  CollectInv'
<1>1. collector' = [calls |-> collector.calls, usage |-> collector.usage,
                    response |-> collector.response, pc |-> pc]
  BY DEF CollectInv
<1>2. PICK c : c = collector.calls
  OBVIOUS
<1>3. collector'.calls = c
  BY <1>1, <1>2
<1>4. CallsSound'
  BY <1>2, <1>3 DEF CollectInv, CallsSound, CallSound, PositionsOf, Position
<1>5. LastUsage' /\ (collector'.response # <<>> => Responded')
  BY <1>1 DEF CollectInv, LastUsage, Responded
<1> QED
  BY <1>1, <1>4, <1>5 DEF CollectInv

\* One more event: where it is, and where the others are.
HeardOne(e) ==
    /\ Len(heard) \in Nat /\ Len(heard') = Len(heard) + 1
    /\ DOMAIN heard = 1..Len(heard) /\ DOMAIN heard' = 1..(Len(heard) + 1)
    /\ heard'[Len(heard) + 1] = e
    /\ \A n \in DOMAIN heard : heard'[n] = heard[n]

LEMMA HearsOne ==
    ASSUME CollectInv, NEW e, heard' = Append(heard, e)
    PROVE  /\ HeardOne(e) /\ \E S : heard' \in Seq(S)
           /\ \A kind, i : Position(kind, i)' = Position(kind, i) \cup
                             (IF e.kind = kind /\ e.index = i THEN {Len(heard) + 1} ELSE {})
<1>1. PICK S : heard \in Seq(S)
  BY DEF CollectInv
<1>2. heard \in Seq(S \cup {e}) /\ heard' \in Seq(S \cup {e})
  BY <1>1
<1>3. HeardOne(e)
  BY <1>2 DEF HeardOne
<1>4. ASSUME NEW kind, NEW i
      PROVE  Position(kind, i)' = Position(kind, i) \cup
                             (IF e.kind = kind /\ e.index = i THEN {Len(heard) + 1} ELSE {})
  <2>1. \A n \in DOMAIN heard' : n \in DOMAIN heard \/ n = Len(heard) + 1
    BY <1>3 DEF HeardOne
  <2>2. \A n \in DOMAIN heard : n \in DOMAIN heard' /\ n # Len(heard) + 1
    BY <1>3 DEF HeardOne
  <2>3. Len(heard) + 1 \in DOMAIN heard'
    BY <1>3 DEF HeardOne
  <2> QED
    BY <1>3, <2>1, <2>2, <2>3 DEF Position, HeardOne
<1> QED
  BY <1>2, <1>3, <1>4

\* The calls after one more event: the one it is about, and the others.
LEMMA CallsHeard ==
    ASSUME CollectInv, NEW e, HeardOne(e), Accepts(e), collector' = Heard(e),
           e.kind = "started" => e.index \in Nat,
           \A kind, i : Position(kind, i)' = Position(kind, i) \cup
                             (IF e.kind = kind /\ e.index = i THEN {Len(heard) + 1} ELSE {})
    PROVE  CallsSound'
<1> DEFINE cc == collector.calls
           L == Len(heard) + 1
<1>1. /\ IsFiniteSet(DOMAIN cc) /\ DOMAIN cc \subseteq Nat
      /\ \A i \in DOMAIN cc : CallSound(i)
      /\ \A i, j \in DOMAIN cc : cc[i].id = cc[j].id => i = j
      /\ \A n \in DOMAIN heard : heard[n].kind \in CallKinds => heard[n].index \in DOMAIN cc
  BY DEF CollectInv, CallsSound
<1>2. \A kind, i : Position(kind, i) \subseteq DOMAIN heard
  BY DEF Position
<1>3. /\ L \in DOMAIN heard' /\ heard'[L] = e /\ \A n \in DOMAIN heard : n < L
      /\ \A n \in DOMAIN heard' : n \in DOMAIN heard \/ n = L
      /\ \A n \in DOMAIN heard : n \in DOMAIN heard' /\ heard'[n] = heard[n]
  BY DEF HeardOne
<1>4. CASE e.kind \notin {"started", "completed", "arguments"}
  <2>1. collector'.calls = cc
    BY <1>4, HeardFields
  <2>2. \A i : /\ Position("started", i)' = Position("started", i)
               /\ Position("completed", i)' = Position("completed", i)
               /\ Position("arguments", i)' = Position("arguments", i)
    BY <1>4
  <2>3. ASSUME NEW i \in DOMAIN cc PROVE CallSound(i)'
    <3>1. PositionsOf(i, cc[i], Position("started", i), Position("completed", i),
                      Position("arguments", i))
      BY <1>1, <2>3 DEF CallSound
    <3> QED
      BY <1>2, <1>3, <2>1, <2>2, <3>1 DEF CallSound, PositionsOf
  <2> QED
    BY <1>1, <1>3, <1>4, <2>1, <2>3 DEF CallsSound, CallKinds
<1>5. CASE e.kind = "arguments"
  <2>1. collector'.calls = cc /\ e.index \in DOMAIN cc /\ ~cc[e.index].done /\ cc[e.index].id = e.id
    BY <1>5, HeardFields DEF Accepts, GoesOn, Known, State
  <2>2. \A i : /\ Position("started", i)' = Position("started", i)
               /\ Position("completed", i)' = Position("completed", i)
               /\ Position("arguments", i)' = Position("arguments", i) \cup
                                                (IF e.index = i THEN {L} ELSE {})
    BY <1>5
  <2>3. ASSUME NEW i \in DOMAIN cc PROVE CallSound(i)'
    <3>1. PositionsOf(i, cc[i], Position("started", i), Position("completed", i),
                      Position("arguments", i))
      BY <1>1, <2>3 DEF CallSound
    <3>2. CASE i = e.index
      <4>1. PICK s \in DOMAIN heard :
               /\ Position("started", i) = {s} /\ heard[s].id = cc[i].id
               /\ \A n \in Position("arguments", i) : s < n /\ heard[n].id = cc[i].id
               /\ Position("completed", i) = {}
        BY <2>1, <3>1, <3>2 DEF PositionsOf
      <4>2. \A n \in Position("arguments", i)' : s < n /\ heard'[n].id = cc[i].id
        BY <1>2, <1>3, <2>1, <2>2, <3>2, <4>1
      <4> QED
        BY <1>3, <2>1, <2>2, <3>2, <4>1, <4>2 DEF CallSound, PositionsOf
    <3>3. CASE i # e.index
      <4>1. Position("arguments", i)' = Position("arguments", i)
        BY <2>2, <3>3
      <4> QED
        BY <1>2, <1>3, <2>1, <2>2, <3>1, <4>1 DEF CallSound, PositionsOf
    <3> QED
      BY <3>2, <3>3
  <2> QED
    BY <1>1, <1>3, <1>5, <2>1, <2>3 DEF CallsSound, CallKinds
<1>6. CASE e.kind \in {"started", "completed"}
  <2> DEFINE new == [id |-> e.id, name |-> e.name, done |-> e.kind = "completed"]
  <2>1. PICK dd : dd = collector'.calls
    OBVIOUS
  <2>2. dd = WithCall(cc, e.index, new)
    BY <1>6, <2>1, HeardFields
  <2>3. /\ DOMAIN dd = DOMAIN cc \cup {e.index} /\ dd[e.index] = new
        /\ \A j \in DOMAIN cc \ {e.index} : dd[j] = cc[j]
    BY <2>2 DEF WithCall
  <2>4. /\ new.id = e.id /\ new.name = e.name /\ (new.done <=> e.kind = "completed")
        /\ new.done \in BOOLEAN
    OBVIOUS
  <2> HIDE DEF new
  <2>5. /\ e.kind = "started" => e.index \notin DOMAIN cc /\ \A j \in DOMAIN cc : cc[j].id # e.id
        /\ e.kind = "completed" => /\ e.index \in DOMAIN cc /\ ~cc[e.index].done
                                   /\ cc[e.index].id = e.id
    BY <1>6 DEF Accepts, GoesOn, Known, State
  <2>6. \A i : /\ Position("arguments", i)' = Position("arguments", i)
               /\ i # e.index => /\ Position("started", i)' = Position("started", i)
                                 /\ Position("completed", i)' = Position("completed", i)
    BY <1>6
  <2>7. ASSUME NEW i \in DOMAIN cc, i # e.index PROVE CallSound(i)'
    <3>1. PositionsOf(i, cc[i], Position("started", i), Position("completed", i),
                      Position("arguments", i))
      BY <1>1, <2>7 DEF CallSound
    <3>2. dd[i] = cc[i]
      BY <2>3, <2>7
    <3> QED
      BY <1>2, <1>3, <2>1, <2>6, <2>7, <3>1, <3>2 DEF CallSound, PositionsOf
  <2>8. CallSound(e.index)'
    <3>1. PICK i : i = e.index
      OBVIOUS
    <3>2. CASE e.kind = "started"
      <4>1. \A kind \in CallKinds : Position(kind, i) = {}
        BY <1>1, <2>5, <3>1, <3>2 DEF Position
      <4>2. /\ Position("started", i)' = {L} /\ Position("completed", i)' = {}
            /\ Position("arguments", i)' = {}
        BY <2>6, <3>1, <3>2, <4>1 DEF CallKinds
      <4> QED
        BY <1>3, <2>1, <2>3, <2>4, <3>1, <3>2, <4>2 DEF CallSound, PositionsOf
    <3>3. CASE e.kind = "completed"
      <4>1. PositionsOf(i, cc[i], Position("started", i), Position("completed", i),
                        Position("arguments", i))
        BY <1>1, <2>5, <3>1, <3>3 DEF CallSound
      <4>2. PICK s \in DOMAIN heard :
               /\ Position("started", i) = {s} /\ heard[s].id = cc[i].id
               /\ \A n \in Position("arguments", i) : s < n /\ heard[n].id = cc[i].id
               /\ Position("completed", i) = {}
        BY <2>5, <3>1, <3>3, <4>1 DEF PositionsOf
      <4>3. /\ Position("started", i)' = {s} /\ Position("completed", i)' = {L}
            /\ Position("arguments", i)' = Position("arguments", i)
        BY <2>6, <3>1, <3>3, <4>2
      <4>4. /\ s \in DOMAIN heard' /\ s < L /\ heard'[s].id = e.id
            /\ \A n \in Position("arguments", i) : s < n /\ n < L /\ heard'[n].id = e.id
        BY <1>2, <1>3, <2>5, <3>1, <3>3, <4>2
      <4> QED
        BY <1>3, <2>1, <2>3, <2>4, <3>1, <3>3, <4>3, <4>4 DEF CallSound, PositionsOf
    <3> QED
      BY <1>6, <3>2, <3>3
  <2>9. IsFiniteSet(DOMAIN dd) /\ DOMAIN dd \subseteq Nat
    <3>1. e.index \in Nat
      BY <1>1, <1>6, <2>5
    <3> QED
      BY <1>1, <2>3, <3>1, FS_AddElement
  <2>10. \A i, j \in DOMAIN dd : dd[i].id = dd[j].id => i = j
    BY <1>1, <1>6, <2>3, <2>4, <2>5
  <2>11. \A n \in DOMAIN heard' : heard'[n].kind \in CallKinds => heard'[n].index \in DOMAIN dd
    BY <1>1, <1>3, <2>3
  <2>12. \A i \in DOMAIN dd : CallSound(i)'
    BY <2>3, <2>7, <2>8
  <2> QED
    BY <2>1, <2>9, <2>10, <2>11, <2>12 DEF CallsSound
<1> QED
  BY <1>4, <1>5, <1>6

\* What any Model may yield.
LEMMA HearsSafe ==
    ASSUME CollectInv, NEW e, Hears(e), e.kind = "started" => e.index \in Nat,
           e.kind = "usage" => e.usage # NoUsage
    PROVE  CollectInv'
<1>1. CASE ~Accepts(e)
  BY <1>1, CollectEnds DEF Hears
<1>2. CASE Accepts(e)
  <2>1. /\ collector' = Heard(e) /\ heard' = Append(heard, e) /\ collector.response = <<>>
        /\ collector.pc = "open"
    BY <1>2 DEF Hears, Accepts
  <2>2. /\ collector' = [calls |-> collector'.calls, usage |-> collector'.usage,
                         response |-> collector'.response, pc |-> collector'.pc]
        /\ collector'.pc = "open"
        /\ collector'.usage = IF e.kind = "usage" THEN e.usage ELSE collector.usage
        /\ e.kind # "response" => collector'.response = <<>>
        /\ e.kind = "response" => collector'.calls = collector.calls
    BY <2>1, HeardFields
  <2>3. /\ HeardOne(e) /\ \E S : heard' \in Seq(S)
        /\ \A kind, i : Position(kind, i)' = Position(kind, i) \cup
                             (IF e.kind = kind /\ e.index = i THEN {Len(heard) + 1} ELSE {})
    BY <2>1, HearsOne
  <2>4. CallsSound'
    BY <1>2, <2>1, <2>3, CallsHeard
  <2>5. /\ Len(heard) + 1 \in DOMAIN heard' /\ heard'[Len(heard) + 1] = e
        /\ Len(heard') = Len(heard) + 1 /\ Len(heard) \in Nat
        /\ \A n \in DOMAIN heard' : n \in DOMAIN heard \/ n = Len(heard) + 1
        /\ \A n \in DOMAIN heard : n \in 1..Len(heard) /\ heard'[n] = heard[n]
    BY <2>3 DEF HeardOne
  <2>6. LastUsage'
    <3> SUFFICES ASSUME NEW n \in DOMAIN heard', heard'[n].kind = "usage"
                 PROVE  /\ collector'.usage # NoUsage
                        /\ \/ heard'[n].usage = collector'.usage
                           \/ \E m \in n + 1..Len(heard') : heard'[m].kind = "usage"
      BY DEF LastUsage
    <3>1. CASE n = Len(heard) + 1
      BY <2>2, <2>5, <3>1
    <3>2. CASE n # Len(heard) + 1
      <4>1. n \in DOMAIN heard /\ n \in 1..Len(heard) /\ heard[n].kind = "usage" /\ heard'[n] = heard[n]
        BY <2>5, <3>2
      <4>2. /\ collector.usage # NoUsage
            /\ \/ heard[n].usage = collector.usage
               \/ \E m \in n + 1..Len(heard) : heard[m].kind = "usage"
        BY <4>1 DEF CollectInv, LastUsage
      <4>3. CASE e.kind = "usage"
        <5>1. Len(heard) + 1 \in n + 1..Len(heard')
          BY <2>5, <4>1
        <5> QED
          BY <2>2, <2>5, <4>3, <5>1
      <4>4. CASE e.kind # "usage"
        <5>1. \A m \in n + 1..Len(heard) : m \in n + 1..Len(heard') /\ m \in DOMAIN heard
          BY <2>3, <2>5, <4>1 DEF HeardOne
        <5> QED
          BY <2>2, <2>5, <4>1, <4>2, <4>4, <5>1
      <4> QED
        BY <4>3, <4>4
    <3> QED
      BY <3>1, <3>2
  <2>7. collector'.response # <<>> => Responded'
    <3> SUFFICES ASSUME e.kind = "response" PROVE Responded'
      BY <2>2
    <3>1. /\ \A i \in DOMAIN collector.calls : collector.calls[i].done
          /\ e.calls = InOrder(collector.calls)
          /\ collector.usage # NoUsage => e.usage = collector.usage
      BY <1>2 DEF Accepts
    <3>2. heard' # <<>>
      BY <2>3, <2>5
    <3>3. InOrder(collector.calls)' = InOrder(collector.calls)
      BY <2>2 DEF InOrder, Named
    <3> QED
      BY <2>2, <2>5, <3>1, <3>2, <3>3 DEF Responded
  <2> QED
    BY <2>2, <2>3, <2>4, <2>6, <2>7 DEF CollectInv
<1> QED
  BY <1>1, <1>2

LEMMA CollectNextSafe == ASSUME CollectInv, [StreamNext]_streamVars PROVE CollectInv'
<1>1. CASE UNCHANGED streamVars
  <2>1. UNCHANGED <<heard, collector>>
    BY <1>1 DEF streamVars
  <2>2. CallsSound' /\ LastUsage' /\ (collector.response # <<>> => Responded')
    BY <2>1 DEF CollectInv, CallsSound, CallSound, PositionsOf, Position, LastUsage, Responded
  <2> QED
    BY <2>1, <2>2 DEF CollectInv
<1>2. CASE OtherYields
  <2>1. PICK e \in {Event("begin"), Event("text")} \cup {UsageIs(u) : u \in Usages}
             \cup {Started(i, id, name) : i \in Indexes, id \in CallIds, name \in {"n", NameMissing}}
             \cup {Arguments(i, id) : i \in Indexes, id \in CallIds}
             \cup {Completed(i, call) : i \in Indexes, call \in Calls}
             \cup {Response(calls, u) : calls \in {<<>>, InOrder(collector.calls)}, u \in Usages} :
           Hears(e)
    BY <1>2 DEF OtherYields
  <2>2. \/ e \in {Event("begin"), Event("text")}
        \/ \E u \in Usages : e = UsageIs(u)
        \/ \E i \in Indexes, id \in CallIds, name \in {"n", NameMissing} : e = Started(i, id, name)
        \/ \E i \in Indexes, id \in CallIds : e = Arguments(i, id)
        \/ \E i \in Indexes, call \in Calls : e = Completed(i, call)
        \/ \E calls \in {<<>>, InOrder(collector.calls)}, u \in Usages : e = Response(calls, u)
    OBVIOUS
  <2>3. (e.kind = "started" => e.index \in Nat) /\ (e.kind = "usage" => e.usage # NoUsage)
    <3>1. CASE e \in {Event("begin"), Event("text")}
      BY <3>1, EventFields
    <3>2. ASSUME NEW u \in Usages, e = UsageIs(u)
          PROVE  e.kind = "usage" /\ e.usage # NoUsage
      BY <3>2, EventFields DEF Usages, NoUsage
    <3>3. ASSUME NEW i \in Indexes, NEW id, NEW name, e = Started(i, id, name)
          PROVE  e.kind = "started" /\ e.index \in Nat
      BY <3>3, EventFields, ModelStreamAssumption
    <3>4. ASSUME NEW i, NEW id, e = Arguments(i, id) PROVE e.kind = "arguments"
      BY <3>4, EventFields
    <3>5. ASSUME NEW i, NEW call, e = Completed(i, call) PROVE e.kind = "completed"
      BY <3>5, EventFields
    <3>6. ASSUME NEW calls, NEW u, e = Response(calls, u) PROVE e.kind = "response"
      BY <3>6, EventFields
    <3> QED
      BY <2>2, <3>1, <3>2, <3>3, <3>4, <3>5, <3>6
  <2> QED
    BY <2>1, <2>3, HearsSafe
<1>3. CASE StreamEnds \/ StreamBreaks
  <2>1. PICK pc : /\ collector' = [collector EXCEPT !.pc = pc] /\ UNCHANGED heard
                  /\ pc = "returned" => collector.response # <<>>
    BY <1>3 DEF StreamEnds, StreamBreaks
  <2> QED
    BY <2>1, CollectEnds
<1>4. CASE AdapterBegins \/ ChunkPlain
  <2>1. PICK e : Hears(e) /\ (e = Event("begin") \/ e = Event("text") \/ \E u \in Usages : e = UsageIs(u))
    BY <1>4 DEF AdapterBegins, ChunkPlain
  <2>2. e.kind # "started" /\ (e.kind = "usage" => e.usage # NoUsage)
    BY <2>1, EventFields DEF Usages, NoUsage
  <2> QED
    BY <2>1, <2>2, HearsSafe
<1>5. CASE FragmentOpens
  <2>1. PICK i, id, name : i \in Indexes /\ Hears(Started(i, id, name))
    BY <1>5 DEF FragmentOpens
  <2>2. Started(i, id, name).kind = "started" /\ Started(i, id, name).index \in Nat
    BY <2>1, EventFields, ModelStreamAssumption
  <2> QED
    BY <2>1, <2>2, HearsSafe
<1>6. CASE FragmentNames
  <2>1. UNCHANGED <<heard, collector>>
    BY <1>6 DEF FragmentNames
  <2> QED
    BY <2>1 DEF CollectInv, CallsSound, CallSound, PositionsOf, Position, LastUsage, Responded
<1>7. CASE FragmentGoesOn
  <2>1. PICK i, id : Hears(Arguments(i, id))
    BY <1>7 DEF FragmentGoesOn
  <2> QED
    BY <2>1, EventFields, HearsSafe
<1>8. CASE AdapterCompletes
  <2>1. PICK i, call : Hears(Completed(i, call))
    BY <1>8 DEF AdapterCompletes
  <2> QED
    BY <2>1, EventFields, HearsSafe
<1>9. CASE AdapterResponds
  <2>1. PICK calls, u : Hears(Response(calls, u))
    BY <1>9 DEF AdapterResponds
  <2> QED
    BY <2>1, EventFields, HearsSafe
<1> QED
  BY <1>1, <1>2, <1>3, <1>4, <1>5, <1>6, <1>7, <1>8, <1>9 DEF StreamNext

LEMMA CountedOnce ==
    ASSUME NEW N \in Nat, NEW f, DOMAIN f = 1..N, \A m, n \in 1..N : f[m] = f[n] => m = n
    PROVE  Cardinality({f[n] : n \in 1..N}) = N
<1>1. PICK S : S = {f[n] : n \in 1..N}
  OBVIOUS
<1>2. [n \in 1..N |-> f[n]] \in Bijection(1..N, S)
  BY <1>1 DEF Bijection, Injection, Surjection, IsInjective
<1>3. ExistsBijection(1..N, S)
  BY <1>2 DEF ExistsBijection
<1>4. PICK a \in Int, b \in Int : a = 1 /\ b = N
  OBVIOUS
<1>5. IsFiniteSet(1..N) /\ Cardinality(1..N) = N
  BY <1>4, FS_Interval
<1> QED
  BY <1>1, <1>3, <1>5, FS_Bijection

\* client.py:346-528: whoever the Model is and however many events it yields, the response
\* that is returned says what the observer was shown: each of its calls was opened and
\* completed once, no other was opened, and it carries the last usage.
THEOREM ReturnedIsShown == StreamSpec => []ResponseAsStreamed
<1>1. CollectInv => ResponseAsStreamed
  <2> SUFFICES ASSUME CollectInv, collector.pc = "returned" PROVE ResponseAsStreamed
    BY DEF ResponseAsStreamed
  <2>1. Responded /\ CallsSound /\ LastUsage
    BY DEF CollectInv
  <2>2. PICK cc : cc = collector.calls
    OBVIOUS
  <2> DEFINE begun == {heard[n].index : n \in {m \in DOMAIN heard : heard[m].kind = "started"}}
             last == heard[Len(heard)]
  <2>3. begun = DOMAIN cc
    <3>1. \A n \in DOMAIN heard : heard[n].kind = "started" => heard[n].index \in DOMAIN cc
      BY <2>1, <2>2 DEF CallsSound, CallKinds
    <3>2. ASSUME NEW i \in DOMAIN cc PROVE \E n \in DOMAIN heard : heard[n].kind = "started" /\ heard[n].index = i
      BY <2>1, <2>2, <3>2 DEF CallsSound, CallSound, PositionsOf, Position
    <3> QED
      BY <3>1, <3>2
  <2>4. PICK order : order = Indexed(DOMAIN cc)
    OBVIOUS
  <2>5. PICK N \in Nat : N = Cardinality(DOMAIN cc)
    BY <2>1, <2>2, FS_CardinalityType DEF CallsSound
  <2>6. order \in [1..N -> DOMAIN cc] /\ \A m, n \in 1..N : m < n => order[m] < order[n]
    BY <2>1, <2>2, <2>4, <2>5, IndexedEnumerates DEF CallsSound, Enumerates
  <2>7. \A m, n \in 1..N : order[m] = order[n] => m = n
    <3>1. DOMAIN cc \subseteq Nat
      BY <2>1, <2>2 DEF CallsSound
    <3>2. ASSUME NEW m \in 1..N, NEW n \in 1..N, m # n PROVE order[m] # order[n]
      <4>1. order[m] \in Nat /\ order[n] \in Nat /\ (m < n \/ n < m)
        BY <2>6, <3>1, <3>2
      <4> QED
        BY <2>6, <4>1
    <3> QED
      BY <3>2
  <2>8. PICK calls : calls = last.calls
    OBVIOUS
  <2>9. calls = [n \in 1..N |-> [id |-> cc[order[n]].id, name |-> cc[order[n]].name]]
    <3>1. calls = InOrder(cc)
      BY <2>1, <2>2, <2>8 DEF Responded
    <3> QED
      BY <2>4, <2>6, <3>1 DEF InOrder, Named
  <2>10. Len(calls) = N /\ DOMAIN calls = 1..N
    BY <2>9
  <2>11. \A k \in 1..N : calls[k].id = cc[order[k]].id /\ calls[k].name = cc[order[k]].name
    BY <2>9
  <2>12. ASSUME NEW k \in 1..N
         PROVE \E s, c \in DOMAIN heard :
                /\ Position("started", order[k]) = {s} /\ Position("completed", order[k]) = {c} /\ s < c
                /\ heard[s].id = calls[k].id /\ heard[c].id = calls[k].id /\ heard[c].name = calls[k].name
                /\ \A n \in Position("arguments", order[k]) : s < n /\ n < c /\ heard[n].id = calls[k].id
    <3>1. order[k] \in DOMAIN cc /\ cc[order[k]].done
      BY <2>1, <2>2, <2>6 DEF Responded
    <3>2. CallSound(order[k])
      BY <2>1, <2>2, <3>1 DEF CallsSound
    <3> QED
      BY <2>2, <2>11, <3>1, <3>2 DEF CallSound, PositionsOf
  <2>13. Cardinality({calls[k].id : k \in DOMAIN calls}) = N
    <3>1. PICK f : f = [k \in 1..N |-> calls[k].id]
      OBVIOUS
    <3>2. \A m, n \in 1..N : f[m] = f[n] => m = n
      BY <2>1, <2>2, <2>6, <2>7, <2>11, <3>1 DEF CallsSound
    <3>3. Cardinality({f[k] : k \in 1..N}) = N
      BY <3>1, <3>2, CountedOnce
    <3>4. {f[k] : k \in 1..N} = {calls[k].id : k \in DOMAIN calls}
      BY <2>10, <3>1
    <3> QED
      BY <3>3, <3>4
  <2>14. \A n \in DOMAIN heard : heard[n].kind = "usage" =>
              \/ heard[n].usage = last.usage
              \/ \E m \in n + 1..Len(heard) : heard[m].kind = "usage"
    BY <2>1 DEF Responded, LastUsage
  <2>15. last.kind = "response" /\ Len(calls) = Cardinality(begun) /\ DOMAIN order = 1..N
         /\ order = Indexed(begun)
    BY <2>1, <2>3, <2>4, <2>5, <2>6, <2>10 DEF Responded
  <2> QED
    BY <2>8, <2>10, <2>12, <2>13, <2>14, <2>15 DEF ResponseAsStreamed
<1> QED
  BY <1>1, CollectInitSafe, CollectNextSafe, PTL DEF StreamSpec

-----------------------------------------------------------------------------
\* VisionTool.

CallRecords ==
    [pc : {"called", "resolve", "capture", "stream", "estimate", "observe", "claims", "ended"},
     world : BOOLEAN, tracker : BOOLEAN, run : BOOLEAN,
     outcome : {"none", "returned", "failed", "raised", "cancelled"}]

\* What a call leaves when it ends.
SettledCall ==
    /\ reports \in {<<>>, <<usage>>}
    /\ usage = "known" /\ observing.run =>
         reports = <<"known">> \/ (reports = <<>> /\ observing.outcome = "raised" /\ ~scopeOpen)
    /\ "claims" \in committed => "evidence" \in committed
    /\ (observing.run /\ "claims" \in committed) => "evidence" \in journal
    /\ (observing.run /\ "evidence" \in committed /\ journal = {}) =>
         observing.outcome = "raised" /\ ~scopeOpen
    /\ observing.outcome \in {"returned", "failed"} => (committed # {} <=> "evidence" \in effects)
    /\ observing.outcome = "failed" => (observing.world <=> "failed" \in effects)

\* A call has reported nothing before the stream is over, and has committed nothing before
\* it has asked the World.
ObservingInv ==
    /\ observing \in CallRecords
    /\ token \in BOOLEAN /\ scopeOpen \in BOOLEAN /\ usage \in {"known", "unknown"}
    /\ observing.pc \in {"called", "resolve", "capture"} => usage = "unknown"
    /\ observing.pc \in {"called", "resolve", "capture", "stream"} => reports = <<>>
    /\ observing.pc \in {"estimate", "observe", "claims"} =>
         reports = IF observing.run THEN <<usage>> ELSE <<>>
    /\ observing.pc \notin {"claims", "ended"} => committed = {} /\ effects = {} /\ journal = {}
    /\ observing.pc = "claims" =>
         /\ committed = {"evidence"} /\ effects = {"evidence"}
         /\ journal = IF observing.run THEN {"evidence"} ELSE {}
    /\ observing.pc = "ended" => SettledCall

LEMMA ObservingInitSafe == ObservingInit => ObservingInv
<1> SUFFICES ASSUME ObservingInit PROVE ObservingInv
  OBVIOUS
<1>1. PICK world \in BOOLEAN, tracks \in BOOLEAN, run \in BOOLEAN :
         observing = NewCall(world, tracks, run)
  BY DEF ObservingInit
<1>2. observing \in CallRecords /\ observing.pc = "called"
  BY <1>1 DEF NewCall, CallRecords
<1> QED
  BY <1>2 DEF ObservingInit, ObservingInv

\* The record of a call that goes on or ends.
LEMMA CallMoves ==
    ASSUME observing \in CallRecords
    PROVE  /\ \A outcome \in {"returned", "failed", "raised", "cancelled"} :
                LET x == [observing EXCEPT !.pc = "ended", !.outcome = outcome] IN
                /\ x \in CallRecords /\ x.pc = "ended" /\ x.outcome = outcome
                /\ x.run = observing.run /\ x.world = observing.world
           /\ \A pc \in {"resolve", "capture", "stream", "estimate", "observe", "claims"} :
                LET x == [observing EXCEPT !.pc = pc] IN
                /\ x \in CallRecords /\ x.pc = pc
                /\ x.run = observing.run /\ x.world = observing.world
  BY DEF CallRecords

EndsAs(outcome) ==
    /\ observing' \in CallRecords /\ observing'.pc = "ended" /\ observing'.outcome = outcome
    /\ observing'.run = observing.run /\ observing'.world = observing.world
Moves(pc) ==
    /\ observing' \in CallRecords /\ observing'.pc = pc
    /\ observing'.run = observing.run /\ observing'.world = observing.world

LEMMA ConcludesEnds ==
    ASSUME ObservingInv, NEW outcome \in {"returned", "failed", "raised", "cancelled"},
           ConcludesAlone(outcome)
    PROVE  EndsAs(outcome)
  BY CallMoves DEF ConcludesAlone, EndsAs, ObservingInv

LEMMA GoesOnMoves ==
    ASSUME ObservingInv, NEW pc \in {"resolve", "capture", "stream", "estimate", "observe", "claims"},
           GoesOnTo(pc)
    PROVE  Moves(pc) /\ UNCHANGED effects
  BY CallMoves DEF GoesOnTo, Moves, ObservingInv

\* A call that ends by itself, or fails, with what it has.
LEMMA ConcludesSafe ==
    ASSUME ObservingInv, observing.pc # "ended", UNCHANGED <<token, scopeOpen, journal, committed>>,
           usage' \in {"known", "unknown"},
           observing.pc # "stream" => UNCHANGED <<usage, reports>>,
           observing.pc = "stream" =>
             \/ observing.run /\ reports' = <<usage'>>
             \/ ~observing.run /\ reports' = <<>>
             \/ reports' = <<>> /\ ~scopeOpen /\ Concludes("raised"),
           \/ Concludes("raised") \/ Concludes("cancelled") \/ FailObservation
           \/ Concludes("returned")
    PROVE  ObservingInv'
<1>1. PICK outcome \in {"returned", "failed", "raised", "cancelled"} :
         /\ ConcludesAlone(outcome)
         /\ outcome = "failed" => effects' = IF observing.world THEN effects \cup {"failed"} ELSE effects
         /\ outcome # "failed" => UNCHANGED effects
  BY DEF Concludes, FailObservation
<1>2. EndsAs(outcome)
  BY <1>1, ConcludesEnds
<1>3. observing'.pc = "ended" /\ observing' \in CallRecords
  BY <1>2 DEF EndsAs
<1>4. /\ reports' \in {<<>>, <<usage'>>}
      /\ usage' = "known" /\ observing'.run =>
           reports' = <<"known">> \/ (reports' = <<>> /\ observing'.outcome = "raised" /\ ~scopeOpen')
  <2>1. CASE observing.pc = "stream"
    <3>1. CASE reports' = <<usage'>> \/ (~observing.run /\ reports' = <<>>)
      BY <1>2, <3>1 DEF EndsAs
    <3>2. CASE reports' = <<>> /\ ~scopeOpen /\ Concludes("raised")
      <4>1. observing'.outcome = "raised"
        BY <3>2, ConcludesEnds DEF Concludes, EndsAs
      <4> QED
        BY <3>2, <4>1
    <3> QED
      BY <2>1, <3>1, <3>2
  <2>2. CASE observing.pc \in {"called", "resolve", "capture"}
    BY <2>2 DEF ObservingInv
  <2>3. CASE observing.pc \in {"estimate", "observe", "claims"}
    BY <1>2, <2>3 DEF ObservingInv, EndsAs
  <2> QED
    BY <2>1, <2>2, <2>3 DEF ObservingInv, CallRecords
<1>5. /\ observing.pc = "claims" \/ (committed = {} /\ effects = {} /\ journal = {})
      /\ observing.pc = "claims" => /\ committed = {"evidence"} /\ effects = {"evidence"}
                                    /\ journal = IF observing.run THEN {"evidence"} ELSE {}
  BY DEF ObservingInv
<1>6. /\ observing'.outcome = outcome /\ observing'.run = observing.run
      /\ observing'.world = observing.world /\ observing.world \in BOOLEAN
  BY <1>2 DEF EndsAs, ObservingInv, CallRecords
<1>7. /\ "claims" \in committed' => "evidence" \in committed'
      /\ (observing'.run /\ "claims" \in committed') => "evidence" \in journal'
      /\ ~(observing'.run /\ "evidence" \in committed' /\ journal' = {})
  BY <1>5, <1>6
<1>8. /\ observing'.outcome \in {"returned", "failed"} => (committed' # {} <=> "evidence" \in effects')
      /\ observing'.outcome = "failed" => (observing'.world <=> "failed" \in effects')
  BY <1>1, <1>5, <1>6
<1> QED
  BY <1>3, <1>4, <1>7, <1>8 DEF ObservingInv, SettledCall

\* A call that goes on to pc.
LEMMA GoesOnSafe ==
    ASSUME ObservingInv, observing.pc # "ended", UNCHANGED <<token, scopeOpen, journal, committed, effects>>,
           usage' \in {"known", "unknown"},
           NEW pc \in {"resolve", "capture", "stream", "estimate", "observe"}, Moves(pc),
           observing.pc # "claims",
           pc \in {"resolve", "capture"} => usage' = "unknown",
           pc \in {"resolve", "capture", "stream"} => reports' = <<>>,
           pc \in {"estimate", "observe"} => reports' = IF observing.run THEN <<usage'>> ELSE <<>>
    PROVE  ObservingInv'
  BY DEF ObservingInv, Moves

LEMMA OthersSafe ==
    ASSUME ObservingInv, CancelObserving \/ GiveUpObserving PROVE ObservingInv'
<1>1. /\ UNCHANGED <<observing, effects, usage, reports, journal, committed>>
      /\ token' \in BOOLEAN /\ scopeOpen' \in BOOLEAN /\ (scopeOpen' => scopeOpen)
  <2>1. token \in BOOLEAN /\ scopeOpen \in BOOLEAN
    BY DEF ObservingInv
  <2>2. CASE CancelObserving
    BY <2>1, <2>2 DEF CancelObserving, Unreported, Uncommitted
  <2>3. CASE GiveUpObserving
    BY <2>1, <2>3 DEF GiveUpObserving, Unreported, Uncommitted
  <2> QED
    BY <2>2, <2>3
<1> QED
  BY <1>1 DEF ObservingInv, SettledCall

LEMMA BeforeStreamSafe ==
    ASSUME ObservingInv, ResolveTarget \/ Capture \/ Analyse PROVE ObservingInv'
<1>1. /\ observing.pc \in {"called", "resolve", "capture"}
      /\ UNCHANGED <<token, scopeOpen, usage, reports, journal, committed>>
      /\ usage = "unknown" /\ reports = <<>>
  BY DEF ResolveTarget, Capture, Analyse, Unreported, Uncommitted, ObservingInv
<1>2. \/ Concludes("raised") \/ Concludes("cancelled") \/ FailObservation
      \/ \E pc \in {"resolve", "capture", "stream"} : GoesOnTo(pc)
  BY DEF ResolveTarget, Capture, Analyse, MayFail, Unless
<1> QED
  BY <1>1, <1>2, ConcludesSafe, GoesOnSafe, GoesOnMoves

\* The stream is left by reporting, unless the scope is closed.
LEMMA ReportsSafe ==
    ASSUME ObservingInv, observing.pc = "stream", UNCHANGED <<token, scopeOpen, journal, committed>>,
           usage' \in {"known", "unknown"},
           \/ Reports(Concludes("raised")) \/ Reports(Concludes("cancelled"))
           \/ Reports(FailObservation) \/ Reports(GoesOnTo("estimate"))
    PROVE  ObservingInv'
<1>1. reports = <<>>
  BY DEF ObservingInv
<1>2. CASE observing.run /\ ~scopeOpen
  <2>1. Concludes("raised") /\ reports' = <<>>
    BY <1>1, <1>2 DEF Reports
  <2> QED
    BY <1>2, <2>1, ConcludesSafe
<1>3. CASE ~(observing.run /\ ~scopeOpen)
  <2>1. /\ \/ Concludes("raised") \/ Concludes("cancelled") \/ FailObservation \/ GoesOnTo("estimate")
        /\ reports' = IF observing.run THEN <<usage'>> ELSE <<>>
    BY <1>1, <1>3 DEF Reports
  <2> QED
    BY <2>1, ConcludesSafe, GoesOnSafe, GoesOnMoves
<1> QED
  BY <1>2, <1>3

LEMMA ModelEventSafe == ASSUME ObservingInv, ModelEvent PROVE ObservingInv'
<1>1. /\ observing.pc = "stream" /\ usage' \in {"known", "unknown"} /\ reports = <<>>
      /\ UNCHANGED <<token, scopeOpen, journal, committed>>
  BY DEF ModelEvent, Uncommitted, ObservingInv
<1>2. \/ Reports(Concludes("cancelled")) \/ Reports(FailObservation)
      \/ GoesOnTo("stream") /\ UNCHANGED reports
  BY DEF ModelEvent
<1> QED
  BY <1>1, <1>2, ReportsSafe, GoesOnSafe, GoesOnMoves

LEMMA ModelEndsSafe == ASSUME ObservingInv, ModelEnds PROVE ObservingInv'
<1>1. /\ observing.pc = "stream" /\ usage' \in {"known", "unknown"}
      /\ UNCHANGED <<token, scopeOpen, journal, committed>>
  BY DEF ModelEnds, Uncommitted, ObservingInv
<1>2. \/ Reports(Concludes("raised")) \/ Reports(Concludes("cancelled"))
      \/ Reports(FailObservation) \/ Reports(GoesOnTo("estimate"))
  BY DEF ModelEnds, Unless, Reports
<1> QED
  BY <1>1, <1>2, ReportsSafe

LEMMA EstimateSafe == ASSUME ObservingInv, EstimateAndTrack PROVE ObservingInv'
<1>1. /\ observing.pc = "estimate" /\ usage' \in {"known", "unknown"}
      /\ UNCHANGED <<token, scopeOpen, usage, reports, journal, committed>>
      /\ reports = IF observing.run THEN <<usage>> ELSE <<>>
  BY DEF EstimateAndTrack, Unreported, Uncommitted, ObservingInv
<1>2. \/ Concludes("raised") \/ Concludes("cancelled") \/ FailObservation \/ Concludes("returned")
      \/ GoesOnTo("observe")
  BY DEF EstimateAndTrack, MayFail, Unless
<1> QED
  BY <1>1, <1>2, ConcludesSafe, GoesOnSafe, GoesOnMoves

\* A closed scope refuses the receipt, and the call ends with that.
LEMMA CommitEvidenceSafe == ASSUME ObservingInv, CommitEvidence PROVE ObservingInv'
<1>1. /\ observing.pc = "observe" /\ UNCHANGED <<token, scopeOpen, usage, reports>>
      /\ usage \in {"known", "unknown"} /\ committed = {} /\ effects = {} /\ journal = {}
      /\ reports = IF observing.run THEN <<usage>> ELSE <<>>
      /\ observing \in CallRecords /\ token \in BOOLEAN /\ scopeOpen \in BOOLEAN
  BY DEF CommitEvidence, Unreported, ObservingInv
<1>2. CASE FailObservation /\ Uncommitted
  BY <1>1, <1>2, ConcludesSafe DEF Uncommitted
<1>3. CASE committed' = committed \cup {"evidence"} /\ Receipt
  <2>1. /\ committed' = {"evidence"} /\ effects' = {"evidence"}
        /\ journal' = IF observing.run /\ scopeOpen THEN {"evidence"} ELSE {}
    BY <1>1, <1>3 DEF Receipt
  <2>2. CASE observing.run /\ ~scopeOpen /\ ConcludesAlone("raised")
    <3>1. EndsAs("raised") /\ journal' = {}
      BY <2>1, <2>2, ConcludesEnds
    <3>2. SettledCall'
      BY <1>1, <2>1, <2>2, <3>1 DEF SettledCall, EndsAs
    <3> QED
      BY <1>1, <3>1, <3>2 DEF ObservingInv, EndsAs
  <2>3. CASE ~(observing.run /\ ~scopeOpen) /\ ConcludesAlone("cancelled")
    <3>1. EndsAs("cancelled") /\ journal' = IF observing.run THEN {"evidence"} ELSE {}
      BY <1>1, <2>1, <2>3, ConcludesEnds
    <3>2. SettledCall'
      BY <1>1, <2>1, <2>3, <3>1 DEF SettledCall, EndsAs
    <3> QED
      BY <1>1, <3>1, <3>2 DEF ObservingInv, EndsAs
  <2>4. CASE ~(observing.run /\ ~scopeOpen) /\ observing' = [observing EXCEPT !.pc = "claims"]
    <3>1. Moves("claims")
      BY <1>1, <2>4, CallMoves DEF Moves
    <3>2. journal' = IF observing.run THEN {"evidence"} ELSE {}
      BY <1>1, <2>1, <2>4
    <3> QED
      BY <1>1, <2>1, <3>1, <3>2 DEF ObservingInv, Moves
  <2> QED
    BY <1>3, <2>2, <2>3, <2>4 DEF Receipt
<1> QED
  BY <1>2, <1>3 DEF CommitEvidence

LEMMA CommitClaimsSafe == ASSUME ObservingInv, CommitClaims PROVE ObservingInv'
<1>1. /\ observing.pc = "claims" /\ UNCHANGED <<token, scopeOpen, usage, reports, journal>>
      /\ usage \in {"known", "unknown"} /\ committed = {"evidence"} /\ effects = {"evidence"}
      /\ reports = IF observing.run THEN <<usage>> ELSE <<>>
      /\ journal = IF observing.run THEN {"evidence"} ELSE {}
      /\ token \in BOOLEAN /\ scopeOpen \in BOOLEAN
  BY DEF CommitClaims, Unreported, ObservingInv
<1>2. CASE FailObservation /\ UNCHANGED committed
  BY <1>1, <1>2, ConcludesSafe
<1>3. CASE committed' = committed \cup {"claims"} /\ Concludes("returned")
  <2>1. EndsAs("returned") /\ UNCHANGED effects /\ committed' = {"evidence", "claims"}
    BY <1>1, <1>3, ConcludesEnds DEF Concludes
  <2>2. SettledCall'
    BY <1>1, <2>1 DEF SettledCall, EndsAs
  <2> QED
    BY <1>1, <2>1, <2>2 DEF ObservingInv, EndsAs
<1> QED
  BY <1>2, <1>3 DEF CommitClaims

LEMMA InterruptedSafe == ASSUME ObservingInv, Interrupted PROVE ObservingInv'
<1>1. /\ observing.pc # "ended" /\ UNCHANGED <<token, scopeOpen, usage, journal, committed>>
      /\ usage \in {"known", "unknown"}
      /\ IF observing.pc = "stream" THEN Reports(Concludes("cancelled"))
         ELSE Concludes("cancelled") /\ UNCHANGED reports
  BY DEF Interrupted, Unreported, Uncommitted, ObservingInv
<1> QED
  BY <1>1, ReportsSafe, ConcludesSafe

LEMMA ObservingNextSafe == ASSUME ObservingInv, [ObservingNext]_observingVars PROVE ObservingInv'
<1>1. CASE UNCHANGED observingVars
  BY <1>1 DEF observingVars, ObservingInv, SettledCall
<1> QED
  BY <1>1, OthersSafe, BeforeStreamSafe, ModelEventSafe, ModelEndsSafe, EstimateSafe,
     CommitEvidenceSafe, CommitClaimsSafe, InterruptedSafe DEF ObservingNext

\* tools.py:69-85, semantic.py:305-306: however a call of an observation Tool ends, what it
\* committed to the World is known to the execution, and what its Model used is reported.
THEOREM ObservationsAreAccounted == ObservingSpec => []ObservationAccounted
<1>1. ObservingInv => ObservationAccounted
  <2> SUFFICES ASSUME ObservingInv PROVE ObservationAccounted
    OBVIOUS
  <2>1. EvidenceJournalled
    BY DEF ObservingInv, SettledCall, EvidenceJournalled, CallRecords
  <2>2. UsageReported
    <3>1. reports = <<>> \/ \E u \in {"known", "unknown"} : reports = <<u>>
      BY DEF ObservingInv, SettledCall, CallRecords
    <3>2. Len(reports) <= 1
      BY <3>1
    <3> QED
      BY <3>2 DEF ObservingInv, SettledCall, UsageReported
  <2> QED
    BY <2>1, <2>2 DEF ObservationAccounted
<1> QED
  BY <1>1, ObservingInitSafe, ObservingNextSafe, PTL DEF ObservingSpec

-----------------------------------------------------------------------------
\* The composition: a part does its own steps, or none.

LEMMA PartsAlone ==
    ASSUME [Next]_vars
    PROVE  /\ [RegistryNext]_registryVars /\ [RequestNext]_requestVars
           /\ [StreamNext]_streamVars /\ [ObservingNext]_observingVars
<1>1. CASE UNCHANGED vars
  BY <1>1 DEF vars
<1>2. CASE Next
  <2>1. Alone
    BY <1>2 DEF Next
  <2> DEFINE p == part
  <2>2. /\ p # "registry" => UNCHANGED registryVars
        /\ p # "request" => UNCHANGED requestVars
        /\ p # "stream" => UNCHANGED streamVars
        /\ p # "observing" => UNCHANGED observingVars
    BY <2>1 DEF Alone
  <2>3. /\ p = "registry" => RegistryNext
        /\ p = "request" => RequestNext
        /\ p = "stream" => StreamNext
        /\ p = "observing" => ObservingNext
    BY <1>2 DEF Next
  <2> HIDE DEF p
  <2> QED
    BY <2>2, <2>3
<1> QED
  BY <1>1, <1>2

\* model/registry.py, model/client.py, interaction/vision/tools.py, whatever else the Run
\* uses: the Model that is resolved is one that is registered, the collector refuses
\* nothing its own adapter says but an id given twice, a call releases what it acquired,
\* and what an observation committed is known to the execution.
THEOREM CallsAreAccounted == Spec => []CallsAccounted
<1>1. Init => RegistryInit /\ RequestInit /\ StreamInit /\ ObservingInit
  BY DEF Init
<1>2. Spec => RegistrySpec /\ RequestSpec /\ StreamSpec /\ ObservingSpec
  BY <1>1, PartsAlone, PTL DEF Spec, RegistrySpec, RequestSpec, StreamSpec, ObservingSpec
<1>3. RegistrySound /\ Released /\ AdapterAccepted /\ ObservationAccounted => CallsAccounted
  BY DEF CallsAccounted
<1> QED
  BY <1>2, <1>3, ResolvedIsRegistered, AcquiredIsReleased, NothingIsRefused, ObservationsAreAccounted, PTL

-----------------------------------------------------------------------------
\* The patch Tool: what others wrote is not overwritten unseen, and what the call reports
\* covers what it left changed.
FileCount == Cardinality(Files)

LEMMA FilesRange == FileCount \in Nat /\ Files = 1..FileCount
  BY ApplyPatchAssumption, FS_CardinalityType DEF FileCount

Contents == {NoFile, "old", "new", "other"}
PatchStates == {"none", "unchanged", "restored"} \cup NotRestored

PatchTypes ==
    /\ op \in [Files -> {"added", "modified", "deleted"}]
    /\ disk \in [Files -> Contents]
    /\ plan \in [Files -> [before : Contents, staged : BOOLEAN]]
    /\ patch \in [pc : {"prepare", "stage", "check", "commit", "rollback", "cleanup", "report",
                        "done"},
                  at : Nat, committed : SUBSET Files, failure : BOOLEAN, forced : BOOLEAN,
                  states : [Files -> PatchStates], cancelled : BOOLEAN, blocked : BOOLEAN]
    /\ foreign \in [writes : Nat, since : SUBSET Files]
    /\ applied \in SUBSET Files /\ half \in SUBSET Files

\* What is there, of a file the patch changed, is what the patch made of it.
AppliedInv == \A p \in applied : disk[p] = After(p)

\* Before the commit nothing is done.
BeforeCommit ==
    patch.pc \in {"prepare", "stage", "check", "commit"} =>
      /\ half = {} /\ ~patch.failure /\ ~patch.forced
      /\ \A p \in Files : patch.states[p] = "none"
      /\ patch.pc # "commit" => applied = {} /\ patch.committed = {}

\* The commit goes through the files in order.
CommitInv ==
    PatchAt("commit") =>
      /\ patch.at \in Files
      /\ \A p \in Files : IF p < patch.at
           THEN /\ p \in patch.committed /\ ~plan[p].staged
                /\ p \notin foreign.since => p \in applied
           ELSE p \notin applied /\ (p \notin foreign.since => disk[p] = plan[p].before)

Owed == applied \ half

\* What is still owed was committed, and not written off.
RollbackInv ==
    /\ patch.pc \in {"commit", "rollback", "cleanup", "report"} =>
         \A p \in Owed : p \in patch.committed /\ patch.states[p] \notin {"restored", "unchanged"}
    /\ PatchAt("rollback") =>
         /\ patch.at \in Files /\ patch.failure
         /\ \A p \in Owed : p > patch.at => patch.states[p] \in NotRestored
    /\ patch.pc \in {"cleanup", "report"} =>
         IF patch.failure THEN \A p \in Owed : patch.states[p] \in NotRestored
         ELSE /\ Files \ foreign.since \subseteq applied /\ Staged = {} /\ ~patch.forced
              /\ \A p \in Files : patch.states[p] = "none"

\* Left alone by others, a file that is not changed is as it was read.
AloneInv ==
    patch.pc \in {"commit", "rollback", "cleanup", "report"} /\ foreign.writes = 0 =>
      \A p \in Files \ applied : disk[p] = plan[p].before

PatchInv ==
    /\ PatchTypes /\ AppliedInv /\ BeforeCommit /\ CommitInv /\ RollbackInv /\ AloneInv
    /\ NobodyOverwritten /\ PatchReported

-----------------------------------------------------------------------------
LEMMA PatchInitSafe == PatchInit => PatchInv
<1> SUFFICES ASSUME PatchInit PROVE PatchInv
  OBVIOUS
<1>1. /\ patch.pc = "prepare" /\ ~patch.failure /\ ~patch.forced /\ patch.committed = {}
      /\ applied = {} /\ half = {} /\ clobbered = {} /\ patch.states = [p \in Files |-> "none"]
  BY DEF PatchInit
<1>2. PatchTypes
  BY DEF PatchInit, PatchTypes, Contents, PatchStates, NoFile
<1> QED
  BY <1>1, <1>2 DEF PatchInv, AppliedInv, BeforeCommit, CommitInv, RollbackInv, Owed, AloneInv,
     NobodyOverwritten, PatchReported, PatchAt

LEMMA ForeignWriteSafe ==
    ASSUME PatchInv, NEW p \in Files, ForeignWrite(p) PROVE PatchInv'
<1>1. /\ disk' \in [Files -> Contents]
      /\ \A q \in Files \ {p} : disk'[q] = disk[q]
      /\ foreign'.writes = foreign.writes + 1 /\ foreign'.since = foreign.since \cup {p}
      /\ foreign' \in [writes : Nat, since : SUBSET Files]
      /\ applied' = applied \ {p}
      /\ patch.pc # "done"
      /\ UNCHANGED <<op, plan, patch, report, half, clobbered>>
  BY DEF ForeignWrite, PatchAt, PatchInv, PatchTypes, Contents
<1>2. foreign.writes \in Nat
  BY DEF PatchInv, PatchTypes
<1>3. PatchTypes'
  BY <1>1 DEF PatchInv, PatchTypes
<1>4. AppliedInv'
  BY <1>1 DEF PatchInv, PatchTypes, AppliedInv, After
<1>5. BeforeCommit' /\ CommitInv'
  BY <1>1 DEF PatchInv, BeforeCommit, CommitInv, PatchAt
<1>6. RollbackInv'
  BY <1>1 DEF PatchInv, RollbackInv, Owed, PatchAt, Staged
<1>7. AloneInv' /\ NobodyOverwritten' /\ PatchReported'
  BY <1>1, <1>2 DEF PatchInv, AloneInv, NobodyOverwritten, PatchReported, PatchAt
<1> QED
  BY <1>3, <1>4, <1>5, <1>6, <1>7 DEF PatchInv

LEMMA CancelPatchSafe == ASSUME PatchInv, CancelPatch PROVE PatchInv'
<1>1. /\ \A pc : PatchAt(pc)' <=> PatchAt(pc)
      /\ patch'.pc = patch.pc /\ patch'.at = patch.at /\ patch'.committed = patch.committed
      /\ patch'.failure = patch.failure /\ patch'.forced = patch.forced
      /\ patch'.states = patch.states
      /\ UNCHANGED <<op, disk, plan, report, foreign, applied, half, clobbered>>
  BY DEF CancelPatch, PatchInv, PatchTypes, PatchAt
<1>2. PatchTypes'
  BY DEF CancelPatch, PatchInv, PatchTypes
<1> QED
  BY <1>1, <1>2 DEF PatchInv, AppliedInv, After, BeforeCommit, CommitInv, RollbackInv, Owed, Staged,
     AloneInv, NobodyOverwritten, PatchReported, PatchAt

\* The call returns, with what it owes among its effects.
LEMMA ReturnsSafe ==
    ASSUME PatchInv, NEW outcome, NEW declared, PatchReturns(outcome, declared),
           UNCHANGED <<op, half, disk, applied, clobbered>>,
           plan' \in [Files -> [before : Contents, staged : BOOLEAN]],
           foreign' = foreign,
           applied \subseteq declared \cup half,
           outcome = "success" => Files \ foreign.since \subseteq applied /\ Staged' = {},
           outcome = "commitFailed" /\ foreign.writes = 0 =>
               \A p \in Files \ half : disk[p] = plan'[p].before
    PROVE  PatchInv'
<1>1. patch'.pc = "done" /\ report'.outcome = outcome /\ report'.effects = declared
  BY DEF PatchReturns, PatchInv, PatchTypes
<1>2. PatchTypes'
  BY DEF PatchReturns, PatchInv, PatchTypes
<1>3. PatchReported'
  BY <1>1 DEF PatchReported
<1> QED
  BY <1>1, <1>2, <1>3 DEF PatchInv, AppliedInv, After, BeforeCommit, CommitInv, RollbackInv,
     AloneInv, NobodyOverwritten, PatchAt

LEMMA PreparePatchSafe == ASSUME PatchInv, PreparePatch PROVE PatchInv'
<1>1. /\ applied = {} /\ half = {} /\ UNCHANGED <<op, half, disk, applied, clobbered, foreign>>
      /\ patch.pc = "prepare"
  BY DEF PreparePatch, PatchKeeps, FilesUntouched, PatchInv, BeforeCommit, PatchAt
<1>2. CASE PatchReturns("refused", {}) /\ UNCHANGED plan
  BY <1>1, <1>2, ReturnsSafe DEF PatchInv, PatchTypes
<1>3. CASE /\ plan' = [p \in Files |-> [before |-> disk[p], staged |-> FALSE]]
           /\ PatchGoto("stage") /\ UNCHANGED report
  <2>1. /\ patch'.pc = "stage" /\ patch'.failure = patch.failure /\ patch'.forced = patch.forced
        /\ patch'.states = patch.states /\ patch'.committed = patch.committed
    BY <1>3 DEF PatchGoto, PatchInv, PatchTypes
  <2>2. PatchTypes'
    BY <1>1, <1>3 DEF PatchGoto, PatchInv, PatchTypes
  <2> QED
    BY <1>1, <2>1, <2>2 DEF PatchInv, AppliedInv, BeforeCommit, CommitInv, RollbackInv, AloneInv,
       NobodyOverwritten, PatchReported, PatchAt
<1> QED
  BY <1>2, <1>3 DEF PreparePatch

LEMMA StageAllSafe == ASSUME PatchInv, StageAll PROVE PatchInv'
<1>1. /\ applied = {} /\ half = {} /\ UNCHANGED <<op, half, disk, applied, clobbered, foreign>>
      /\ patch.pc = "stage"
  BY DEF StageAll, PatchKeeps, FilesUntouched, PatchInv, BeforeCommit, PatchAt
<1>2. CASE plan' \in [Files -> [before : {NoFile}, staged : BOOLEAN]] /\ PatchReturns("refused", {})
  <2>1. plan' \in [Files -> [before : Contents, staged : BOOLEAN]]
    BY <1>2 DEF Contents
  <2> QED
    BY <1>1, <1>2, <2>1, ReturnsSafe
<1>3. CASE /\ plan' = [p \in Files |-> [plan[p] EXCEPT !.staged = op[p] # "deleted"]]
           /\ PatchGoto("check") /\ UNCHANGED report
  <2>1. /\ patch'.pc = "check" /\ patch'.failure = patch.failure /\ patch'.forced = patch.forced
        /\ patch'.states = patch.states /\ patch'.committed = patch.committed
    BY <1>3 DEF PatchGoto, PatchInv, PatchTypes
  <2>2. PatchTypes'
    BY <1>1, <1>3 DEF PatchGoto, PatchInv, PatchTypes
  <2> QED
    BY <1>1, <2>1, <2>2 DEF PatchInv, AppliedInv, BeforeCommit, CommitInv, RollbackInv, AloneInv,
       NobodyOverwritten, PatchReported, PatchAt
<1> QED
  BY <1>2, <1>3 DEF StageAll

\* Unlinking stages keeps what was read.
LEMMA UnlinkedKeeps ==
    ASSUME PatchInv, NEW upTo \in Nat, Unlinked(upTo)
    PROVE  /\ plan' \in [Files -> [before : Contents, staged : BOOLEAN]]
           /\ \A p \in Files : /\ plan'[p].before = plan[p].before
                               /\ plan'[p].staged <=> plan[p].staged /\ p >= upTo
<1>1. \A p \in Files : plan[p] \in [before : Contents, staged : BOOLEAN]
  BY DEF PatchInv, PatchTypes
<1>2. \A p \in Files :
         /\ [plan[p] EXCEPT !.staged = FALSE] \in [before : Contents, staged : BOOLEAN]
         /\ [plan[p] EXCEPT !.staged = FALSE].before = plan[p].before
         /\ [plan[p] EXCEPT !.staged = FALSE].staged = FALSE
  BY <1>1
<1>3. \A p \in Files : plan'[p] = IF p < upTo THEN [plan[p] EXCEPT !.staged = FALSE] ELSE plan[p]
  BY DEF Unlinked
<1>4. plan' = [p \in Files |-> plan'[p]]
  BY DEF Unlinked
<1>5. \A p \in Files : p < upTo <=> ~(p >= upTo)
  BY FilesRange
<1>6. \A p \in Files : plan'[p] \in [before : Contents, staged : BOOLEAN]
  BY <1>1, <1>2, <1>3
<1> QED
  BY <1>1, <1>2, <1>3, <1>4, <1>5, <1>6

LEMMA RevalidateSafe == ASSUME PatchInv, Revalidate PROVE PatchInv'
<1>1. /\ applied = {} /\ half = {} /\ UNCHANGED <<op, half, disk, applied, clobbered>>
      /\ patch.pc = "check" /\ patch.committed = {}
  BY DEF Revalidate, PatchKeeps, FilesUntouched, PatchInv, BeforeCommit, PatchAt
<1>2. CASE /\ \E n \in 1..AllUnlinked : Unlinked(n)
           /\ PatchReturns("refused", {}) /\ UNCHANGED foreign
  <2>1. plan' \in [Files -> [before : Contents, staged : BOOLEAN]]
    BY <1>2, UnlinkedKeeps, FilesRange DEF AllUnlinked, FileCount
  <2> QED
    BY <1>1, <1>2, <2>1, ReturnsSafe
<1>3. CASE /\ \A p \in Files : Unchanged(p)
           /\ patch' = [patch EXCEPT !.pc = "commit", !.at = 1]
           /\ foreign' = [foreign EXCEPT !.since = {}]
           /\ UNCHANGED <<plan, report>>
  <2>1. /\ patch'.pc = "commit" /\ patch'.failure = patch.failure /\ patch'.forced = patch.forced
        /\ patch'.states = patch.states /\ patch'.committed = patch.committed /\ patch'.at = 1
        /\ foreign'.since = {}
    BY <1>3 DEF PatchInv, PatchTypes
  <2>2. PatchTypes'
    BY <1>1, <1>3 DEF PatchInv, PatchTypes
  <2>3. 1 \in Files /\ \A p \in Files : ~(p < 1)
    BY FilesRange, ApplyPatchAssumption
  <2>4. CommitInv' /\ AloneInv'
    BY <1>1, <1>3, <2>1, <2>3 DEF CommitInv, AloneInv, Unchanged
  <2>5. PatchReported'
    BY <2>1 DEF PatchReported, PatchAt
  <2> QED
    BY <1>1, <1>3, <2>1, <2>2, <2>4, <2>5 DEF PatchInv, AppliedInv, BeforeCommit,
       RollbackInv, Owed, NobodyOverwritten, PatchAt
<1> QED
  BY <1>2, <1>3 DEF Revalidate

-----------------------------------------------------------------------------
\* The commit.

Settlements ==
    [pc : {"prepare", "stage", "check", "commit", "rollback", "cleanup", "report", "done"},
     at : Nat, committed : SUBSET Files, failure : BOOLEAN, forced : BOOLEAN,
     states : [Files -> PatchStates], cancelled : BOOLEAN, blocked : BOOLEAN]

LEMMA CommittedOneFields ==
    ASSUME PatchInv, NEW p \in Files, PatchAt("commit"), patch.at = p, CommittedOne(p)
    PROVE  /\ patch' \in Settlements
           /\ patch'.pc = IF p = FileCount THEN "cleanup" ELSE "commit"
           /\ patch'.at = p + 1 /\ patch'.committed = patch.committed \cup {p}
           /\ patch'.failure = FALSE /\ patch'.forced = FALSE /\ patch'.states = patch.states
<1>1. patch \in Settlements /\ patch.pc = "commit" /\ p \in Nat
      /\ ~patch.failure /\ ~patch.forced
  BY FilesRange DEF PatchInv, PatchTypes, Settlements, PatchAt, BeforeCommit
<1>2. patch.committed \cup {p} \in SUBSET Files /\ p + 1 \in Nat
      /\ (IF p = FileCount THEN "cleanup" ELSE "commit")
           \in {"prepare", "stage", "check", "commit", "rollback", "cleanup", "report", "done"}
  BY <1>1 DEF Settlements
<1>3. patch' = [patch EXCEPT !.committed = patch.committed \cup {p}, !.at = p + 1,
                             !.pc = IF p = FileCount THEN "cleanup" ELSE "commit"]
  BY <1>1 DEF CommittedOne, FileCount
<1> QED
  BY <1>1, <1>2, <1>3 DEF Settlements

LEMMA CommitFailsFields ==
    ASSUME PatchInv, PatchAt("commit"), CommitFails
    PROVE  /\ patch' \in Settlements
           /\ patch'.pc = "rollback" /\ patch'.at = FileCount /\ patch'.failure = TRUE
           /\ patch'.committed = patch.committed
           /\ patch'.forced = patch.forced /\ patch'.states = patch.states
<1>1. patch \in Settlements /\ FileCount \in Nat
  BY FilesRange DEF PatchInv, PatchTypes, Settlements
<1> QED
  BY <1>1 DEF CommitFails, FileCount, Settlements

LEMMA WriteFileFields ==
    ASSUME PatchInv, NEW p \in Files, NEW content \in Contents, NEW changed, NEW known,
           WriteFile(p, content, changed, known)
    PROVE  /\ disk' \in [Files -> Contents] /\ disk'[p] = content
           /\ \A q \in Files \ {p} : disk'[q] = disk[q]
  BY DEF WriteFile, PatchInv, PatchTypes

\* What is at the turn of the commit, and nobody else wrote, is not somebody else's.
LEMMA CommitFinds ==
    ASSUME PatchInv, NEW p \in Files, PatchAt("commit"), patch.at = p, NEW content,
           WriteFile(p, content, TRUE, p \notin foreign.since)
    PROVE  /\ clobbered' = {} /\ applied' = applied \cup {p}
<1>1. ~(p < p)
  BY FilesRange
<1>2. p \notin foreign.since => disk[p] = plan[p].before
  BY <1>1 DEF PatchInv, CommitInv
<1> QED
  BY <1>2 DEF WriteFile, PatchInv, NobodyOverwritten

\* One file is changed, and the next one is due.
LEMMA OneCommitted ==
    ASSUME PatchInv, NEW p \in Files, PatchAt("commit"), patch.at = p,
           WriteFile(p, After(p), TRUE, p \notin foreign.since), CommittedOne(p),
           plan' = [plan EXCEPT ![p].staged = FALSE], UNCHANGED <<op, report, foreign, half>>
    PROVE  PatchInv'
<1>1. After(p) \in Contents
  BY DEF After, Contents
<1>2. /\ disk' \in [Files -> Contents] /\ disk'[p] = After(p)
      /\ \A q \in Files \ {p} : disk'[q] = disk[q]
  BY <1>1, WriteFileFields
<1>3. clobbered' = {} /\ applied' = applied \cup {p}
  BY CommitFinds
<1>4. /\ patch' \in Settlements
      /\ patch'.pc = IF p = FileCount THEN "cleanup" ELSE "commit"
      /\ patch'.at = p + 1 /\ patch'.committed = patch.committed \cup {p}
      /\ patch'.failure = FALSE /\ patch'.forced = FALSE /\ patch'.states = patch.states
  BY CommittedOneFields
<1>5. /\ plan' \in [Files -> [before : Contents, staged : BOOLEAN]]
      /\ \A q \in Files \ {p} : plan'[q] = plan[q]
      /\ plan'[p].before = plan[p].before /\ ~plan'[p].staged
  BY DEF PatchInv, PatchTypes
<1>6. \A q \in Files : /\ q < p + 1 <=> q < p \/ q = p
                       /\ ~(p < p)
                       /\ p = FileCount => q < p + 1
                       /\ p # FileCount => p + 1 \in Files
  BY FilesRange
<1>7. /\ half = {}
      /\ \A q \in Files : patch.states[q] = "none"
      /\ \A q \in Files : IF q < p
           THEN /\ q \in patch.committed /\ ~plan[q].staged
                /\ q \notin foreign.since => q \in applied
           ELSE q \notin applied /\ (q \notin foreign.since => disk[q] = plan[q].before)
      /\ \A q \in applied : q \in patch.committed
  BY DEF PatchInv, BeforeCommit, CommitInv, PatchAt, RollbackInv, Owed
<1>8. PatchTypes' /\ AppliedInv'
  BY <1>2, <1>3, <1>4, <1>5 DEF PatchInv, PatchTypes, Settlements, AppliedInv, After
<1>9. BeforeCommit'
  BY <1>4, <1>7 DEF BeforeCommit
<1>10. CommitInv'
  BY <1>2, <1>3, <1>4, <1>5, <1>6, <1>7 DEF CommitInv, PatchAt
<1>11. RollbackInv'
  <2>1. \A q \in applied' : q \in patch'.committed /\ patch'.states[q] = "none"
    BY <1>3, <1>4, <1>7 DEF PatchInv, PatchTypes
  <2>2. p = FileCount => Files \ foreign.since \subseteq applied' /\ Staged' = {}
    BY <1>3, <1>5, <1>6, <1>7 DEF Staged
  <2> QED
    BY <1>4, <1>7, <2>1, <2>2 DEF RollbackInv, Owed, PatchAt
<1>12. AloneInv'
  BY <1>2, <1>3, <1>5 DEF PatchInv, AloneInv, PatchAt
<1> QED
  BY <1>3, <1>4, <1>8, <1>9, <1>10, <1>11, <1>12 DEF PatchInv, NobodyOverwritten, PatchReported,
     PatchAt

\* It fails, before or after the file was linked.
LEMMA FailedCommit ==
    ASSUME PatchInv, NEW p \in Files, PatchAt("commit"), patch.at = p, CommitFails,
           UNCHANGED <<op, report, foreign, plan>>,
           \/ FilesUntouched /\ UNCHANGED half
           \/ /\ WriteFile(p, After(p), TRUE, p \notin foreign.since)
              /\ half' = half \cup {p}
    PROVE  PatchInv'
<1>1. /\ patch' \in Settlements
      /\ patch'.pc = "rollback" /\ patch'.at = FileCount /\ patch'.failure = TRUE
      /\ patch'.committed = patch.committed
      /\ patch'.forced = patch.forced /\ patch'.states = patch.states
  BY CommitFailsFields
<1>2. /\ disk' \in [Files -> Contents]
      /\ \A q \in Files \ {p} : disk'[q] = disk[q]
      /\ clobbered' = {} /\ half' \in SUBSET Files
      /\ \/ applied' = applied /\ half' = half /\ disk' = disk
         \/ applied' = applied \cup {p} /\ half' = half \cup {p} /\ disk'[p] = After(p)
  <2>1. After(p) \in Contents
    BY DEF After, Contents
  <2> QED
    BY <2>1, WriteFileFields, CommitFinds
       DEF FilesUntouched, PatchInv, PatchTypes, NobodyOverwritten
<1>3. /\ \A q \in Owed : q \in patch.committed /\ patch.states[q] \notin {"restored", "unchanged"}
      /\ Owed' \subseteq Owed
  BY <1>2 DEF PatchInv, RollbackInv, PatchAt, Owed
<1>4. FileCount \in Files /\ \A q \in Files : ~(q > FileCount)
  BY FilesRange
<1>5. PatchTypes' /\ AppliedInv'
  BY <1>1, <1>2 DEF PatchInv, PatchTypes, Settlements, AppliedInv, After
<1>6. RollbackInv'
  BY <1>1, <1>3, <1>4 DEF RollbackInv, PatchAt, PatchInv, PatchTypes, Owed
<1>7. AloneInv'
  BY <1>2 DEF PatchInv, AloneInv, PatchAt
<1> QED
  BY <1>1, <1>2, <1>5, <1>6, <1>7 DEF PatchInv, BeforeCommit, CommitInv, NobodyOverwritten,
     PatchReported, PatchAt

LEMMA CommitOneSafe == ASSUME PatchInv, NEW p \in Files, CommitOne(p) PROVE PatchInv'
<1>1. CASE op[p] = "added" /\ CommitAdded(p)
  <2>1. After(p) = "new"
    BY <1>1 DEF After
  <2> QED
    BY <1>1, <2>1, OneCommitted, FailedCommit DEF CommitOne, CommitAdded
<1>2. CASE CommitOther(p)
  BY <1>2, OneCommitted, FailedCommit DEF CommitOne, CommitOther
<1> QED
  BY <1>1, <1>2 DEF CommitOne

-----------------------------------------------------------------------------
\* The rollback.

\* One file is passed: what is still owed of it has a state that says so.
LEMMA OneBack ==
    ASSUME PatchInv, NEW p \in Files, PatchAt("rollback"), patch.at = p,
           NEW state \in PatchStates,
           patch' = [patch EXCEPT !.states[p] = state, !.at = @ - 1, !.pc = NextBack(p)],
           UNCHANGED <<op, plan, report, foreign, half>>,
           \/ FilesUntouched /\ (p \in Owed => state \in NotRestored)
           \/ Looked(p) /\ WriteFile(p, plan[p].before, FALSE, TRUE)
    PROVE  PatchInv'
<1>1. /\ patch \in Settlements /\ p \in Nat /\ p > 0 /\ patch.pc = "rollback" /\ patch.failure
      /\ \A q \in Owed : q \in patch.committed /\ patch.states[q] \notin {"restored", "unchanged"}
      /\ \A q \in Owed : q > p => patch.states[q] \in NotRestored
  BY FilesRange DEF PatchInv, PatchTypes, Settlements, PatchAt, RollbackInv
<1>2. /\ p - 1 \in Nat
      /\ NextBack(p) = (IF p = 1 THEN "cleanup" ELSE "rollback")
      /\ p # 1 => p - 1 \in Files
      /\ \A q \in Files : q > p - 1 <=> q > p \/ q = p
      /\ \A q \in Files : p = 1 => q > p \/ q = p
  BY FilesRange DEF NextBack
<1>3. /\ patch' \in Settlements
      /\ patch'.pc = (IF p = 1 THEN "cleanup" ELSE "rollback") /\ patch'.at = p - 1
      /\ patch'.committed = patch.committed
      /\ patch'.failure = patch.failure /\ patch'.forced = patch.forced
      /\ patch'.states[p] = state
      /\ \A q \in Files \ {p} : patch'.states[q] = patch.states[q]
  BY <1>1, <1>2 DEF Settlements
<1>4. /\ disk' \in [Files -> Contents]
      /\ \A q \in Files \ {p} : disk'[q] = disk[q]
      /\ clobbered' = {}
      /\ \/ applied' = applied /\ disk' = disk
         \/ applied' = applied \ {p} /\ disk'[p] = plan[p].before
  <2>1. CASE FilesUntouched
    BY <2>1 DEF FilesUntouched, PatchInv, PatchTypes, NobodyOverwritten
  <2>2. CASE Looked(p) /\ WriteFile(p, plan[p].before, FALSE, TRUE)
    <3>1. plan[p].before \in Contents /\ disk[p] # "other"
      BY <2>2 DEF PatchInv, PatchTypes, Looked, After, NoFile
    <3> QED
      BY <2>2, <3>1, WriteFileFields DEF WriteFile, PatchInv, NobodyOverwritten
  <2> QED
    BY <2>1, <2>2
<1>5. /\ Owed' \subseteq Owed
      /\ p \in Owed' => state \in NotRestored
  BY <1>4 DEF Owed, FilesUntouched, WriteFile
<1>6. PatchTypes' /\ AppliedInv'
  BY <1>3, <1>4 DEF PatchInv, PatchTypes, Settlements, AppliedInv, After
<1>7. /\ \A q \in Owed' : /\ q \in patch'.committed
                           /\ patch'.states[q] \notin {"restored", "unchanged"}
      /\ \A q \in Owed' : q > p \/ q = p => patch'.states[q] \in NotRestored
      /\ Owed' \subseteq Files
  BY <1>1, <1>3, <1>5 DEF NotRestored, Owed, PatchInv, PatchTypes
<1>8. RollbackInv'
  BY <1>1, <1>2, <1>3, <1>7 DEF RollbackInv, PatchAt
<1>9. AloneInv'
  BY <1>3, <1>4 DEF PatchInv, AloneInv, PatchAt
<1> QED
  BY <1>3, <1>4, <1>6, <1>8, <1>9 DEF PatchInv, BeforeCommit, CommitInv, NobodyOverwritten,
     PatchReported, PatchAt

LEMMA RollbackSafe == ASSUME PatchInv, NEW p \in Files, Rollback(p) PROVE PatchInv'
<1>1. PatchAt("rollback") /\ patch.at = p /\ UNCHANGED <<op, plan, report, foreign, half>>
  BY DEF Rollback, PatchKeeps
<1>2. patch.states[p] \in PatchStates
  BY DEF PatchInv, PatchTypes
<1>3. p \in Owed => p \in patch.committed /\ patch.states[p] \notin {"restored", "unchanged"}
  BY <1>1 DEF PatchInv, RollbackInv, PatchAt
<1>4. ~Looked(p) => p \notin Owed
  BY DEF Looked, Owed, PatchInv, AppliedInv
<1>5. CASE /\ p \in patch.committed /\ patch.states[p] \notin {"restored", "unchanged"}
           /\ RestoreOne(p)
  <2>1. PICK state \in PatchStates :
           /\ patch' = [patch EXCEPT !.states[p] = state, !.at = @ - 1, !.pc = NextBack(p)]
           /\ \/ FilesUntouched /\ (p \in Owed => state \in NotRestored)
              \/ Looked(p) /\ WriteFile(p, plan[p].before, FALSE, TRUE)
    BY <1>4, <1>5 DEF RestoreOne, PatchStates, NotRestored
  <2> QED
    BY <1>1, <2>1, OneBack
<1>6. CASE /\ ~(p \in patch.committed /\ patch.states[p] \notin {"restored", "unchanged"})
           /\ patch' = [patch EXCEPT !.states[p] = IF @ = "none" THEN "unchanged" ELSE @,
                                     !.at = @ - 1, !.pc = NextBack(p)]
           /\ FilesUntouched
  <2> DEFINE state == IF patch.states[p] = "none" THEN "unchanged" ELSE patch.states[p]
  <2>1. state \in PatchStates /\ p \notin Owed
    BY <1>2, <1>3, <1>6 DEF PatchStates
  <2>2. patch' = [patch EXCEPT !.states[p] = state, !.at = @ - 1, !.pc = NextBack(p)]
    BY <1>6 DEF PatchInv, PatchTypes
  <2> HIDE DEF state
  <2> QED
    BY <1>1, <1>6, <2>1, <2>2, OneBack
<1> QED
  BY <1>5, <1>6 DEF Rollback

-----------------------------------------------------------------------------
\* The end.

LEMMA SettlePatchSafe == ASSUME PatchInv, SettlePatch PROVE PatchInv'
<1>1. PICK n \in 1..AllUnlinked :
        LET raises == Incomplete \/ \E p \in Files : p >= n /\ plan[p].staged IN
        /\ Unlinked(n)
        /\ IF raises /\ ~patch.forced
           THEN patch' = [patch EXCEPT !.pc = "rollback", !.at = Cardinality(Files),
                                       !.forced = TRUE]
           ELSE patch' = [patch EXCEPT !.pc = "report", !.blocked = raises]
  BY DEF SettlePatch
<1>2. n \in Nat
  BY <1>1, FilesRange DEF AllUnlinked, FileCount
<1>3. /\ plan' \in [Files -> [before : Contents, staged : BOOLEAN]]
      /\ \A p \in Files : /\ plan'[p].before = plan[p].before
                          /\ plan'[p].staged <=> plan[p].staged /\ p >= n
  BY <1>1, <1>2, UnlinkedKeeps
<1>4. /\ UNCHANGED <<op, disk, report, foreign, applied, half, clobbered>>
      /\ patch.pc = "cleanup" /\ patch \in Settlements
  BY DEF SettlePatch, PatchKeeps, FilesUntouched, PatchAt, PatchInv, PatchTypes, Settlements
<1>5. /\ \A q \in Owed : q \in patch.committed /\ patch.states[q] \notin {"restored", "unchanged"}
      /\ IF patch.failure THEN \A p \in Owed : patch.states[p] \in NotRestored
         ELSE /\ Files \ foreign.since \subseteq applied /\ Staged = {} /\ ~patch.forced
              /\ \A p \in Files : patch.states[p] = "none"
  BY <1>4 DEF PatchInv, RollbackInv
<1>6. Owed' = Owed /\ Owed \subseteq Files
  BY <1>4 DEF Owed, PatchInv, PatchTypes
<1>7. CASE /\ patch' = [patch EXCEPT !.pc = "rollback", !.at = Cardinality(Files), !.forced = TRUE]
           /\ Incomplete \/ \E p \in Files : plan[p].staged
  <2>1. patch.failure
    BY <1>5, <1>7 DEF Incomplete, NotRestored, Staged
  <2>2. /\ patch' \in Settlements
        /\ patch'.pc = "rollback" /\ patch'.at = FileCount /\ patch'.failure
        /\ patch'.committed = patch.committed /\ patch'.states = patch.states
    BY <1>4, <1>7, <2>1, FilesRange DEF Settlements, FileCount
  <2>3. FileCount \in Files /\ \A q \in Files : ~(q > FileCount)
    BY FilesRange, ApplyPatchAssumption
  <2>4. RollbackInv'
    BY <1>5, <1>6, <2>2, <2>3 DEF RollbackInv, PatchAt
  <2>5. PatchTypes' /\ AppliedInv' /\ AloneInv'
    BY <1>3, <1>4, <2>2 DEF PatchInv, PatchTypes, Settlements, AppliedInv, After, AloneInv
  <2> QED
    BY <1>4, <2>2, <2>4, <2>5 DEF PatchInv, BeforeCommit, CommitInv, NobodyOverwritten,
       PatchReported, PatchAt
<1>8. CASE \E blocked \in BOOLEAN : patch' = [patch EXCEPT !.pc = "report", !.blocked = blocked]
  <2>1. /\ patch' \in Settlements
        /\ patch'.pc = "report" /\ patch'.failure = patch.failure /\ patch'.forced = patch.forced
        /\ patch'.committed = patch.committed /\ patch'.states = patch.states
    BY <1>4, <1>8 DEF Settlements
  <2>2. Staged' \subseteq Staged
    BY <1>3 DEF Staged
  <2>3. RollbackInv'
    BY <1>4, <1>5, <1>6, <2>1, <2>2 DEF RollbackInv, PatchAt
  <2>4. PatchTypes' /\ AppliedInv' /\ AloneInv'
    BY <1>3, <1>4, <2>1 DEF PatchInv, PatchTypes, Settlements, AppliedInv, After, AloneInv
  <2> QED
    BY <1>4, <2>1, <2>3, <2>4 DEF PatchInv, BeforeCommit, CommitInv, NobodyOverwritten,
       PatchReported, PatchAt
<1> QED
  BY <1>1, <1>7, <1>8

LEMMA ReportPatchSafe == ASSUME PatchInv, ReportPatch PROVE PatchInv'
<1>1. /\ UNCHANGED <<op, disk, plan, foreign, applied, half, clobbered>> /\ patch.pc = "report"
      /\ plan' \in [Files -> [before : Contents, staged : BOOLEAN]]
      /\ applied \subseteq Files
  BY DEF ReportPatch, PatchKeeps, FilesUntouched, PatchAt, PatchInv, PatchTypes
<1>2. IF patch.failure THEN \A p \in Owed : patch.states[p] \in NotRestored
      ELSE /\ Files \ foreign.since \subseteq applied /\ Staged = {} /\ ~patch.forced
           /\ \A p \in Files : patch.states[p] = "none"
  BY <1>1 DEF PatchInv, RollbackInv
<1>3. CASE Incomplete /\ PatchReturns("rollbackFailed", FailureEffects)
  <2>1. patch.failure
    BY <1>2, <1>3 DEF Incomplete, NotRestored
  <2>2. applied \subseteq FailureEffects \cup half
    BY <1>1, <1>2, <2>1 DEF Owed, FailureEffects
  <2> QED
    BY <1>1, <1>3, <2>2, ReturnsSafe
<1>4. CASE /\ ~Incomplete /\ (patch.forced \/ patch.failure)
           /\ \E outcome \in {"commitFailed", "cancelled"} : PatchReturns(outcome, {})
  <2>1. applied \subseteq half
    BY <1>1, <1>2, <1>4 DEF Owed, Incomplete
  <2>2. foreign.writes = 0 => \A p \in Files \ half : disk[p] = plan'[p].before
    BY <1>1, <2>1 DEF PatchInv, AloneInv
  <2> QED
    BY <1>1, <1>4, <2>1, <2>2, ReturnsSafe
<1>5. CASE /\ ~Incomplete /\ ~(patch.forced \/ patch.failure)
           /\ \E outcome \in {"success", "cancelled"} : PatchReturns(outcome, Files)
  <2>1. Files \ foreign.since \subseteq applied /\ Staged' = {}
    BY <1>1, <1>2, <1>5 DEF Staged
  <2> QED
    BY <1>1, <1>5, <2>1, ReturnsSafe
<1> QED
  BY <1>3, <1>4, <1>5 DEF ReportPatch

LEMMA PatchNextSafe == ASSUME PatchInv, [PatchNext]_patchVars PROVE PatchInv'
<1>1. CASE UNCHANGED patchVars
  BY <1>1 DEF patchVars, PatchInv, PatchTypes, AppliedInv, After, BeforeCommit, CommitInv,
     RollbackInv, Owed, Staged, AloneInv, NobodyOverwritten, PatchReported, PatchAt
<1> QED
  BY <1>1, PreparePatchSafe, StageAllSafe, RevalidateSafe, SettlePatchSafe, ReportPatchSafe,
     CancelPatchSafe, CommitOneSafe, RollbackSafe, ForeignWriteSafe DEF PatchNext

\* apply_patch.py: the second look at every file and the looks of the rollback: for any
\* number of files, what somebody else wrote before the last look at a file is not lost.
THEOREM OthersAreSpared == PatchSpec => []NobodyOverwritten
<1>1. PatchInv => NobodyOverwritten
  BY DEF PatchInv
<1> QED
  BY <1>1, PatchInitSafe, PatchNextSafe, PTL DEF PatchSpec

\* apply_patch.py: whichever step fails and whenever it is cancelled, every file that is
\* as the patch made it is among the effects that the call reports.
THEOREM EffectsAreReported == PatchSpec => []PatchReported
<1>1. PatchInv => PatchReported
  BY DEF PatchInv
<1> QED
  BY <1>1, PatchInitSafe, PatchNextSafe, PTL DEF PatchSpec

\* apply_patch.py:586-670: both at once, of any patch and whatever others write meanwhile:
\* a patch says what it did, and undoes nothing that is not its own.
THEOREM PatchIsKept == PatchSpec => []PatchKept
  BY OthersAreSpared, EffectsAreReported, PTL DEF PatchKept

-----------------------------------------------------------------------------
\* Orders: members of a finite set have ranks.

Total(R, S) == \A p, q \in S : p # q => <<p, q>> \in R \/ <<q, p>> \in R

\* In an order every member of a finite set has a rank, and every rank has a member.
Ranked(R, S) ==
    LET Below(p) == Cardinality({q \in S : <<q, p>> \in R}) IN
    /\ \A p \in S : Below(p) \in 0..(Cardinality(S) - 1)
    /\ \A p, q \in S : Below(p) = Below(q) => p = q
    /\ \A n \in 1..Cardinality(S) : \E p \in S : Below(p) = n - 1

LEMMA RanksExist ==
    ASSUME NEW S, IsFiniteSet(S), NEW R, Orders(R, S), Total(R, S)
    PROVE  Ranked(R, S)
<1> DEFINE Below(p) == {q \in S : <<q, p>> \in R}
<1>1. PICK N : N = Cardinality(S) /\ N \in Nat
  BY FS_CardinalityType
<1>2. \A p \in S : IsFiniteSet(Below(p)) /\ Cardinality(Below(p)) \in 0..(N - 1)
  <2>1. ASSUME NEW p \in S PROVE IsFiniteSet(Below(p)) /\ Cardinality(Below(p)) \in 0..(N - 1)
    <3>1. IsFiniteSet(S \ {p}) /\ Cardinality(S \ {p}) = N - 1
      BY <1>1, <2>1, FS_RemoveElement
    <3>2. Below(p) \subseteq S \ {p}
      BY DEF Orders
    <3> HIDE DEF Below
    <3>3. IsFiniteSet(Below(p)) /\ Cardinality(Below(p)) <= N - 1
      BY <3>1, <3>2, FS_Subset
    <3>4. Cardinality(Below(p)) \in Nat
      BY <3>3, FS_CardinalityType
    <3> QED
      BY <1>1, <3>3, <3>4
  <2> QED
    BY <2>1
<1>3. ASSUME NEW p \in S, NEW q \in S, <<p, q>> \in R PROVE Cardinality(Below(p)) < Cardinality(Below(q))
  <2>1. Below(p) \subseteq Below(q) /\ p \in Below(q) /\ p \notin Below(p)
    BY <1>3 DEF Orders
  <2> HIDE DEF Below
  <2>2. Cardinality(Below(p)) <= Cardinality(Below(q)) /\ Cardinality(Below(p)) # Cardinality(Below(q))
    BY <1>2, <2>1, FS_Subset
  <2>3. Cardinality(Below(p)) \in 0..(N - 1) /\ Cardinality(Below(q)) \in 0..(N - 1)
    BY <1>2
  <2> QED
    BY <1>1, <2>2, <2>3
<1> DEFINE f == [p \in S |-> Cardinality(Below(p))]
           T == 0..(N - 1)
<1>4. f \in Injection(S, T)
  <2>1. f \in [S -> T]
    BY <1>2
  <2>2. ASSUME NEW p \in S, NEW q \in S, p # q PROVE f[p] # f[q]
    <3>1. <<p, q>> \in R \/ <<q, p>> \in R
      BY <2>2 DEF Total
    <3>2. Cardinality(Below(p)) \in 0..(N - 1) /\ Cardinality(Below(q)) \in 0..(N - 1)
      BY <1>2
    <3>3. Cardinality(Below(p)) < Cardinality(Below(q)) \/ Cardinality(Below(q)) < Cardinality(Below(p))
      <4> HIDE DEF Below
      <4> QED
        BY <1>3, <3>1
    <3>4. Cardinality(Below(p)) # Cardinality(Below(q))
      <4> HIDE DEF Below
      <4> QED
        BY <1>1, <3>2, <3>3
    <3> QED
      BY <3>4
  <2> HIDE DEF f, T
  <2> QED
    BY <2>1, <2>2 DEF Injection, IsInjective
<1>5. IsFiniteSet(T) /\ Cardinality(T) = N
  <2>1. PICK a, b : a \in Int /\ b \in Int /\ a = 0 /\ b = N - 1
    BY <1>1
  <2>2. IsFiniteSet(a..b) /\ Cardinality(a..b) = IF a > b THEN 0 ELSE b - a + 1
    BY ONLY <2>1, FS_Interval
  <2> QED
    BY <1>1, <2>1, <2>2
<1>6. f \in Surjection(S, T)
  <2> HIDE DEF f, T
  <2> QED
    BY <1>1, <1>4, <1>5, FS_Injection
<1>7. ASSUME NEW n \in 1..N PROVE \E p \in S : Cardinality(Below(p)) = n - 1
  <2>1. n - 1 \in T
    BY <1>1
  <2>2. \E p \in S : f[p] = n - 1
    <3> HIDE DEF f, T
    <3> QED
      BY <1>6, <2>1 DEF Surjection
  <2> QED
    BY <2>2
<1>8. \A p \in S : Cardinality(Below(p)) \in 0..(Cardinality(S) - 1)
  <2> HIDE DEF Below
  <2> QED
    BY <1>1, <1>2
<1>9. ASSUME NEW p \in S, NEW q \in S, Cardinality(Below(p)) = Cardinality(Below(q)) PROVE p = q
  <2>1. f[p] = f[q]
    <3> HIDE DEF Below
    <3> QED
      BY <1>9
  <2> HIDE DEF f, T, Below
  <2> QED
    BY <1>4, <2>1 DEF Injection, IsInjective
<1> QED
  BY <1>1, <1>7, <1>8, <1>9 DEF Ranked

-----------------------------------------------------------------------------
\* FileTools: what is listed, and the files that are written.

FileNames == DOMAIN NameOrder

\* Paths are in one order, name by name.
LEMMA BeforeOrders ==
    ASSUME NEW S, \A p \in S : p \in Seq(FileNames), NEW R, R = {pq \in S \X S : Before(pq[1], pq[2])}
    PROVE  Orders(R, S) /\ Total(R, S)
<1>0. \A p \in S : Len(p) \in Nat /\ \A i \in 1..Len(p) : p[i] \in FileNames
  BY LenProperties, ElementOfSeq
<1>1. \A p, q \in S : <<p, q>> \in R <=> Before(p, q)
  OBVIOUS
<1>2. ASSUME NEW p \in S PROVE ~Before(p, p)
  <2>1. ASSUME NEW n \in 1..Len(p), NameOrder[p[n]] < NameOrder[p[n]] PROVE FALSE
    <3>1. p[n] \in FileNames /\ NameOrder[p[n]] \in Nat
      BY <1>0, FileToolsAssumption DEF FileNames
    <3> QED
      BY <2>1, <3>1
  <2>2. Len(p) \in Nat
    BY <1>0
  <2> QED
    BY <2>1, <2>2 DEF Before
<1>3. ASSUME NEW p \in S, NEW q \in S, NEW r \in S, Before(p, q), Before(q, r) PROVE Before(p, r)
  <2>1. PICK a \in 1..Len(q) : /\ \A i \in 1..(a - 1) : i <= Len(p) /\ p[i] = q[i]
                               /\ a > Len(p) \/ NameOrder[p[a]] < NameOrder[q[a]]
    BY <1>3 DEF Before
  <2>2. PICK b \in 1..Len(r) : /\ \A i \in 1..(b - 1) : i <= Len(q) /\ q[i] = r[i]
                               /\ b > Len(q) \/ NameOrder[q[b]] < NameOrder[r[b]]
    BY <1>3 DEF Before
  <2>3. PICK lp, lq, lr : /\ lp \in Nat /\ lq \in Nat /\ lr \in Nat
                          /\ lp = Len(p) /\ lq = Len(q) /\ lr = Len(r)
    BY <1>0
  <2>4. a \in 1..lq /\ b \in 1..lr /\ a \in Nat /\ b \in Nat
    BY <2>3
  <2>5. \A i \in 1..lp : p[i] \in FileNames /\ NameOrder[p[i]] \in Nat
    BY <1>0, <2>3, FileToolsAssumption DEF FileNames
  <2>6. \A i \in 1..lq : q[i] \in FileNames /\ NameOrder[q[i]] \in Nat
    BY <1>0, <2>3, FileToolsAssumption DEF FileNames
  <2>7. \A i \in 1..lr : r[i] \in FileNames /\ NameOrder[r[i]] \in Nat
    BY <1>0, <2>3, FileToolsAssumption DEF FileNames
  <2>8. CASE a < b
    <3>0. a \in 1..lr /\ a \in 1..(b - 1)
      BY <2>3, <2>4, <2>8
    <3>1. a \in 1..lr /\ a \in 1..(b - 1) /\ q[a] = r[a]
      BY <2>2, <3>0
    <3>2. \A i \in 1..(a - 1) : i <= lp /\ p[i] = r[i]
      <4>1. \A i \in 1..(a - 1) : i \in 1..(b - 1)
        BY <2>4, <2>8
      <4> QED
        BY <2>1, <2>2, <2>3, <4>1
    <3>3. a > lp \/ NameOrder[p[a]] < NameOrder[r[a]]
      BY <2>1, <2>3, <3>1
    <3> QED
      BY <2>3, <3>1, <3>2, <3>3 DEF Before
  <2>9. CASE b < a
    <3>1. b \in 1..(a - 1) /\ b <= lp /\ p[b] = q[b] /\ ~(b > lq)
      BY <2>1, <2>3, <2>4, <2>9
    <3>2. \A i \in 1..(b - 1) : i <= lp /\ p[i] = r[i]
      <4>1. \A i \in 1..(b - 1) : i \in 1..(a - 1)
        BY <2>4, <2>9
      <4> QED
        BY <2>1, <2>2, <2>3, <4>1
    <3>3. NameOrder[p[b]] < NameOrder[r[b]]
      BY <2>2, <2>3, <3>1
    <3> QED
      BY <2>3, <2>4, <3>2, <3>3 DEF Before
  <2>10. CASE a = b
    <3>1. NameOrder[q[a]] < NameOrder[r[a]] /\ a \in 1..lr
      BY <2>2, <2>3, <2>4, <2>10
    <3>2. \A i \in 1..(a - 1) : i <= lp /\ p[i] = r[i]
      BY <2>1, <2>2, <2>3, <2>10
    <3>3. a > lp \/ NameOrder[p[a]] < NameOrder[r[a]]
      <4>1. CASE a > lp
        BY <4>1
      <4>2. CASE ~(a > lp)
        <5>1. a \in 1..lp /\ NameOrder[p[a]] < NameOrder[q[a]]
          BY <2>1, <2>3, <2>4, <4>2
        <5>2. PICK x, y, z \in Nat : x = NameOrder[p[a]] /\ y = NameOrder[q[a]] /\ z = NameOrder[r[a]]
          BY <2>4, <2>5, <2>6, <2>7, <3>1, <5>1
        <5> QED
          BY <3>1, <5>1, <5>2
      <4> QED
        BY <4>1, <4>2
    <3> QED
      BY <2>3, <3>1, <3>2, <3>3 DEF Before
  <2> QED
    BY <2>4, <2>8, <2>9, <2>10
<1>4. ASSUME NEW p \in S, NEW q \in S, p # q PROVE Before(p, q) \/ Before(q, p)
  <2>3. PICK lp, lq : lp \in Nat /\ lq \in Nat /\ lp = Len(p) /\ lq = Len(q)
    BY <1>0
  <2> DEFINE D == {n \in Nat : n # 0 /\ (n > lp \/ n > lq \/ p[n] # q[n])}
  <2>4. PICK n \in D : \A m \in D : n <= m
    <3>1. lp + 1 \in D /\ D \subseteq Nat
      BY <2>3
    <3> HIDE DEF D
    <3> QED
      BY <3>1, HasLeast
  <2>5. \A i \in 1..(n - 1) : i <= lp /\ i <= lq /\ p[i] = q[i]
    <3>1. ASSUME NEW i \in 1..(n - 1) PROVE i <= lp /\ i <= lq /\ p[i] = q[i]
      <4>1. i \in Nat /\ i # 0 /\ ~(n <= i)
        BY <2>4
      <4>2. i \notin D
        BY <2>4, <4>1
      <4> QED
        BY <2>3, <4>1, <4>2
    <3> QED
      BY <3>1
  <2>6. n \in Nat /\ n # 0 /\ (n > lp \/ n > lq \/ p[n] # q[n])
    BY <2>4
  <2> HIDE DEF D
  <2>7. CASE n > lp /\ n > lq
    <3>1. lp = lq
      <4>1. CASE n = 1
        BY <2>3, <2>7, <4>1
      <4>2. CASE n # 1
        <5>1. n - 1 \in 1..(n - 1)
          BY <2>6, <4>2
        <5>2. n - 1 <= lp /\ n - 1 <= lq
          BY <2>5, <5>1
        <5> QED
          BY <2>3, <2>6, <2>7, <5>2
      <4> QED
        BY <4>1, <4>2
    <3>2. \A i \in 1..lp : p[i] = q[i]
      <4>1. \A i \in 1..lp : i \in 1..(n - 1)
        BY <2>3, <2>6, <2>7
      <4> QED
        BY <2>5, <4>1
    <3>3. p = q
      <4>1. p \in Seq(FileNames) /\ q \in Seq(FileNames) /\ Len(p) = Len(q) /\ \A i \in 1..Len(p) : p[i] = q[i]
        BY <2>3, <3>1, <3>2
      <4> QED
        BY ONLY <4>1, SeqEqual
    <3> QED
      BY <1>4, <3>3
  <2>8. CASE n > lp /\ n <= lq
    <3>1. n \in 1..lq
      BY <2>3, <2>6, <2>8
    <3> QED
      BY <2>3, <2>5, <2>8, <3>1 DEF Before
  <2>9. CASE n > lq /\ n <= lp
    <3>1. n \in 1..lp
      BY <2>3, <2>6, <2>9
    <3> QED
      BY <2>3, <2>5, <2>9, <3>1 DEF Before
  <2>10. CASE n <= lp /\ n <= lq
    <3>1. n \in 1..lp /\ n \in 1..lq /\ p[n] # q[n]
      BY <2>3, <2>6, <2>10
    <3>2. p[n] \in FileNames /\ q[n] \in FileNames
      BY <1>0, <2>3, <3>1
    <3>3. PICK x, y \in Nat : x = NameOrder[p[n]] /\ y = NameOrder[q[n]] /\ x # y
      BY <3>1, <3>2, FileToolsAssumption DEF FileNames
    <3>4. x < y \/ y < x
      BY <3>3
    <3> QED
      BY <2>3, <2>5, <3>1, <3>3, <3>4 DEF Before
  <2> QED
    BY <2>3, <2>6, <2>7, <2>8, <2>9, <2>10
<1> QED
  BY <1>1, <1>2, <1>3, <1>4 DEF Orders, Total

\* What is listed is what was found, once each.
LEMMA OrderedIs ==
    ASSUME NEW S, IsFiniteSet(S), \A p \in S : p \in Seq(FileNames)
    PROVE  Ordered(S) \in Seq(S)
<1>1. PICK N : N = Cardinality(S) /\ N \in Nat
  BY FS_CardinalityType
<1>2. PICK R : R = {pq \in S \X S : Before(pq[1], pq[2])}
  OBVIOUS
<1>3. \A n \in 1..N : \E p \in S : Cardinality({q \in S : <<q, p>> \in R}) = n - 1
  <2>1. Orders(R, S) /\ Total(R, S)
    BY <1>2, BeforeOrders
  <2>2. Ranked(R, S)
    BY ONLY <2>1, IsFiniteSet(S), RanksExist, Zenon
  <2> QED
    BY ONLY <1>1, <2>2 DEF Ranked
<1>4. ASSUME NEW n \in 1..N PROVE Ordered(S)[n] \in S
  <2>1. PICK p \in S : Cardinality({q \in S : <<q, p>> \in R}) = n - 1
    BY <1>3
  <2>2. {q \in S : <<q, p>> \in R} = {q \in S : Before(q, p)}
    BY <1>2
  <2>3. \E r \in S : Cardinality({q \in S : Before(q, r)}) = n - 1
    BY <2>1, <2>2
  <2> QED
    BY <1>1, <2>3 DEF Ordered
<1>6. PICK g : g = Ordered(S)
  OBVIOUS
<1>5. g = [n \in 1..N |-> CHOOSE p \in S : Cardinality({q \in S : Before(q, p)}) = n - 1]
  BY <1>1, <1>6 DEF Ordered
<1>7. g \in [1..N -> S]
  <2>1. PICK h : h = [n \in 1..N |-> CHOOSE p \in S : Cardinality({q \in S : Before(q, p)}) = n - 1]
    OBVIOUS
  <2>2. h = g /\ \A n \in 1..N : h[n] \in S
    BY <1>4, <1>5, <1>6, <2>1
  <2>3. DOMAIN h = 1..N /\ h = [n \in DOMAIN h |-> h[n]]
    BY ONLY <2>1
  <2>4. h \in [1..N -> S]
    BY ONLY <2>2, <2>3
  <2> QED
    BY <2>2, <2>4
<1> QED
  BY <1>1, <1>6, <1>7

\* What a listing takes; one that goes on takes a byte less.
LEMMA RenderedIs ==
    ASSUME NEW items \in Seq(Seq(FileNames))
    PROVE  /\ Rendered(items, TRUE) \in Nat /\ Rendered(items, FALSE) = Rendered(items, TRUE) + 1
           /\ items = <<>> => Rendered(items, TRUE) = 0
<1>1. PICK N \in Nat : N = Len(items)
  OBVIOUS
<1> DEFINE v == [n \in 1..N |-> Len(items[n])]
<1>2. v \in [1..N -> Nat]
  BY <1>1
<1>3. PICK g : Sums(g, N, v)
  <2> HIDE DEF v
  <2> QED
    BY <1>2, SumExists
<1>4. g = [n \in 0..N |-> IF n = 0 THEN 0 ELSE g[n - 1] + Len(items[n])]
  <2>1. \A n \in 0..N : g[n] = IF n = 0 THEN 0 ELSE g[n - 1] + Len(items[n])
    <3>1. \A n \in 0..N : g[n] = IF n = 0 THEN 0 ELSE g[n - 1] + v[n]
      <4> HIDE DEF v
      <4> QED
        BY <1>3 DEF Sums
    <3>2. \A n \in 0..N : n # 0 => n \in 1..N
      OBVIOUS
    <3> QED
      BY <3>1, <3>2
  <2> QED
    BY <1>3, <2>1 DEF Sums
<1> DEFINE fin == CHOOSE sum : sum = [n \in 0..N |-> IF n = 0 THEN 0 ELSE sum[n - 1] + Len(items[n])]
<1>5. fin = [n \in 0..N |-> IF n = 0 THEN 0 ELSE fin[n - 1] + Len(items[n])]
  BY ONLY <1>4, ZenonT(60) DEF fin
<1>6. \A t \in BOOLEAN : Rendered(items, t) = fin[N] + (IF items = <<>> THEN 0 ELSE N - 1) + (IF t THEN 0 ELSE 1)
  BY <1>1 DEF Rendered
<1>7. Sums(fin, N, v)
  <2> HIDE DEF fin
  <2>1. \A n \in 0..N : n # 0 => v[n] = Len(items[n])
    OBVIOUS
  <2> QED
    BY <1>5, <2>1 DEF Sums
<1>8. fin[0] = 0
  <2> HIDE DEF fin
  <2> QED
    BY <1>5
<1> HIDE DEF fin, v
<1>9. PICK c : c = fin[N] /\ c \in Nat
  BY <1>2, <1>7, SumOfNat
<1>10. PICK d : d = (IF items = <<>> THEN 0 ELSE N - 1) /\ d \in Nat
  BY <1>1
<1>11. PICK t, f : t = Rendered(items, TRUE) /\ f = Rendered(items, FALSE)
  OBVIOUS
<1>12. t = c + d + 0 /\ f = c + d + 1
  BY <1>6, <1>9, <1>10, <1>11
<1>13. items = <<>> => c = 0 /\ d = 0
  BY <1>1, <1>8, <1>9, <1>10
<1>14. t \in Nat /\ f = t + 1 /\ (items = <<>> => t = 0)
  <2>1. c \in Nat /\ d \in Nat /\ t = c + d + 0 /\ f = c + d + 1
    BY ONLY <1>9, <1>10, <1>12
  <2>2. t \in Nat /\ f = t + 1 /\ (c = 0 /\ d = 0 => t = 0)
    BY ONLY <2>1
  <2> QED
    BY ONLY <1>13, <2>2, Zenon
<1> QED
  BY ONLY <1>11, <1>14, Zenon

Paths == Seq(FileNames)

\* ListingExact, of any given.
Exact(given) ==
    LET n == Len(given.items) IN
    /\ IsPrefix(given.items, given.all)
    /\ given.truncated <=> given.items # given.all
    /\ n <= MaxResults /\ Rendered(given.items, given.truncated)
                           <= MaxOutput + (IF given.truncated THEN 0 ELSE 1)
    /\ given.truncated =>
          n = MaxResults \/ Rendered(SubSeq(given.all, 1, n + 1), TRUE) > MaxOutput

\* There is a longest beginning that fits, and it is what is answered.
LEMMA BoundedIs ==
    ASSUME NEW all \in Seq(Paths), NEW given, given = Bounded(all)
    PROVE  Exact(given)
<1>1. PICK L \in Nat : L = Len(all)
  OBVIOUS
<1> DEFINE First(n) == SubSeq(all, 1, n)
           Most(n) == (\A m \in 1..n : FitsIn(First(m))) /\ (n = L \/ ~FitsIn(First(n + 1)))
           Stops == {n \in 0..L : n = L \/ ~FitsIn(First(n + 1))}
<1>2. PICK n \in Stops : \A m \in Stops : n <= m
  <2>1. Stops \subseteq Nat /\ L \in Stops
    BY <1>1
  <2> HIDE DEF Stops
  <2> QED
    BY <2>1, HasLeast
<1>3. Most(n)
  <2>1. ASSUME NEW m \in 1..n PROVE FitsIn(First(m))
    <3>1. m - 1 \in 0..L /\ ~(n <= m - 1) /\ m - 1 # L /\ (m - 1) + 1 = m
      BY <1>1, <1>2, <2>1
    <3>2. m - 1 \notin Stops
      BY <1>2, <3>1
    <3> HIDE DEF First
    <3> QED
      BY <3>1, <3>2
  <2> HIDE DEF First
  <2> QED
    BY <1>2, <2>1
<1> DEFINE most == CHOOSE k \in 0..L : Most(k)
<1>4. most \in 0..L /\ Most(most)
  <2> HIDE DEF Most
  <2> QED
    BY <1>2, <1>3
<1>5. given = [items |-> First(most), truncated |-> most < L, all |-> all]
  BY <1>1 DEF Bounded
<1>6. PICK k \in 0..L : k = most /\ Most(k)
  BY <1>4
<1>7. /\ \A m \in 1..k : FitsIn(SubSeq(all, 1, m))
      /\ k = L \/ ~FitsIn(SubSeq(all, 1, k + 1))
  BY <1>6
<1>8. given = [items |-> SubSeq(all, 1, k), truncated |-> k < L, all |-> all]
  BY <1>5, <1>6
<1> HIDE DEF Most, most
<1>9. PICK items : items = SubSeq(all, 1, k)
  OBVIOUS
<1>0. k \in Nat /\ k <= L /\ k <= Len(all) /\ all \in Seq(Paths)
  BY <1>1
<1>91. items \in Seq(Paths) /\ Len(items) = k
  <2>1. \A i \in 1..k : all[i] \in Paths
    <3>1. \A i \in 1..k : i \in 1..Len(all)
      BY <1>0, <1>1
    <3> QED
      BY <3>1, ElementOfSeq
  <2>2. PICK one, n_ : one \in Int /\ n_ \in Int /\ one = 1 /\ n_ = k
    BY <1>0
  <2>3. SubSeq(all, one, n_) \in Seq(Paths) /\ Len(SubSeq(all, one, n_)) = IF one <= n_ THEN n_ - one + 1 ELSE 0
    BY ONLY <2>1, <2>2, SubSeqProperties
  <2> QED
    BY <1>0, <1>9, <2>2, <2>3
<1>10. given.items = items /\ given.all = all /\ given.truncated = (k < L)
  BY <1>8, <1>9
<1>11. IsPrefix(items, all)
  <2>1. SubSeq(items, 1, k) = items
    BY <1>91, SubSeqFull
  <2> QED
    BY <1>0, <1>9, <1>91, <2>1 DEF IsPrefix
<1>12. k < L <=> items # all
  <2>1. CASE k = L
    <3>1. items = all
      BY <1>0, <1>1, <1>9, <2>1, SubSeqFull
    <3> QED
      BY <2>1, <3>1
  <2>2. CASE k # L
    BY <1>0, <1>1, <1>91, <2>2
  <2> QED
    BY <2>1, <2>2
<1>13. PICK t, f : t = Rendered(items, TRUE) /\ f = Rendered(items, FALSE)
  OBVIOUS
<1>14. t \in Nat /\ f = t + 1 /\ (items = <<>> => t = 0)
  BY <1>13, <1>91, RenderedIs DEF Paths
<1>15. MaxResults \in Nat /\ MaxOutput \in Nat
  BY FileToolsAssumption
<1>16. k <= MaxResults /\ t <= MaxOutput
  <2>1. CASE k = 0
    <3>1. items = <<>>
      BY <1>91, <2>1
    <3> QED
      BY ONLY <1>0, <1>14, <1>15, <2>1, <3>1
  <2>2. CASE k # 0
    <3>1. k \in 1..k
      BY <1>0, <2>2
    <3>2. FitsIn(items)
      BY <1>7, <1>9, <3>1
    <3> QED
      BY <1>13, <1>91, <3>2 DEF FitsIn
  <2> QED
    BY <2>1, <2>2
<1>17. f <= MaxOutput + 1 /\ t <= MaxOutput + 0
  BY ONLY <1>14, <1>15, <1>16
<1>18. k < L => k = MaxResults \/ Rendered(SubSeq(all, 1, k + 1), TRUE) > MaxOutput
  <2> SUFFICES ASSUME k < L, k # MaxResults PROVE Rendered(SubSeq(all, 1, k + 1), TRUE) > MaxOutput
    OBVIOUS
  <2>1. PICK more : more = SubSeq(all, 1, k + 1)
    OBVIOUS
  <2>2. more \in Seq(Paths) /\ Len(more) = k + 1
    <3>1. \A i \in 1..(k + 1) : all[i] \in Paths
      <4>1. \A i \in 1..(k + 1) : i \in 1..Len(all)
        BY <1>0, <1>1
      <4> QED
        BY <4>1, ElementOfSeq
    <3>2. PICK one, n_ : one \in Int /\ n_ \in Int /\ one = 1 /\ n_ = k + 1
      BY <1>0
    <3>3. SubSeq(all, one, n_) \in Seq(Paths) /\ Len(SubSeq(all, one, n_)) = IF one <= n_ THEN n_ - one + 1 ELSE 0
      BY ONLY <3>1, <3>2, SubSeqProperties
    <3> QED
      BY <1>0, <2>1, <3>2, <3>3
  <2>3. ~FitsIn(more)
    BY <1>0, <1>7, <2>1
  <2>4. k + 1 <= MaxResults
    BY <1>0, <1>15, <1>16
  <2>5. PICK m : m = Rendered(more, TRUE)
    OBVIOUS
  <2>6. m \in Nat
    BY <2>2, <2>5, RenderedIs DEF Paths
  <2>7. ~(m <= MaxOutput)
    BY <2>2, <2>3, <2>4, <2>5 DEF FitsIn
  <2>8. m > MaxOutput
    BY ONLY <1>15, <2>6, <2>7
  <2> QED
    BY <2>1, <2>5, <2>8
<1>19. PICK n_, all_ : n_ = Len(given.items) /\ all_ = given.all
  OBVIOUS
<1>20. n_ = k /\ all_ = all
  BY <1>10, <1>19, <1>91
<1>21. CASE k < L
  <2>1. given.truncated = TRUE
    BY <1>10, <1>21
  <2>2. Rendered(given.items, given.truncated) = t
    BY ONLY <1>10, <1>13, <2>1, Zenon
  <2>3. items # all
    BY <1>12, <1>21
  <2> QED
    BY <1>10, <1>11, <1>16, <1>17, <1>18, <1>19, <1>20, <1>21, <2>1, <2>2, <2>3 DEF Exact
<1>22. CASE ~(k < L)
  <2>1. given.truncated = FALSE
    <3>1. (k < L) = FALSE
      BY <1>22
    <3> QED
      BY ONLY <1>10, <3>1, Zenon
  <2>2. Rendered(given.items, given.truncated) = f
    BY ONLY <1>10, <1>13, <2>1, Zenon
  <2>3. items = all
    BY <1>12, <1>22
  <2> QED
    BY <1>10, <1>11, <1>16, <1>17, <1>19, <1>20, <2>1, <2>2, <2>3 DEF Exact
<1> QED
  BY <1>21, <1>22

LEMMA AnswersIs ==
    ASSUME NEW S, IsFiniteSet(S), \A p \in S : p \in Seq(FileNames), Answers(Ordered(S))
    PROVE  ListingExact'
<1>1. Ordered(S) \in Seq(S)
  BY OrderedIs
<1>2. PICK all : all = Ordered(S)
  OBVIOUS
<1>3. S \subseteq Paths
  BY DEF Paths
<1>4. all \in Seq(Paths)
  BY <1>1, <1>2, <1>3
<1>5. PICK given : given = listing'
  OBVIOUS
<1>6. given = Bounded(all)
  BY <1>2, <1>5 DEF Answers
<1>7. Exact(given)
  BY ONLY <1>4, <1>6, BoundedIs
<1> QED
  BY <1>5, <1>7 DEF Exact, ListingExact

LEMMA NoListingIs == Exact(NoListing)
<1>1. PICK items : items = <<>>
  OBVIOUS
<1>0. items \in Seq(Paths)
  BY <1>1, EmptySeq
<1>2. Rendered(items, FALSE) = Rendered(items, TRUE) + 1 /\ Rendered(items, TRUE) = 0
  BY <1>0, <1>1, RenderedIs DEF Paths
<1>3. NoListing.items = items /\ NoListing.truncated = FALSE /\ NoListing.all = items
  BY <1>1 DEF NoListing
<1>4. IsPrefix(items, items) /\ Len(items) = 0
  BY <1>1 DEF IsPrefix
<1>5. PICK shown, end : shown = NoListing.items /\ end = NoListing.truncated
  OBVIOUS
<1>6. Rendered(shown, end) = 1
  <2>1. PICK t, f : t = Rendered(items, TRUE) /\ f = Rendered(items, FALSE)
    OBVIOUS
  <2>2. f = 1
    <3>1. f = t + 1 /\ t = 0
      BY ONLY <1>2, <2>1, Zenon
    <3> QED
      BY ONLY <3>1
  <2>3. Rendered(shown, end) = f
    BY ONLY <1>3, <1>5, <2>1, Zenon
  <2> QED
    BY <2>2, <2>3
<1>7. MaxResults \in Nat /\ MaxOutput \in Nat
  BY FileToolsAssumption
<1>8. Len(shown) = 0 /\ end = FALSE /\ Len(shown) <= MaxResults
  BY <1>3, <1>4, <1>5, <1>7
<1>9. IsPrefix(shown, NoListing.all) /\ shown = NoListing.all
  BY <1>3, <1>4, <1>5
<1>10. Rendered(shown, end) <= MaxOutput + 1
  BY <1>6, <1>7
<1>11. MaxOutput + (IF end THEN 0 ELSE 1) = MaxOutput + 1
  BY <1>8
<1>12. PICK m : m = Rendered(shown, end)
  OBVIOUS
<1> QED
  BY ONLY <1>5, <1>8, <1>9, <1>10, <1>11, <1>12, Zenon DEF Exact

\* EditUnambiguous, of what is replaced and the text it is found in.
Overlapping(old, text) ==
    /\ Occurrences(old, text) # {}
    /\ \A i, j \in Occurrences(old, text) : i - j < Len(old)

\* Scanning from the left, the one that is counted reaches over all others.
LEMMA CountedIs ==
    ASSUME NEW old, NEW text, Len(old) \in Nat, Len(old) # 0, Len(text) \in Nat, OneOccurrence(old, text)
    PROVE  Overlapping(old, text)
<1>1. PICK w, L : w = Len(old) /\ L = Len(text) /\ w \in Nat /\ L \in Nat /\ w # 0
  OBVIOUS
<1>2. PICK O : O = Occurrences(old, text)
  OBVIOUS
<1>3. \A k \in O : k \in Nat /\ k # 0 /\ k <= L + 1
  BY <1>1, <1>2 DEF Occurrences
<1> DEFINE St == [count : Nat, from : Nat]
           start == [count |-> 0, from |-> 1]
           Step(i, r) == IF i \in O /\ i >= r.from THEN [count |-> r.count + 1, from |-> i + w] ELSE r
           F == [i \in 1..(L + 1) |-> [r \in St |-> Step(i, r)]]
<1>4. F \in [1..(L + 1) -> [St -> St]]
  <2>1. ASSUME NEW i \in 1..(L + 1), NEW r \in St PROVE Step(i, r) \in St
    BY <1>1
  <2> HIDE DEF Step, St
  <2> QED
    BY <2>1
<1>5. PICK g \in [0..(L + 1) -> St] : Iterates(F, g, L + 1, start)
  <2>1. L + 1 \in Nat /\ start \in St
    BY <1>1
  <2> HIDE DEF F, St, start
  <2>2. PICK N, x, FF, SS : N = L + 1 /\ x = start /\ FF = F /\ SS = St
    OBVIOUS
  <2>3. N \in Nat /\ x \in SS /\ FF \in [1..N -> [SS -> SS]]
    BY <1>4, <2>1, <2>2
  <2>4. \E g \in [0..N -> SS] : Iterates(FF, g, N, x)
    BY ONLY <2>3, Iterated
  <2> QED
    BY <2>2, <2>4
<1>6. g = [i \in 0..(L + 1) |-> IF i = 0 THEN start ELSE Step(i, g[i - 1])]
  <2>1. ASSUME NEW i \in 0..(L + 1) PROVE g[i] = IF i = 0 THEN start ELSE Step(i, g[i - 1])
    <3>1. CASE i = 0
      <4> HIDE DEF Step, start
      <4> QED
        BY <1>5, <3>1 DEF Iterates
    <3>2. CASE i # 0
      <4>1. i \in 1..(L + 1) /\ i - 1 \in 0..(L + 1)
        BY <1>1, <3>2
      <4>2. g[i] = F[i][g[i - 1]] /\ g[i - 1] \in St
        <5> HIDE DEF F, St, start
        <5> QED
          BY <1>5, <4>1 DEF Iterates
      <4>3. F[i] = [r \in St |-> Step(i, r)]
        <5> HIDE DEF Step, St
        <5> QED
          BY <4>1
      <4> HIDE DEF F, St, start, Step
      <4> QED
        BY <3>2, <4>2, <4>3
    <3> QED
      BY <3>1, <3>2
  <2> HIDE DEF Step, start, St
  <2> QED
    BY <2>1
<1>7. g = [i \in 0..(L + 1) |-> IF i = 0 THEN [count |-> 0, from |-> 1]
                                ELSE IF i \in O /\ i >= g[i - 1].from
                                THEN [count |-> g[i - 1].count + 1, from |-> i + w]
                                ELSE g[i - 1]]
  BY ONLY <1>6, Zenon DEF Step, start
<1> DEFINE fin == CHOOSE scan : scan = [i \in 0..(L + 1) |->
                                IF i = 0 THEN [count |-> 0, from |-> 1]
                                ELSE IF i \in O /\ i >= scan[i - 1].from
                                THEN [count |-> scan[i - 1].count + 1, from |-> i + w]
                                ELSE scan[i - 1]]
<1>8. fin = [i \in 0..(L + 1) |-> IF i = 0 THEN [count |-> 0, from |-> 1]
                                ELSE IF i \in O /\ i >= fin[i - 1].from
                                THEN [count |-> fin[i - 1].count + 1, from |-> i + w]
                                ELSE fin[i - 1]]
  BY ONLY <1>7, ZenonT(60) DEF fin
<1>9. fin[L + 1].count = 1
  BY <1>1, <1>2 DEF OneOccurrence, Counted
<1> HIDE DEF fin, F, St, start, Step
<1>10. fin[0] = [count |-> 0, from |-> 1]
  BY <1>1, <1>8
<1>11. ASSUME NEW i \in 1..(L + 1)
       PROVE  fin[i] = IF i \in O /\ i >= fin[i - 1].from
                       THEN [count |-> fin[i - 1].count + 1, from |-> i + w]
                       ELSE fin[i - 1]
  <2>1. i \in 0..(L + 1) /\ i # 0
    BY <1>1
  <2> QED
    BY <1>8, <2>1
<1> DEFINE None(c, f, i) == c = 0 /\ f = 1 /\ \A k \in O : i < k
           One(c, f, i) == c = 1 /\ \E j \in O : j <= i /\ f = j + w /\ \A k \in O : k <= i => j <= k /\ k < j + w
           Scanned(i) == \E c, f \in Nat : fin[i] = [count |-> c, from |-> f]
                                        /\ (None(c, f, i) \/ One(c, f, i) \/ c >= 2)
<1>12. Scanned(0)
  <2>1. None(0, 1, 0)
    BY <1>3
  <2> HIDE DEF None, One
  <2> QED
    BY <1>10, <2>1
<1>13. ASSUME NEW i \in 1..(L + 1), Scanned(i - 1) PROVE Scanned(i)
  <2>1. PICK c, f \in Nat : fin[i - 1] = [count |-> c, from |-> f]
                            /\ (None(c, f, i - 1) \/ One(c, f, i - 1) \/ c >= 2)
    BY <1>13
  <2>2. fin[i] = IF i \in O /\ i >= f THEN [count |-> c + 1, from |-> i + w] ELSE [count |-> c, from |-> f]
    <3>1. fin[i - 1].count = c /\ fin[i - 1].from = f
      BY <2>1
    <3> QED
      BY <1>11, <2>1, <3>1
  <2>3. CASE i \in O /\ i >= f
    <3>1. fin[i] = [count |-> c + 1, from |-> i + w] /\ c + 1 \in Nat /\ i + w \in Nat
      BY <1>1, <2>2, <2>3
    <3>2. None(c, f, i - 1) => One(c + 1, i + w, i)
      <4> SUFFICES ASSUME None(c, f, i - 1) PROVE One(c + 1, i + w, i)
        OBVIOUS
      <4>1. \A k \in O : k <= i => k = i
        BY <1>3
      <4>2. c + 1 = 1 /\ i \in O /\ i <= i
        BY <2>3
      <4>3. \A k \in O : k <= i => i <= k /\ k < i + w
        BY <1>1, <4>1
      <4> QED
        BY <4>2, <4>3
    <3>3. c >= 1 => c + 1 >= 2
      OBVIOUS
    <3>4. One(c, f, i - 1) => c >= 1
      OBVIOUS
    <3>5. c >= 2 => c >= 1
      OBVIOUS
    <3> HIDE DEF None, One
    <3> QED
      BY <2>1, <3>1, <3>2, <3>3, <3>4, <3>5
  <2>4. CASE ~(i \in O /\ i >= f)
    <3>1. fin[i] = [count |-> c, from |-> f]
      BY <2>2, <2>4
    <3>2. None(c, f, i - 1) => None(c, f, i)
      <4> SUFFICES ASSUME None(c, f, i - 1) PROVE None(c, f, i)
        OBVIOUS
      <4>1. i \notin O
        BY <2>4
      <4> QED
        BY <1>3, <4>1
    <3>3. One(c, f, i - 1) => One(c, f, i)
      <4> SUFFICES ASSUME One(c, f, i - 1) PROVE One(c, f, i)
        OBVIOUS
      <4>1. PICK j \in O : j <= i - 1 /\ f = j + w /\ \A k \in O : k <= i - 1 => j <= k /\ k < j + w
        OBVIOUS
      <4>2. j \in Nat /\ j <= i
        BY <1>3, <4>1
      <4>3. ASSUME NEW k \in O, k <= i PROVE j <= k /\ k < j + w
        <5>1. CASE k = i
          BY <1>1, <2>4, <4>1, <4>2, <5>1
        <5>2. CASE k # i
          BY <1>3, <4>1, <4>3, <5>2
        <5> QED
          BY <5>1, <5>2
      <4> QED
        BY <4>1, <4>2, <4>3
    <3> HIDE DEF None, One
    <3> QED
      BY <2>1, <3>1, <3>2, <3>3
  <2> QED
    BY <2>3, <2>4
<1>14. Scanned(L + 1)
  <2> DEFINE Bad == {i \in 0..(L + 1) : ~Scanned(i)}
  <2> HIDE DEF Scanned
  <2>1. SUFFICES ASSUME Bad # {} PROVE FALSE
    <3>1. L + 1 \in 0..(L + 1)
      BY <1>1
    <3> QED
      BY <2>1, <3>1
  <2>2. PICK i \in Bad : \A k \in Bad : i <= k
    <3>1. Bad \subseteq Nat
      OBVIOUS
    <3> HIDE DEF Bad
    <3> QED
      BY <2>1, <3>1, HasLeast
  <2>3. i \in 1..(L + 1) /\ i - 1 \in 0..(L + 1) /\ ~(i <= i - 1)
    BY <1>1, <1>12, <2>2
  <2>4. i - 1 \notin Bad
    <3> HIDE DEF Bad
    <3> QED
      BY <2>2, <2>3
  <2>5. Scanned(i - 1)
    BY <2>3, <2>4
  <2> QED
    BY <1>13, <2>2, <2>3, <2>5
<1>15. PICK f \in Nat : One(1, f, L + 1)
  <2>1. PICK c, f \in Nat : fin[L + 1] = [count |-> c, from |-> f]
                            /\ (None(c, f, L + 1) \/ One(c, f, L + 1) \/ c >= 2)
    BY <1>14
  <2>2. c = 1
    BY <1>9, <2>1
  <2>3. ~None(c, f, L + 1) /\ ~(c >= 2)
    BY <2>2
  <2> HIDE DEF None, One
  <2> QED
    BY <2>1, <2>2, <2>3
<1>16. PICK j \in O : \A k \in O : k <= L + 1 => j <= k /\ k < j + w
  BY <1>15
<1>17. ASSUME NEW a \in O, NEW b \in O PROVE a - b < w
  <2>1. a < j + w /\ j <= b /\ a \in Nat /\ b \in Nat /\ j \in Nat
    BY <1>3, <1>16
  <2> QED
    BY ONLY <1>1, <2>1
<1> QED
  BY <1>1, <1>2, <1>16, <1>17 DEF Overlapping

WriteTyped ==
    \E pc, read, old, text, outcome, undeleted :
       write = [pc |-> pc, read |-> read, old |-> old, text |-> text, outcome |-> outcome,
                undeleted |-> undeleted]

\* Everything there is to know: each part of the property is inductive beside the types.
FileInv == tree \in Trees /\ WriteTyped /\ ListingExact /\ FileWhole /\ EditUnambiguous

LEMMA FileStarts == FileInit => FileInv
<1> SUFFICES ASSUME FileInit PROVE FileInv
  OBVIOUS
<1>1. WriteTyped
  BY DEF FileInit, NoWrite, WriteTyped
<1>2. ListingExact
  <2>1. PICK given : given = listing
    OBVIOUS
  <2>2. given = NoListing
    BY <2>1 DEF FileInit
  <2>3. Exact(given)
    BY ONLY <2>2, NoListingIs, Zenon
  <2> QED
    BY ONLY <2>1, <2>3, Zenon DEF Exact, ListingExact
<1>3. FileWhole /\ EditUnambiguous
  BY DEF FileInit, FileWhole, EditUnambiguous, NoWrite
<1> QED
  BY <1>1, <1>2, <1>3 DEF FileInv, FileInit

LEMMA ListingStep ==
    ASSUME FileInv, ListingNext
    PROVE  FileInv'
<1>1. IsFiniteSet(DOMAIN tree) /\ \A p \in DOMAIN tree : p \in Seq(FileNames) /\ p # <<>>
  BY FileToolsAssumption DEF FileInv, FileNames
<1>2. PICK base, matching : ListFiles(base) \/ FindFiles(base, matching) \/ SearchFiles(base, matching)
  BY DEF ListingNext
<1>3. \E S : IsFiniteSet(S) /\ (\A p \in S : p \in Seq(FileNames)) /\ Answers(Ordered(S))
  <2>1. CASE ListFiles(base)
    <3> DEFINE Within == {p \in DOMAIN tree : Under(base, p) /\ Len(p) = Len(base) + 1 /\ Visible(p)}
               Called == {<<Last(p)>> : p \in Within}
    <3>1. Answers(Ordered(Called))
      BY <2>1 DEF ListFiles
    <3>2. Within \subseteq DOMAIN tree
      OBVIOUS
    <3> HIDE DEF Within
    <3>3. IsFiniteSet(Within)
      BY <1>1, <3>2, FS_Subset
    <3>4. IsFiniteSet(Called)
      <4> DEFINE f == [p \in Within |-> <<Last(p)>>]
      <4>1. f \in Surjection(Within, Called)
        <5>1. f \in [Within -> Called] /\ \A c \in Called : \E p \in Within : f[p] = c
          OBVIOUS
        <5> HIDE DEF f, Called
        <5> QED
          BY <5>1 DEF Surjection
      <4> HIDE DEF f, Called
      <4> QED
        BY <3>3, <4>1, FS_Surjection
    <3>5. ASSUME NEW c \in Called PROVE c \in Seq(FileNames)
      <4>1. PICK p \in Within : c = <<Last(p)>>
        OBVIOUS
      <4>2. p \in Seq(FileNames) /\ p # <<>>
        BY <1>1, <3>2
      <4>3. Len(p) \in 1..Len(p)
        BY <4>2, EmptySeq
      <4>4. p[Len(p)] \in FileNames
        BY <4>2, <4>3, ElementOfSeq
      <4>5. PICK x \in FileNames : c = <<x>>
        BY <4>1, <4>4 DEF Last
      <4> QED
        BY <4>5
    <3> HIDE DEF Called
    <3> QED
      BY <3>1, <3>4, <3>5
  <2>2. CASE FindFiles(base, matching)
    <3> DEFINE Found == Walked(base) \cap matching
    <3>1. Answers(Ordered(Found)) /\ Found \subseteq DOMAIN tree
      BY <2>2 DEF FindFiles, Walked
    <3> HIDE DEF Found
    <3>2. IsFiniteSet(Found) /\ \A p \in Found : p \in Seq(FileNames)
      BY <1>1, <3>1, FS_Subset
    <3> QED
      BY <3>1, <3>2
  <2>3. CASE SearchFiles(base, matching)
    <3> DEFINE Found == {p \in Walked(base) \cap matching : tree[p] = "file"}
    <3>1. Answers(Ordered(Found)) /\ Found \subseteq DOMAIN tree
      BY <2>3 DEF SearchFiles, Walked
    <3> HIDE DEF Found
    <3>2. IsFiniteSet(Found) /\ \A p \in Found : p \in Seq(FileNames)
      BY <1>1, <3>1, FS_Subset
    <3> QED
      BY <3>1, <3>2
  <2> QED
    BY <1>2, <2>1, <2>2, <2>3
<1>4. PICK S : IsFiniteSet(S) /\ (\A p \in S : p \in Seq(FileNames)) /\ Answers(Ordered(S))
  BY <1>3
<1>5. ListingExact'
  BY <1>4, AnswersIs
<1>6. UNCHANGED <<tree, file, temporary, write>>
  BY <1>4 DEF Answers
<1> QED
  BY <1>5, <1>6 DEF FileInv, WriteTyped, FileWhole, EditUnambiguous

LEMMA WritingStep ==
    ASSUME FileInv, WritingNext
    PROVE  FileInv'
<1> USE DEF listingVars
<1>1. PICK pc, read, old, text, outcome, undeleted :
         write = [pc |-> pc, read |-> read, old |-> old, text |-> text, outcome |-> outcome,
                  undeleted |-> undeleted]
  BY DEF FileInv, WriteTyped
<1>2. /\ file \in Texts \cup {NoText, read, text}
      /\ pc = "idle" /\ temporary # NoText => undeleted /\ outcome = "write_error"
      /\ pc # "idle" /\ old # NoText => Overlapping(old, read)
  BY <1>1 DEF FileInv, FileWhole, EditUnambiguous, Overlapping
<1>3. SUFFICES
        ASSUME UNCHANGED listingVars
        PROVE  \E pc_, read_, old_, text_, outcome_, undeleted_ :
                 /\ write' = [pc |-> pc_, read |-> read_, old |-> old_, text |-> text_,
                              outcome |-> outcome_, undeleted |-> undeleted_]
                 /\ file' \in Texts \cup {NoText, read_, text_}
                 /\ pc_ = "idle" /\ temporary' # NoText =>
                      undeleted_ /\ outcome_ = "write_error"
                 /\ pc_ # "idle" /\ old_ # NoText => Overlapping(old_, read_)
  <2>1. UNCHANGED listingVars
    BY DEF WritingNext, WriteWhole, EditFile, FillTemporary, Replace, RemoveTemporary, SomebodyWrites
  <2>2. tree' \in Trees /\ ListingExact'
    BY <2>1 DEF FileInv, ListingExact
  <2>3. PICK pc_, read_, old_, text_, outcome_, undeleted_ :
                 /\ write' = [pc |-> pc_, read |-> read_, old |-> old_, text |-> text_,
                              outcome |-> outcome_, undeleted |-> undeleted_]
                 /\ file' \in Texts \cup {NoText, read_, text_}
                 /\ pc_ = "idle" /\ temporary' # NoText =>
                      undeleted_ /\ outcome_ = "write_error"
                 /\ pc_ # "idle" /\ old_ # NoText => Overlapping(old_, read_)
    BY <1>3, <2>1
  <2>4. write'.pc = pc_ /\ write'.read = read_ /\ write'.old = old_ /\ write'.text = text_
        /\ write'.outcome = outcome_ /\ write'.undeleted = undeleted_
    BY <2>3
  <2>5. FileWhole'
    BY <2>3, <2>4 DEF FileWhole
  <2>6. EditUnambiguous'
    BY <2>3, <2>4 DEF EditUnambiguous, Overlapping
  <2> QED
    BY <2>2, <2>3, <2>5, <2>6 DEF FileInv, WriteTyped
<1>4. CASE \E t \in Texts : WriteWhole(t)
  <2>1. PICK t \in Texts : WriteWhole(t)
    BY <1>4
  <2>2. write' = [pc |-> "writing", read |-> file, old |-> NoText, text |-> t, outcome |-> "none",
               undeleted |-> FALSE]
    BY <2>1 DEF WriteWhole, NewWrite, NoWrite
  <2> QED
    BY <2>1, <2>2 DEF WriteWhole
<1>5. CASE \E t \in Texts : \E o \in OldTexts : EditFile(o, t)
  <2>1. PICK t \in Texts, o \in OldTexts : EditFile(o, t)
    BY <1>5
  <2>2. CASE file # NoText /\ OneOccurrence(o, file)
    <3> DEFINE i == CHOOSE i \in Occurrences(o, file) : \A j \in Occurrences(o, file) : i <= j
               changed == SubSeq(file, 1, i - 1) \o t \o SubSeq(file, i + Len(o), Len(file))
    <3>1. write' = [pc |-> "writing", read |-> file, old |-> o, text |-> changed, outcome |-> "none",
                 undeleted |-> FALSE]
      BY <2>1, <2>2 DEF EditFile, NewWrite, NoWrite
    <3>2. file \in Texts /\ UNCHANGED file
      BY <2>1, <2>2 DEF EditFile
    <3> HIDE DEF changed
    <3>3. Len(o) \in Nat /\ Len(o) # 0 /\ Len(file) \in Nat
      BY <3>2, FileToolsAssumption
    <3>4. PICK whole : whole = file
      OBVIOUS
    <3>5. Overlapping(o, whole)
      BY <2>2, <3>3, <3>4, CountedIs
    <3> QED
      BY <3>1, <3>2, <3>4, <3>5
  <2>3. CASE ~(file # NoText /\ OneOccurrence(o, file))
    <3>1. write' = [pc |-> "idle", read |-> NoText, old |-> NoText, text |-> NoText,
                    outcome |-> "refused", undeleted |-> FALSE] /\ temporary' = NoText
      BY <1>1, <2>1, <2>3 DEF EditFile, NewWrite, NoWrite
    <3>2. file' \in Texts \cup {NoText}
      BY <2>1 DEF EditFile
    <3> QED
      BY <3>1, <3>2
  <2> QED
    BY <2>2, <2>3
<1>6. CASE FillTemporary
  <2>1. pc = "writing" /\ UNCHANGED file
    BY <1>1, <1>6 DEF FillTemporary
  <2>2. write' = [write EXCEPT !.pc = "filled"] \/ write' = [write EXCEPT !.pc = "failed"]
    BY <1>6 DEF FillTemporary
  <2>3. PICK pc_ : pc_ \in {"filled", "failed"} /\ write' = [write EXCEPT !.pc = pc_]
    BY <2>2
  <2>4. write' = [pc |-> pc_, read |-> read, old |-> old, text |-> text, outcome |-> outcome,
                  undeleted |-> undeleted]
    BY <1>1, <2>3
  <2>5. file' \in Texts \cup {NoText, read, text} /\ (old # NoText => Overlapping(old, read))
    BY <1>2, <2>1
  <2>6. pc_ # "idle"
    BY <2>3
  <2> QED
    BY ONLY <2>4, <2>5, <2>6
<1>7. CASE Replace
  <2>1. pc = "filled"
    BY <1>1, <1>7 DEF Replace
  <2>2. CASE file' = write.text /\ temporary' = NoText /\ WriteEnds("ok")
    <3>1. write' = [pc |-> "idle", read |-> read, old |-> old, text |-> text, outcome |-> "ok",
                 undeleted |-> undeleted]
      BY <1>1, <2>2 DEF WriteEnds
    <3>2. file' = text
      BY <1>1, <2>2
    <3> QED
      BY <2>2, <3>1, <3>2
  <2>3. CASE write' = [write EXCEPT !.pc = "failed"] /\ UNCHANGED <<file, temporary>>
    <3>1. write' = [pc |-> "failed", read |-> read, old |-> old, text |-> text, outcome |-> outcome,
                    undeleted |-> undeleted]
      BY <1>1, <2>3
    <3>2. pc # "idle" /\ file' = file
      BY <2>1, <2>3
    <3>3. file' \in Texts \cup {NoText, read, text}
      BY <1>2, <3>2
    <3>4. old # NoText => Overlapping(old, read)
      BY <1>2, <3>2
    <3> QED
      BY ONLY <3>1, <3>3, <3>4
  <2> QED
    BY <1>7, <2>2, <2>3 DEF Replace
<1>8. CASE RemoveTemporary
  <2>1. PICK gone \in BOOLEAN :
          /\ temporary' = IF gone THEN temporary ELSE NoText
          /\ write' = [write EXCEPT !.pc = "idle", !.outcome = "write_error", !.undeleted = gone]
    BY <1>8 DEF RemoveTemporary
  <2>2. write' = [pc |-> "idle", read |-> read, old |-> old, text |-> text,
                  outcome |-> "write_error", undeleted |-> gone]
    BY <1>1, <2>1
  <2>3. file' \in Texts \cup {NoText, read, text}
    BY <1>2, <1>8 DEF RemoveTemporary
  <2>4. temporary' # NoText => gone
    BY <2>1
  <2> QED
    BY ONLY <2>2, <2>3, <2>4
<1>9. CASE SomebodyWrites
  BY <1>1, <1>2, <1>9 DEF SomebodyWrites
<1> QED
  BY <1>4, <1>5, <1>6, <1>7, <1>8, <1>9 DEF WritingNext

\* A listing of the workspace says when something is missing and is otherwise complete,
\* the file a Tool writes is whole at any moment, nothing is left beside it but by a write
\* that failed and whose temporary file could not be removed either, and an edit goes on only where its old_text is found at one place, however the calls, the
\* failures and the writes of others follow each other (filesystem.py).
THEOREM FilesAreWhole == FileSpec => []FileToolsSound
<1>1. FileInit => FileInv
  BY FileStarts
<1>2. FileInv /\ [FileNext]_fileVars => FileInv'
  <2>1. CASE ListingNext
    BY <2>1, ListingStep
  <2>2. CASE WritingNext
    BY <2>2, WritingStep
  <2>3. CASE UNCHANGED fileVars
    BY <2>3 DEF fileVars, listingVars, FileInv, WriteTyped, ListingExact, FileWhole, EditUnambiguous
  <2> QED
    BY <2>1, <2>2, <2>3 DEF FileNext
<1>3. FileInv => FileToolsSound
  BY DEF FileInv, FileToolsSound
<1> QED
  BY <1>1, <1>2, <1>3, PTL DEF FileSpec

-----------------------------------------------------------------------------
\* PatchText: a patch turned round.

\* The lines of a side have the places 1, 2, ... in it.
Placed(side) ==
    /\ \A i \in side : Place(side, i) \in 1..Cardinality(side)
    /\ \A i, j \in side : Place(side, i) = Place(side, j) => i = j
    /\ \A n \in 1..Cardinality(side) : \E i \in side : Place(side, i) = n

FromOne(s) == Len(s) \in Nat /\ DOMAIN s = 1..Len(s)

LEMMA SidePlaces ==
    ASSUME NEW S, S \subseteq Nat, IsFiniteSet(S)
    PROVE  Placed(S)
<1>1. PICK R : R = {pq \in S \X S : pq[1] < pq[2]}
  OBVIOUS
<1>2. Orders(R, S) /\ Total(R, S)
  <2>1. \A p, q \in S : <<p, q>> \in R <=> p < q
    BY <1>1
  <2>2. \A p \in S : p \in Nat
    OBVIOUS
  <2> QED
    BY <2>1, <2>2 DEF Orders, Total
<1>3. Ranked(R, S)
  BY ONLY <1>2, IsFiniteSet(S), RanksExist, Zenon
<1>4. \A i \in S : {k \in S : k < i} = {k \in S : <<k, i>> \in R}
  BY <1>1
<1>5. \A i \in S : Place(S, i) = Cardinality({k \in S : <<k, i>> \in R}) + 1
  BY <1>4 DEF Place
<1>6. PICK N : N = Cardinality(S) /\ N \in Nat
  BY FS_CardinalityType
<1> DEFINE Below(p) == Cardinality({k \in S : <<k, p>> \in R})
<1>7. /\ \A p \in S : Below(p) \in 0..(N - 1)
      /\ \A p, q \in S : Below(p) = Below(q) => p = q
      /\ \A n \in 1..N : \E p \in S : Below(p) = n - 1
  BY ONLY <1>3, <1>6 DEF Ranked
<1>8. \A i \in S : Place(S, i) = Below(i) + 1
  BY <1>5
<1> HIDE DEF Below
<1>9. \A i \in S : Place(S, i) \in 1..N
  BY <1>6, <1>7, <1>8
<1>10. \A i, j \in S : Place(S, i) = Place(S, j) => i = j
  BY <1>6, <1>7, <1>8
<1>11. ASSUME NEW n \in 1..N PROVE \E i \in S : Place(S, i) = n
  <2>1. PICK i \in S : Below(i) = n - 1
    BY <1>7
  <2>2. Place(S, i) = n
    BY <1>6, <1>8, <2>1
  <2> QED
    BY <2>2
<1> QED
  BY <1>6, <1>9, <1>10, <1>11 DEF Placed

LEMMA FromOneIs ==
    ASSUME NEW s, NEW n \in Nat, s = [i \in 1..n |-> s[i]]
    PROVE  FromOne(s) /\ Len(s) = n
<1> DEFINE S == {s[i] : i \in 1..n}
<1>1. s \in [1..n -> S]
  OBVIOUS
<1> HIDE DEF S
<1>2. s \in Seq(S)
  BY <1>1
<1>3. Len(s) \in Nat /\ DOMAIN s = 1..Len(s)
  BY <1>2, LenProperties
<1>4. DOMAIN s = 1..n
  BY <1>1
<1>5. PICK m \in Nat : m = Len(s) /\ 1..m = 1..n
  BY <1>3, <1>4
<1>6. m = n
  <2>1. m \in 1..m \/ m = 0
    BY <1>5
  <2>2. n \in 1..n \/ n = 0
    OBVIOUS
  <2>3. (m # 0 => m \in 1..n) /\ (n # 0 => n \in 1..m)
    BY ONLY <1>5, <2>1, <2>2, Zenon
  <2>0. m \in Nat /\ n \in Nat
    OBVIOUS
  <2>4. (m # 0 => m <= n) /\ (n # 0 => n <= m)
    BY ONLY <2>0, <2>3
  <2> QED
    BY ONLY <2>0, <2>4
<1> QED
  BY <1>3, <1>5, <1>6 DEF FromOne

LEMMA SidesAre ==
    ASSUME NEW body, FromOne(body), NEW at, NEW sign, NEW side, side = Side(body, at, sign)
    PROVE  Placed(side) /\ Cardinality(side) \in Nat /\ side \subseteq DOMAIN body
<1>1. PICK n \in Nat : n = Len(body) /\ DOMAIN body = 1..n
  BY Zenon DEF FromOne
<1>2. side \subseteq 1..n
  BY <1>1 DEF Side, Lines
<1>3. IsFiniteSet(1..n)
  <2>1. PICK a, b : a \in Int /\ b \in Int /\ a = 1 /\ b = n
    OBVIOUS
  <2>2. IsFiniteSet(a..b)
    BY ONLY <2>1, FS_Interval
  <2> QED
    BY <2>1, <2>2
<1>4. IsFiniteSet(side)
  BY <1>2, <1>3, FS_Subset
<1>5. Placed(side)
  <2>1. side \subseteq Nat
    BY ONLY <1>2
  <2> QED
    BY ONLY <1>4, <2>1, SidePlaces
<1> QED
  BY ONLY <1>1, <1>2, <1>4, <1>5, FS_CardinalityType, Zenon

\* A body turned round has its sides exchanged.
OtherWay(B, body, at) ==
    /\ Side(B, at, "-") = Side(body, at, "+")
    /\ Side(B, at, "+") = Side(body, at, "-")
    /\ \A i \in DOMAIN body : /\ B[i].text = body[i].text
                              /\ B[i].kind = " " <=> body[i].kind = " "
                              /\ Bare(B, i) <=> Bare(body, i)
    /\ FromOne(B)

LEMMA TurnedIs ==
    ASSUME NEW body, FromOne(body), NEW B, B = Turned(body), NEW at \in Nat
    PROVE  OtherWay(B, body, at)
<1>1. PICK n \in Nat : n = Len(body) /\ DOMAIN body = 1..n
  BY Zenon DEF FromOne
<1>2. FromOne(B) /\ Len(B) = n
  <2>1. DOMAIN B = 1..n /\ B = [i \in 1..n |-> B[i]]
    BY <1>1 DEF Turned
  <2> QED
    BY ONLY <1>1, <2>1, FromOneIs
<1>3. DOMAIN B = DOMAIN body
  BY DEF Turned
<1>4. ASSUME NEW i \in DOMAIN body
      PROVE  /\ B[i].text = body[i].text
             /\ B[i].kind = CASE body[i].kind = "+" -> "-" [] body[i].kind = "-" -> "+" [] OTHER -> body[i].kind
  BY DEF Turned
<1>5. ASSUME NEW i \in DOMAIN body
      PROVE  /\ B[i].kind = " " <=> body[i].kind = " "
             /\ B[i].kind = "-" <=> body[i].kind = "+"
             /\ B[i].kind = "+" <=> body[i].kind = "-"
             /\ B[i].kind = "@@" <=> body[i].kind = "@@"
             /\ B[i].kind = Marker <=> body[i].kind = Marker
  BY <1>4 DEF Marker
<1>6. Lines(B, at) = Lines(body, at)
  <2>1. ASSUME NEW i \in DOMAIN body, at < i
        PROVE  (\A k \in (at + 1)..i : B[k].kind # "@@") <=> (\A k \in (at + 1)..i : body[k].kind # "@@")
    <3> SUFFICES ASSUME NEW k \in (at + 1)..i PROVE B[k].kind = "@@" <=> body[k].kind = "@@"
      OBVIOUS
    <3>1. k \in DOMAIN body
      BY <1>1
    <3> QED
      BY <1>5, <3>1
  <2> QED
    BY <1>3, <1>5, <2>1 DEF Lines
<1>7. ASSUME NEW i \in DOMAIN body PROVE Bare(B, i) <=> Bare(body, i)
  <2>1. i < n => i + 1 \in DOMAIN body
    BY <1>1
  <2> QED
    BY <1>1, <1>2, <1>5, <2>1 DEF Bare
<1>8. Lines(body, at) \subseteq DOMAIN body
  BY DEF Lines
<1>9. \A i \in Lines(body, at) : /\ B[i].kind = " " <=> body[i].kind = " "
                                 /\ B[i].kind = "-" <=> body[i].kind = "+"
                                 /\ B[i].kind = "+" <=> body[i].kind = "-"
  BY ONLY <1>5, <1>8
<1>10. Side(B, at, "-") = Side(body, at, "+") /\ Side(B, at, "+") = Side(body, at, "-")
  BY ONLY <1>6, <1>9 DEF Side
<1> QED
  <2>1. \A i \in DOMAIN body : B[i].text = body[i].text
    BY <1>4
  <2>2. \A i \in DOMAIN body : B[i].kind = " " <=> body[i].kind = " "
    BY ONLY <1>5, Zenon
  <2> QED
    BY ONLY <1>2, <1>7, <1>10, <2>1, <2>2, Zenon DEF OtherWay

\* What Replaced makes: the lines before and after the hunk, and the new side between.
Put(h, f, body, at, p, nl) ==
    LET old == Side(body, at, "-")
        new == Side(body, at, "+")
        o == Cardinality(old)
        w == Cardinality(new)
    IN /\ FromOne(h) /\ Len(h) = Len(f) + (w - o)
       /\ \A n \in 1..p : h[n] = f[n]
       /\ \A k \in new : h[p + Place(new, k)] = IF body[k].kind = " " THEN f[p + Place(old, k)]
                                                ELSE NewLine(body, k, nl)
       /\ \A n \in (p + w + 1)..(Len(f) + (w - o)) : h[n] = f[n - (w - o)]

LEMMA ReplacedIs ==
    ASSUME NEW body, FromOne(body), NEW at, NEW f, FromOne(f), NEW nl,
           NEW p \in FoundAt(f, body, at), NEW h, h = Replaced(f, body, at, p, nl)
    PROVE  Put(h, f, body, at, p, nl)
<1> DEFINE old == Side(body, at, "-")
           new == Side(body, at, "+")
<1>2. PICK o, w, L : o = Cardinality(old) /\ w = Cardinality(new) /\ L = Len(f)
  OBVIOUS
<1>3. Placed(old) /\ o \in Nat
  BY ONLY FromOne(body), <1>2, SidesAre, Zenon
<1>4. Placed(new) /\ w \in Nat
  BY ONLY FromOne(body), <1>2, SidesAre, Zenon
<1>5. L \in Nat
  BY <1>2 DEF FromOne
<1>6. p \in Nat /\ p + o <= L
  <2>1. p \in 0..(L - o)
    BY <1>2 DEF FoundAt
  <2> QED
    BY <1>3, <1>5, <2>1
<1> DEFINE LineAt(n) == CHOOSE i \in new : p + Place(new, i) = n
           MadeOf(n) == IF n <= p THEN f[n]
                      ELSE IF n > p + Cardinality(new) THEN f[n - (Cardinality(new) - Cardinality(old))]
                      ELSE IF body[LineAt(n)].kind = " " THEN f[p + Place(old, LineAt(n))]
                      ELSE NewLine(body, LineAt(n), nl)
           body_(n) == IF n <= p THEN f[n]
                       ELSE IF n > p + w THEN f[n - (w - o)]
                       ELSE IF body[LineAt(n)].kind = " " THEN f[p + Place(old, LineAt(n))]
                       ELSE NewLine(body, LineAt(n), nl)
<1>70. h = [n \in 1..(Len(f) + (Cardinality(new) - Cardinality(old))) |-> MadeOf(n)]
  <2>1. h = Replaced(f, body, at, p, nl)
    OBVIOUS
  <2> QED
    BY ONLY <2>1, Zenon DEF Replaced
<1> HIDE DEF old, new, LineAt
<1>71. \A n : MadeOf(n) = body_(n)
  BY ONLY <1>2
<1>7. h = [n \in 1..(L + (w - o)) |-> body_(n)]
  <2> HIDE DEF MadeOf, body_
  <2> QED
    BY ONLY <1>2, <1>70, <1>71
<1>8. PICK N \in Nat : N = L + (w - o)
  BY <1>3, <1>4, <1>5, <1>6
<1> HIDE DEF body_
<1>9. FromOne(h) /\ Len(h) = N
  <2>1. h = [n \in 1..N |-> h[n]]
    BY <1>7, <1>8
  <2> QED
    BY ONLY <1>8, <2>1, FromOneIs
<1>10. \A n \in 1..N : h[n] = body_(n)
  BY <1>7, <1>8
<1>11. ASSUME NEW n \in 1..p PROVE h[n] = f[n]
  <2>1. n \in 1..N /\ n <= p
    BY <1>3, <1>4, <1>5, <1>6, <1>8
  <2> QED
    BY <1>10, <2>1 DEF body_
<1>12. ASSUME NEW k \in new
       PROVE  h[p + Place(new, k)] = IF body[k].kind = " " THEN f[p + Place(old, k)] ELSE NewLine(body, k, nl)
  <2>1. PICK m : m = Place(new, k) /\ m \in 1..w
    BY <1>2, <1>4 DEF Placed
  <2>2. PICK n : n = p + m /\ n \in 1..N /\ ~(n <= p) /\ ~(n > p + w)
    BY <1>3, <1>4, <1>5, <1>6, <1>8, <2>1
  <2>3. PICK i : i = LineAt(n)
    OBVIOUS
  <2>4. i \in new /\ p + Place(new, i) = n
    BY <2>1, <2>2, <2>3 DEF LineAt
  <2>5. Place(new, i) \in Nat
    BY <1>4, <2>4 DEF Placed
  <2>6. Place(new, i) = m
    BY <1>6, <2>1, <2>2, <2>4, <2>5
  <2>7. i = k
    BY <1>4, <2>1, <2>4, <2>6 DEF Placed
  <2>8. h[n] = body_(n)
    BY <1>10, <2>2
  <2>9. body_(n) = IF body[k].kind = " " THEN f[p + Place(old, k)] ELSE NewLine(body, k, nl)
    BY <2>2, <2>3, <2>7 DEF body_
  <2> QED
    BY <2>1, <2>2, <2>8, <2>9
<1>13. ASSUME NEW n \in (p + w + 1)..N PROVE h[n] = f[n - (w - o)]
  <2>1. n \in 1..N /\ ~(n <= p) /\ n > p + w
    BY <1>3, <1>4, <1>5, <1>6, <1>8
  <2> QED
    BY <1>10, <2>1 DEF body_
<1> QED
  BY <1>2, <1>8, <1>9, <1>11, <1>12, <1>13 DEF Put, old, new

SameLines(f, g) ==
    /\ Len(f) = Len(g)
    /\ \A i \in 1..Len(f) : f[i].text = g[i].text /\ (f[i].ending = "none" <=> g[i].ending = "none")

GivesBack(p, g, B, at, newline, f) ==
    /\ p \in FoundAt(g, B, at)
    /\ \A e : e = Replaced(g, B, at, p, newline) => FromOne(e) /\ SameLines(e, f)

\* One hunk: where it was put it is found, turned round, and gives back what was there.
LEMMA OneHunk ==
    ASSUME NEW body, FromOne(body), NEW B, B = Turned(body), NEW at \in Nat,
           NEW f, FromOne(f), NEW g, FromOne(g), NEW nl, nl # "none", NEW nl2, nl2 # "none",
           NEW p \in FoundAt(f, body, at), NEW h, h = Replaced(f, body, at, p, nl), SameLines(g, h)
    PROVE  GivesBack(p, g, B, at, nl2, f)
<1>1. PICK old, new : old = Side(body, at, "-") /\ new = Side(body, at, "+")
  OBVIOUS
<1>2. PICK o, w, L : o = Cardinality(old) /\ w = Cardinality(new) /\ L = Len(f)
  OBVIOUS
<1>3. Placed(old) /\ o \in Nat /\ old \subseteq DOMAIN body
  BY ONLY FromOne(body), <1>1, <1>2, SidesAre, Zenon
<1>4. Placed(new) /\ w \in Nat /\ new \subseteq DOMAIN body
  BY ONLY FromOne(body), <1>1, <1>2, SidesAre, Zenon
<1>5. L \in Nat
  BY <1>2 DEF FromOne
<1>6. /\ p \in Nat /\ p + o <= L
      /\ \A i \in old : /\ f[p + Place(old, i)].text = body[i].text
                        /\ Bare(body, i) <=> f[p + Place(old, i)].ending = "none"
  <2>1. p \in 0..(L - o)
    BY <1>1, <1>2 DEF FoundAt
  <2>2. \A i \in old : /\ f[p + Place(old, i)].text = body[i].text
                       /\ Bare(body, i) <=> f[p + Place(old, i)].ending = "none"
    BY <1>1 DEF FoundAt
  <2> QED
    BY <1>3, <1>5, <2>1, <2>2
<1>7. /\ Side(B, at, "-") = new /\ Side(B, at, "+") = old
      /\ \A i \in DOMAIN body : /\ B[i].text = body[i].text
                                /\ B[i].kind = " " <=> body[i].kind = " "
                                /\ Bare(B, i) <=> Bare(body, i)
      /\ FromOne(B)
  <2>1. FromOne(body) /\ B = Turned(body) /\ at \in Nat
    OBVIOUS
  <2>2. OtherWay(B, body, at)
    BY ONLY <2>1, TurnedIs, Zenon
  <2> QED
    BY ONLY <1>1, <2>2 DEF OtherWay
<1>8. \A i \in DOMAIN body : i \in old /\ i \in new <=> (i \in old /\ body[i].kind = " ")
  BY <1>1 DEF Side
<1>81. \A i \in new : body[i].kind = " " => i \in old
  BY <1>1 DEF Side
<1>82. \A i \in old : body[i].kind = " " => i \in new
  BY <1>1 DEF Side
<1>9. Put(h, f, body, at, p, nl)
  BY ReplacedIs
<1>10. /\ Len(h) = L + (w - o)
       /\ \A n \in 1..p : h[n] = f[n]
       /\ \A k \in new : h[p + Place(new, k)] = IF body[k].kind = " " THEN f[p + Place(old, k)]
                                                ELSE NewLine(body, k, nl)
       /\ \A n \in (p + w + 1)..(L + (w - o)) : h[n] = f[n - (w - o)]
  BY ONLY <1>1, <1>2, <1>9 DEF Put
<1>11. PICK M \in Nat : M = L + (w - o)
  BY <1>3, <1>4, <1>5, <1>6
<1>12. /\ Len(g) = M
       /\ \A n \in 1..M : g[n].text = h[n].text /\ (g[n].ending = "none" <=> h[n].ending = "none")
  BY <1>10, <1>11 DEF SameLines
<1>13. \A k \in new : Place(new, k) \in 1..w /\ p + Place(new, k) \in 1..M
  <2> SUFFICES ASSUME NEW k \in new PROVE Place(new, k) \in 1..w /\ p + Place(new, k) \in 1..M
    OBVIOUS
  <2>1. Place(new, k) \in 1..w
    BY <1>2, <1>4 DEF Placed
  <2> QED
    BY <1>3, <1>4, <1>5, <1>6, <1>11, <2>1
<1>14. ASSUME NEW k \in new
       PROVE  /\ h[p + Place(new, k)].text = body[k].text
              /\ Bare(body, k) <=> h[p + Place(new, k)].ending = "none"
  <2>1. PICK line : line = h[p + Place(new, k)]
    OBVIOUS
  <2>2. line = IF body[k].kind = " " THEN f[p + Place(old, k)] ELSE NewLine(body, k, nl)
    BY <1>10, <2>1
  <2>3. CASE body[k].kind = " "
    BY <1>6, <1>81, <2>1, <2>2, <2>3
  <2>4. CASE body[k].kind # " "
    <3>1. line.text = body[k].text /\ (Bare(body, k) <=> line.ending = "none")
      BY <2>2, <2>4 DEF NewLine
    <3> QED
      BY <2>1, <3>1
  <2> QED
    BY <2>3, <2>4
<1>15. p \in FoundAt(g, B, at)
  <2>1. p \in 0..(Len(g) - w)
    BY <1>3, <1>4, <1>5, <1>6, <1>11, <1>12
  <2>2. ASSUME NEW k \in new
        PROVE  /\ g[p + Place(new, k)].text = B[k].text
               /\ Bare(B, k) <=> g[p + Place(new, k)].ending = "none"
    <3>1. k \in DOMAIN body /\ p + Place(new, k) \in 1..M
      BY <1>4, <1>13
    <3>2. PICK n \in 1..M : n = p + Place(new, k)
      BY <3>1
    <3>3. h[n].text = body[k].text /\ (Bare(body, k) <=> h[n].ending = "none")
      BY <1>14, <3>2
    <3> QED
      BY <1>7, <1>12, <3>1, <3>2, <3>3
  <2> QED
    BY <1>2, <1>7, <2>1, <2>2 DEF FoundAt
<1>16. ASSUME NEW e, e = Replaced(g, B, at, p, nl2) PROVE FromOne(e) /\ SameLines(e, f)
  <2>1. Put(e, g, B, at, p, nl2)
    BY <1>7, <1>15, <1>16, ReplacedIs
  <2>2. /\ FromOne(e) /\ Len(e) = M + (o - w)
        /\ \A n \in 1..p : e[n] = g[n]
        /\ \A k \in old : e[p + Place(old, k)] = IF B[k].kind = " " THEN g[p + Place(new, k)]
                                                 ELSE NewLine(B, k, nl2)
        /\ \A n \in (p + o + 1)..(M + (o - w)) : e[n] = g[n - (o - w)]
    BY ONLY <1>2, <1>7, <1>12, <2>1 DEF Put
  <2>3. Len(e) = L
    <3>1. Len(e) = M + (o - w) /\ M = L + (w - o) /\ o \in Nat /\ w \in Nat /\ L \in Nat
      BY <1>3, <1>4, <1>5, <1>11, <2>2
    <3> QED
      BY ONLY <3>1
  <2>4. ASSUME NEW n \in 1..L PROVE e[n].text = f[n].text /\ (e[n].ending = "none" <=> f[n].ending = "none")
    <3>1. CASE n <= p
      <4>1. n \in 1..p /\ n \in 1..M
        BY <1>3, <1>4, <1>5, <1>6, <1>11, <3>1
      <4>2. e[n] = g[n] /\ h[n] = f[n]
        BY <1>10, <2>2, <4>1
      <4> QED
        BY <1>12, <4>1, <4>2
    <3>2. CASE n > p + o
      <4>1. PICK m : m = n - (o - w) /\ m \in 1..M /\ m \in (p + w + 1)..(L + (w - o)) /\ m - (w - o) = n
                     /\ n \in (p + o + 1)..(M + (o - w))
        BY <1>3, <1>4, <1>5, <1>6, <1>11, <3>2
      <4>2. e[n] = g[m] /\ h[m] = f[n]
        BY <1>10, <2>2, <4>1
      <4> QED
        BY <1>12, <4>1, <4>2
    <3>3. CASE n > p /\ n <= p + o
      <4>1. n - p \in 1..o
        BY <1>3, <1>6, <3>3
      <4>2. PICK k \in old : Place(old, k) = n - p
        BY <1>2, <1>3, <4>1 DEF Placed
      <4>3. p + Place(old, k) = n
        BY <1>6, <4>2
      <4>4. /\ f[n].text = body[k].text
            /\ Bare(body, k) <=> f[n].ending = "none"
        BY <1>6, <4>3
      <4>5. e[n] = IF B[k].kind = " " THEN g[p + Place(new, k)] ELSE NewLine(B, k, nl2)
        BY <2>2, <4>3
      <4>6. k \in DOMAIN body
        BY <1>3
      <4>7. CASE body[k].kind = " "
        <5>1. k \in new /\ B[k].kind = " "
          BY <1>7, <1>82, <4>6, <4>7
        <5>2. PICK m \in 1..M : m = p + Place(new, k)
          BY <1>13, <5>1
        <5>3. h[m].text = body[k].text /\ (Bare(body, k) <=> h[m].ending = "none")
          BY <1>14, <5>1, <5>2
        <5>4. e[n] = g[m]
          BY <4>5, <5>1, <5>2
        <5> QED
          BY <1>12, <4>4, <5>3, <5>4
      <4>8. CASE body[k].kind # " "
        <5>1. e[n] = NewLine(B, k, nl2)
          BY <1>7, <4>5, <4>6, <4>8
        <5>2. e[n].text = B[k].text /\ (Bare(B, k) <=> e[n].ending = "none")
          BY <5>1 DEF NewLine
        <5> QED
          BY <1>7, <4>4, <4>6, <5>2
      <4> QED
        BY <4>7, <4>8
    <3> QED
      BY <1>3, <1>6, <3>1, <3>2, <3>3
  <2> QED
    BY <1>2, <2>2, <2>3, <2>4 DEF SameLines
<1> QED
  BY <1>15, <1>16 DEF GivesBack

\* The hunks of a body one after the other, in some order.
HunkAt(marked, body, at, lines, newline) ==
    IF marked[at].kind = "@@" THEN Hunk(lines, body, at, newline) ELSE lines
Steps(g, N, given, order, marked, body, newline) ==
    g = [n \in 0..N |-> IF n = 0 THEN given ELSE HunkAt(marked, body, order[n], g[n - 1], newline)]

LEMMA StepsExist ==
    ASSUME NEW N \in Nat, NEW given, NEW order, NEW marked, NEW body, NEW newline
    PROVE  \E g : Steps(g, N, given, order, marked, body, newline)
<1> DEFINE Next_(n, lines) == HunkAt(marked, body, order[n], lines, newline)
           Upto(g, m) == g = [n \in 0..m |-> IF n = 0 THEN given ELSE Next_(n, g[n - 1])]
           Bad == {m \in 0..N : ~ \E g : Upto(g, m)}
<1>1. SUFFICES ASSUME Bad # {} PROVE FALSE
  <2>1. N \notin Bad
    BY <1>1
  <2> QED
    BY <2>1 DEF Steps
<1> HIDE DEF Next_
<1>2. PICK m \in Bad : \A k \in Bad : m <= k
  <2>1. Bad \subseteq Nat
    OBVIOUS
  <2> HIDE DEF Bad
  <2> QED
    BY <1>1, <2>1, HasLeast
<1>3. CASE m = 0
  <2> DEFINE g == [n \in 0..0 |-> given]
  <2>1. g = [n \in 0..0 |-> IF n = 0 THEN given ELSE Next_(n, g[n - 1])]
    OBVIOUS
  <2> QED
    BY <1>2, <1>3, <2>1
<1>4. CASE m # 0
  <2>1. m \in 1..N /\ m - 1 \in 0..N /\ ~(m <= m - 1) /\ m \in Nat
    BY <1>2, <1>4
  <2>2. PICK g : g = [n \in 0..(m - 1) |-> IF n = 0 THEN given ELSE Next_(n, g[n - 1])]
    BY <1>2, <2>1
  <2> DEFINE h == [n \in 0..m |-> IF n = m THEN Next_(m, g[m - 1]) ELSE g[n]]
  <2>3. ASSUME NEW n \in 0..m PROVE h[n] = IF n = 0 THEN given ELSE Next_(n, h[n - 1])
    <3>1. CASE n = m
      <4>1. m - 1 \in 0..m /\ m - 1 # m /\ n # 0
        BY <2>1, <3>1
      <4>2. h[m - 1] = g[m - 1] /\ h[n] = Next_(m, g[m - 1])
        BY <2>1, <3>1, <4>1
      <4> QED
        BY <3>1, <4>1, <4>2
    <3>2. CASE n # m
      <4>1. n \in 0..(m - 1)
        BY <2>1, <3>2
      <4>2. h[n] = g[n] /\ g[n] = IF n = 0 THEN given ELSE Next_(n, g[n - 1])
        BY <2>2, <3>2, <4>1
      <4>3. n # 0 => n - 1 \in 0..m /\ n - 1 # m
        BY <2>1, <4>1
      <4>4. n # 0 => h[n - 1] = g[n - 1]
        BY <4>3
      <4> QED
        BY <4>2, <4>4
    <3> QED
      BY <3>1, <3>2
  <2>4. h = [n \in 0..m |-> h[n]]
    OBVIOUS
  <2> HIDE DEF h
  <2>5. Upto(h, m)
    BY <2>3, <2>4
  <2> QED
    BY <1>2, <2>5
<1> QED
  BY <1>3, <1>4

\* Once a hunk is not found, the rest is not applied.
LEMMA AbsentStays ==
    ASSUME NEW N \in Nat, NEW given, NEW order, NEW marked, NEW body, NEW newline,
           NEW g, Steps(g, N, given, order, marked, body, newline), g[N] # Absent
    PROVE  \A n \in 0..N : g[n] # Absent
<1> SUFFICES ASSUME NEW n \in 0..N, g[n] = Absent PROVE FALSE
  OBVIOUS
<1> DEFINE Bad == {k \in 0..N : n <= k /\ g[k] # Absent}
<1>1. PICK k \in Bad : \A m \in Bad : k <= m
  <2>1. Bad \subseteq Nat /\ N \in Bad
    OBVIOUS
  <2> HIDE DEF Bad
  <2> QED
    BY <2>1, HasLeast
<1>2. k \in 1..N /\ k - 1 \in 0..N /\ n <= k - 1 /\ ~(k <= k - 1) /\ g[k] # Absent
  BY <1>1
<1>3. k - 1 \notin Bad
  <2> HIDE DEF Bad
  <2> QED
    BY <1>1, <1>2
<1>4. g[k - 1] = Absent
  BY <1>2, <1>3
<1>5. g[k] = HunkAt(marked, body, order[k], g[k - 1], newline)
  <2>1. k \in 0..N /\ k # 0
    BY <1>2
  <2> QED
    BY <2>1 DEF Steps
<1>6. g[k] = Absent
  BY <1>4, <1>5 DEF HunkAt, Hunk
<1> QED
  BY <1>2, <1>6

LEMMA DominantIs == \A lines : FromOne(lines) => Dominant(lines) # "none"
<1> SUFFICES ASSUME NEW lines, FromOne(lines) PROVE Dominant(lines) # "none"
  OBVIOUS
<1> DEFINE ended == {i \in DOMAIN lines : lines[i].ending # "none"}
           first == CHOOSE i \in ended : \A j \in ended : i <= j
           other == IF ended = {} THEN "lf" ELSE lines[first].ending
<1>1. other # "none"
  <2>1. CASE ended = {}
    BY <2>1
  <2>2. CASE ended # {}
    <3>1. \E i \in ended : \A j \in ended : i <= j
      <4>1. ended \subseteq Nat
        BY DEF FromOne
      <4> HIDE DEF ended
      <4> QED
        BY <2>2, <4>1, HasLeast
    <3>2. first \in ended
      <4> HIDE DEF ended
      <4> QED
        BY <3>1
    <3> HIDE DEF first
    <3> QED
      BY <2>2, <3>2
  <2> QED
    BY <2>1, <2>2
<1>3. Dominant(lines) = CASE Count(lines, "lf") > Count(lines, "crlf") -> "lf"
                          [] Count(lines, "crlf") > Count(lines, "lf") -> "crlf"
                          [] OTHER -> other
  BY DEF Dominant
<1> HIDE DEF other
<1>2. PICK x : x = other
  OBVIOUS
<1>4. x # "none"
  BY ONLY <1>1, <1>2
<1>5. PICK d : d = Dominant(lines)
  OBVIOUS
<1>6. d = "lf" \/ d = "crlf" \/ d = x
  BY ONLY <1>2, <1>3, <1>5
<1> QED
  BY ONLY <1>4, <1>5, <1>6

\* A hunk that is applied was found at one place.
FoundOnce(e, lines, body, at, newline) ==
    \E p \in FoundAt(lines, body, at) :
       /\ e = Replaced(lines, body, at, p, newline)
       /\ \A q \in FoundAt(lines, body, at) : q = p

LEMMA HunkIs ==
    ASSUME NEW lines, FromOne(lines), NEW body, FromOne(body), NEW at, NEW newline,
           NEW e, e = Hunk(lines, body, at, newline), e # Absent
    PROVE  FoundOnce(e, lines, body, at, newline)
<1>1. PICK places : places = FoundAt(lines, body, at)
  OBVIOUS
<1>2. Cardinality(places) = 1
  BY <1>1 DEF Hunk, Located
<1>3. PICK chosen : chosen = CHOOSE p \in places : \A q \in places : p <= q
  OBVIOUS
<1>4. e = Replaced(lines, body, at, chosen, newline)
  <2>1. e = Hunk(lines, body, at, newline) /\ e # Absent
    OBVIOUS
  <2> QED
    BY ONLY <1>1, <1>3, <2>1, Zenon DEF Hunk
<1>5. PICK old : old = Side(body, at, "-")
  OBVIOUS
<1>6. Cardinality(old) \in Nat
  BY ONLY FromOne(body), <1>5, SidesAre, Zenon
<1>7. PICK z, n : z \in Int /\ n \in Int /\ z = 0 /\ n = Len(lines) - Cardinality(old)
  BY <1>6 DEF FromOne
<1>8. places \subseteq z..n
  BY <1>1, <1>5, <1>7 DEF FoundAt
<1>9. IsFiniteSet(z..n)
  BY ONLY <1>7, FS_Interval
<1>10. IsFiniteSet(places)
  BY <1>8, <1>9, FS_Subset
<1>11. PICK p : places = {p}
  BY <1>2, <1>10, FS_Singleton
<1>12. p \in Int
  BY <1>7, <1>8, <1>11
<1>13. chosen = p
  BY <1>3, <1>11, <1>12
<1> QED
  BY <1>1, <1>4, <1>11, <1>13 DEF FoundOnce

Forth(N) == [n \in 1..N |-> n]
Back(N) == [n \in 1..N |-> N + 1 - n]

\* What _apply_update computes are such steps, and so is what turns them round.
LEMMA UpdatedIs ==
    ASSUME NEW given, NEW body, FromOne(body)
    PROVE  \E g : Steps(g, Len(body), given, Forth(Len(body)), body, body, Dominant(given))
                  /\ g[Len(body)] = Updated(given, body)
<1>1. PICK N, D : N = Len(body) /\ N \in Nat /\ D = Dominant(given)
  BY Zenon DEF FromOne
<1>2. PICK order : order = Forth(N)
  OBVIOUS
<1>3. \A n \in 0..N : n # 0 => order[n] = n
  BY <1>1, <1>2 DEF Forth
<1>4. PICK g : Steps(g, N, given, order, body, body, D)
  BY <1>1, StepsExist
<1>5. g = [n \in 0..N |-> IF n = 0 THEN given
                          ELSE IF body[n].kind = "@@" THEN Hunk(g[n - 1], body, n, D) ELSE g[n - 1]]
  BY <1>3, <1>4 DEF Steps, HunkAt
<1> DEFINE fin == CHOOSE lines : lines = [n \in 0..N |-> IF n = 0 THEN given
                          ELSE IF body[n].kind = "@@" THEN Hunk(lines[n - 1], body, n, D) ELSE lines[n - 1]]
<1>6. fin = [n \in 0..N |-> IF n = 0 THEN given
                          ELSE IF body[n].kind = "@@" THEN Hunk(fin[n - 1], body, n, D) ELSE fin[n - 1]]
  BY ONLY <1>5, ZenonT(60) DEF fin
<1>7. fin[N] = Updated(given, body)
  BY ONLY <1>1, Zenon DEF Updated
<1> HIDE DEF fin
<1>8. Steps(fin, N, given, order, body, body, D)
  BY <1>3, <1>6 DEF Steps, HunkAt
<1> QED
  BY <1>1, <1>2, <1>7, <1>8

LEMMA RestoredIs ==
    ASSUME NEW given, NEW body, FromOne(body)
    PROVE  \E g : Steps(g, Len(body), given, Back(Len(body)), body, Turned(body), Dominant(given))
                  /\ g[Len(body)] = Restored(given, body)
<1>1. PICK N, D, B : N = Len(body) /\ N \in Nat /\ D = Dominant(given) /\ B = Turned(body)
  BY Zenon DEF FromOne
<1>2. PICK order : order = Back(N)
  OBVIOUS
<1>3. \A n \in 0..N : n # 0 => order[n] = N + 1 - n
  BY <1>1, <1>2 DEF Back
<1>4. PICK g : Steps(g, N, given, order, body, B, D)
  BY <1>1, StepsExist
<1>5. g = [n \in 0..N |-> IF n = 0 THEN given
                          ELSE IF body[N + 1 - n].kind = "@@" THEN Hunk(g[n - 1], B, N + 1 - n, D) ELSE g[n - 1]]
  BY <1>3, <1>4 DEF Steps, HunkAt
<1> DEFINE fin == CHOOSE lines : lines = [n \in 0..N |-> IF n = 0 THEN given
                          ELSE IF body[N + 1 - n].kind = "@@" THEN Hunk(lines[n - 1], B, N + 1 - n, D)
                          ELSE lines[n - 1]]
<1>6. fin = [n \in 0..N |-> IF n = 0 THEN given
                          ELSE IF body[N + 1 - n].kind = "@@" THEN Hunk(fin[n - 1], B, N + 1 - n, D)
                          ELSE fin[n - 1]]
  BY ONLY <1>5, ZenonT(60) DEF fin
<1>7. fin[N] = Restored(given, body)
  BY ONLY <1>1, ZenonT(40) DEF Restored
<1> HIDE DEF fin
<1>8. Steps(fin, N, given, order, body, B, D)
  BY <1>3, <1>6 DEF Steps, HunkAt
<1> QED
  BY <1>1, <1>2, <1>7, <1>8

\* All hunks: turned round and applied from the last to the first they give the text back.
LEMMA HunksRevert ==
    ASSUME NEW body, FromOne(body), NEW given, FromOne(given),
           NEW after, after = Updated(given, body), after # Absent,
           NEW undone, undone = Restored(after, body), undone # Absent
    PROVE  FromOne(undone) /\ SameLines(undone, given)
<1>1. PICK N \in Nat : N = Len(body)
  BY Zenon DEF FromOne
<1>2. PICK d : d = Dominant(given)
  OBVIOUS
<1>3. d # "none"
  BY <1>2, DominantIs
<1>4. PICK forth, back : forth = Forth(N) /\ back = Back(N)
  OBVIOUS
<1>5. \A n \in 1..N : forth[n] = n /\ back[n] = N + 1 - n
  BY <1>4 DEF Forth, Back
<1>6. PICK f : Steps(f, N, given, forth, body, body, d) /\ f[N] = after
  <2>1. \E g : Steps(g, Len(body), given, Forth(Len(body)), body, body, Dominant(given))
               /\ g[Len(body)] = Updated(given, body)
    BY UpdatedIs
  <2>2. after = Updated(given, body)
    OBVIOUS
  <2> QED
    BY ONLY <1>1, <1>2, <1>4, <2>1, <2>2, Zenon
<1>7. \A n \in 0..N : f[n] # Absent
  BY <1>6, AbsentStays
<1>8. f[0] = given
  BY <1>6 DEF Steps
<1>9. \A n \in 1..N : f[n] = IF body[n].kind = "@@" THEN Hunk(f[n - 1], body, n, d) ELSE f[n - 1]
  <2> SUFFICES ASSUME NEW n \in 1..N
               PROVE  f[n] = IF body[n].kind = "@@" THEN Hunk(f[n - 1], body, n, d) ELSE f[n - 1]
    OBVIOUS
  <2>1. n \in 0..N /\ n # 0 /\ forth[n] = n
    BY <1>5
  <2>2. f[n] = HunkAt(body, body, forth[n], f[n - 1], d)
    BY <1>6, <2>1 DEF Steps
  <2> QED
    BY <2>1, <2>2 DEF HunkAt
<1> DEFINE Placing(n, p) == /\ p \in FoundAt(f[n - 1], body, n)
                            /\ f[n] = Replaced(f[n - 1], body, n, p, d)
<1>10. ASSUME NEW n \in 1..N, FromOne(f[n - 1]), body[n].kind = "@@"
       PROVE  \E p : Placing(n, p)
  <2>1. PICK l, e : l = f[n - 1] /\ e = f[n]
    OBVIOUS
  <2>2. e = Hunk(l, body, n, d) /\ e # Absent /\ FromOne(l)
    BY <1>7, <1>9, <1>10, <2>1
  <2>4. FoundOnce(e, l, body, n, d)
    BY ONLY <2>2, FromOne(body), HunkIs, Zenon
  <2>3. PICK p \in FoundAt(l, body, n) : e = Replaced(l, body, n, p, d)
    BY ONLY <2>4 DEF FoundOnce
  <2> QED
    BY <2>1, <2>3
<1>11. \A n \in 0..N : FromOne(f[n])
  <2> DEFINE Bad == {n \in 0..N : ~FromOne(f[n])}
  <2>1. SUFFICES ASSUME Bad # {} PROVE FALSE
    OBVIOUS
  <2>2. PICK n \in Bad : \A k \in Bad : n <= k
    <3>1. Bad \subseteq Nat
      OBVIOUS
    <3> HIDE DEF Bad
    <3> QED
      BY <2>1, <3>1, HasLeast
  <2>3. n \in 1..N /\ n - 1 \in 0..N /\ ~(n <= n - 1) /\ ~FromOne(f[n])
    BY <1>8, <2>2
  <2>4. n - 1 \notin Bad
    <3> HIDE DEF Bad
    <3> QED
      BY <2>2, <2>3
  <2>5. FromOne(f[n - 1])
    BY <2>3, <2>4
  <2>6. CASE body[n].kind = "@@"
    <3>1. PICK p : Placing(n, p)
      BY <1>10, <2>3, <2>5, <2>6
    <3>2. PICK l, e : l = f[n - 1] /\ e = f[n]
      OBVIOUS
    <3>3. p \in FoundAt(l, body, n) /\ e = Replaced(l, body, n, p, d) /\ FromOne(l)
      BY <2>5, <3>1, <3>2
    <3>4. Put(e, l, body, n, p, d)
      BY ONLY <3>3, FromOne(body), ReplacedIs, Zenon
    <3>5. FromOne(e)
      BY ONLY <3>4 DEF Put
    <3> QED
      BY <2>3, <3>2, <3>5
  <2>7. CASE body[n].kind # "@@"
    BY <1>9, <2>3, <2>5, <2>7
  <2> QED
    BY <2>6, <2>7
<1>12. PICK B : B = Turned(body)
  OBVIOUS
<1>13. FromOne(B)
  <2>1. 0 \in Nat /\ FromOne(body)
    OBVIOUS
  <2>2. OtherWay(B, body, 0)
    BY ONLY <1>12, <2>1, TurnedIs, Zenon
  <2> QED
    BY ONLY <2>2 DEF OtherWay
<1>14. PICK c : c = Dominant(after)
  OBVIOUS
<1>15. FromOne(after) /\ c # "none"
  <2>1. FromOne(after)
    BY <1>6, <1>11
  <2> QED
    BY <1>14, <2>1, DominantIs
<1>16. PICK g : Steps(g, N, after, back, body, B, c) /\ g[N] = undone
  <2>1. \E g : Steps(g, Len(body), after, Back(Len(body)), body, Turned(body), Dominant(after))
               /\ g[Len(body)] = Restored(after, body)
    BY RestoredIs
  <2>2. undone = Restored(after, body)
    OBVIOUS
  <2> QED
    BY ONLY <1>1, <1>4, <1>12, <1>14, <2>1, <2>2, Zenon
<1>17. \A n \in 0..N : g[n] # Absent
  BY <1>16, AbsentStays
<1>18. g[0] = after
  BY <1>16 DEF Steps
<1>19. \A n \in 1..N : g[n] = IF body[N + 1 - n].kind = "@@" THEN Hunk(g[n - 1], B, N + 1 - n, c) ELSE g[n - 1]
  <2> SUFFICES ASSUME NEW n \in 1..N
               PROVE  g[n] = IF body[N + 1 - n].kind = "@@" THEN Hunk(g[n - 1], B, N + 1 - n, c) ELSE g[n - 1]
    OBVIOUS
  <2>1. n \in 0..N /\ n # 0 /\ back[n] = N + 1 - n
    BY <1>5
  <2>2. g[n] = HunkAt(body, B, back[n], g[n - 1], c)
    BY <1>16, <2>1 DEF Steps
  <2> QED
    BY <2>1, <2>2 DEF HunkAt
<1> HIDE DEF Placing
<1> DEFINE Agree(m) == FromOne(g[m]) /\ SameLines(g[m], f[N - m])
<1>20. Agree(0)
  <2>1. g[0] = after /\ f[N - 0] = after
    BY <1>6, <1>18
  <2>2. SameLines(after, after)
    BY DEF SameLines
  <2> QED
    BY <1>15, <2>1, <2>2
<1>21. ASSUME NEW m \in 1..N, Agree(m - 1) PROVE Agree(m)
  <2>1. PICK i \in 1..N : i = N + 1 - m
    OBVIOUS
  <2>2. N - m = i - 1 /\ N - (m - 1) = i /\ i - 1 \in 0..N /\ i \in Nat
    BY <2>1
  <2>3. PICK l, h, u, e : l = f[i - 1] /\ h = f[i] /\ u = g[m - 1] /\ e = g[m]
    OBVIOUS
  <2>4. FromOne(l) /\ FromOne(u) /\ SameLines(u, h)
    BY <1>11, <1>21, <2>2, <2>3
  <2>5. CASE body[i].kind = "@@"
    <3>1. PICK p : Placing(i, p)
      BY <1>10, <1>11, <2>2, <2>5
    <3>2. p \in FoundAt(l, body, i) /\ h = Replaced(l, body, i, p, d)
      BY <2>3, <3>1 DEF Placing
    <3>3. e = Hunk(u, B, i, c) /\ e # Absent
      BY <1>17, <1>19, <2>1, <2>3, <2>5
    <3>4. PICK q \in FoundAt(u, B, i) : e = Replaced(u, B, i, q, c) /\ \A r \in FoundAt(u, B, i) : r = q
      <4>1. FoundOnce(e, u, B, i, c)
        BY ONLY <1>13, <2>4, <3>3, HunkIs, Zenon
      <4> QED
        BY ONLY <4>1 DEF FoundOnce
    <3>5. /\ p \in FoundAt(u, B, i)
          /\ \A x : x = Replaced(u, B, i, p, c) => FromOne(x) /\ SameLines(x, l)
      <4>1. FromOne(body) /\ i \in Nat
        OBVIOUS
      <4>2. GivesBack(p, u, B, i, c, l)
        BY ONLY <1>3, <1>12, <1>15, <2>4, <3>2, <4>1, OneHunk, Zenon
      <4> QED
        BY ONLY <4>2, Zenon DEF GivesBack
    <3>6. FromOne(e) /\ SameLines(e, l)
      BY <3>4, <3>5
    <3> QED
      BY <2>2, <2>3, <3>6
  <2>6. CASE body[i].kind # "@@"
    <3>1. h = l /\ e = u
      BY <1>9, <1>19, <2>1, <2>3, <2>6
    <3> QED
      BY <2>2, <2>3, <2>4, <3>1
  <2> QED
    BY <2>5, <2>6
<1>22. Agree(N)
  <2> DEFINE Bad == {m \in 0..N : ~Agree(m)}
  <2> HIDE DEF Agree
  <2>1. SUFFICES ASSUME Bad # {} PROVE FALSE
    OBVIOUS
  <2>2. PICK n \in Bad : \A k \in Bad : n <= k
    <3>1. Bad \subseteq Nat
      OBVIOUS
    <3> HIDE DEF Bad
    <3> QED
      BY <2>1, <3>1, HasLeast
  <2>3. n \in 1..N /\ n - 1 \in 0..N /\ ~(n <= n - 1) /\ ~Agree(n)
    BY <1>20, <2>2
  <2>4. n - 1 \notin Bad
    <3> HIDE DEF Bad
    <3> QED
      BY <2>2, <2>3
  <2> QED
    BY <1>21, <2>3, <2>4
<1> QED
  <2>1. N - N = 0
    BY ONLY N \in Nat
  <2>2. FromOne(g[N]) /\ SameLines(g[N], f[0])
    BY ONLY <1>22, <2>1, Zenon
  <2> QED
    BY <1>8, <1>16, <2>2

\* The lines of a given as lines to add are the lines of the given.
LEMMA AddedAgain ==
    ASSUME NEW given, FromOne(given), given # Absent,
           \A i \in DOMAIN given : given[i].ending = "none" => i = Len(given),
           NEW body, body = AsAdded(given), NEW adding, adding = [operation |-> "added", body |-> body],
           NEW after
    PROVE  AddParsed(body) /\ SameText(Content(adding, after), given)
<1>1. PICK L \in Nat : L = Len(given) /\ DOMAIN given = 1..L
  BY Zenon DEF FromOne
<1>2. PICK N \in Nat : N = L + (IF L > 0 /\ given[L].ending = "none" THEN 1 ELSE 0)
  BY <1>1
<1>3. body = [n \in 1..N |-> IF n <= L THEN [kind |-> "+", text |-> given[n].text]
                             ELSE [kind |-> Marker, text |-> <<>>]]
  BY <1>1, <1>2 DEF AsAdded
<1>4. N = L \/ (N = L + 1 /\ L > 0)
  BY <1>2
<1>5. FromOne(body) /\ Len(body) = N /\ DOMAIN body = 1..N
  <2>1. body = [n \in 1..N |-> body[n]]
    BY <1>3
  <2>2. FromOne(body) /\ Len(body) = N
    BY ONLY <2>1, N \in Nat, FromOneIs
  <2> QED
    BY <1>3, <2>2
<1>6. \A n \in 1..N : /\ n <= L => body[n].kind = "+" /\ body[n].text = given[n].text
                      /\ ~(n <= L) => body[n].kind = Marker
  BY <1>3
<1>7. AddParsed(body)
  <2> SUFFICES ASSUME NEW i \in 1..N
               PROVE  body[i].kind = "+" \/ (body[i].kind = Marker /\ i = N /\ i > 1)
    BY <1>5 DEF AddParsed
  <2>1. i <= L \/ (i = N /\ i > 1)
    BY <1>4
  <2> QED
    BY <1>6, <2>1
<1>8. {i \in DOMAIN body : body[i].kind = "+"} = 1..L
  <2>1. \A i \in 1..N : body[i].kind = "+" <=> i <= L
    BY <1>6 DEF Marker
  <2>2. \A i : i \in 1..N /\ i <= L <=> i \in 1..L
    BY <1>4
  <2> QED
    BY <1>5, <2>1, <2>2
<1>9. Cardinality(1..L) = L
  <2>1. PICK a, b : a \in Int /\ b \in Int /\ a = 1 /\ b = L
    OBVIOUS
  <2>2. Cardinality(a..b) = IF a > b THEN 0 ELSE b - a + 1
    BY ONLY <2>1, FS_Interval
  <2> QED
    BY <2>1, <2>2
<1>10. PICK made : made = Content(adding, after)
  OBVIOUS
<1>11. made = [n \in 1..Cardinality({i \in DOMAIN body : body[i].kind = "+"}) |-> NewLine(body, n, "lf")]
  <2>1. adding.operation = "added" /\ adding.body = body
    OBVIOUS
  <2> QED
    BY ONLY <1>10, <2>1 DEF Content
<1>12. made = [n \in 1..L |-> NewLine(body, n, "lf")]
  BY ONLY <1>8, <1>9, <1>11
<1>13. FromOne(made) /\ Len(made) = L /\ DOMAIN made = 1..L
  <2>1. made = [n \in 1..L |-> made[n]]
    BY <1>12
  <2>2. FromOne(made) /\ Len(made) = L
    BY ONLY <2>1, L \in Nat, FromOneIs
  <2> QED
    BY <1>12, <2>2
<1>14. ASSUME NEW n \in 1..L
       PROVE  /\ made[n].text = given[n].text
              /\ made[n].ending = "none" <=> given[n].ending = "none"
              /\ made[n].ending \in {"none", "lf"}
  <2>1. made[n] = NewLine(body, n, "lf")
    BY <1>12
  <2>2. made[n].text = body[n].text /\ made[n].ending = IF Bare(body, n) THEN "none" ELSE "lf"
    BY <2>1 DEF NewLine
  <2>3. n \in 1..N
    BY <1>4
  <2>4. Bare(body, n) <=> given[n].ending = "none"
    <3>1. CASE n < L
      <4>1. n + 1 \in 1..N /\ n + 1 <= L
        BY <1>4, <3>1
      <4>2. body[n + 1].kind # Marker
        BY <1>6, <4>1 DEF Marker
      <4>3. given[n].ending # "none"
        BY <1>1, <3>1
      <4> QED
        BY <4>2, <4>3 DEF Bare
    <3>2. CASE n = L
      <4>1. CASE given[L].ending = "none"
        <5>1. N = L + 1 /\ L + 1 \in 1..N /\ ~(L + 1 <= L)
          BY <1>2, <3>2, <4>1
        <5>2. body[L + 1].kind = Marker
          BY <1>6, <5>1
        <5> QED
          BY <1>5, <3>2, <4>1, <5>1, <5>2 DEF Bare
      <4>2. CASE given[L].ending # "none"
        <5>1. N = L
          BY <1>2, <4>2
        <5> QED
          BY <1>5, <3>2, <4>2, <5>1 DEF Bare
      <4> QED
        BY <4>1, <4>2
    <3> QED
      BY <3>1, <3>2
  <2> QED
    BY <1>6, <2>2, <2>3, <2>4
<1>15. made # Absent
  <2> SUFFICES ASSUME made = Absent PROVE FALSE
    OBVIOUS
  <2>1. Len(made) = 1 /\ made[1].ending = "absent"
    BY DEF Absent
  <2>2. 1 \in 1..L
    BY <1>13, <2>1
  <2> QED
    BY <1>14, <2>1, <2>2
<1>16. SameText(made, given)
  BY <1>1, <1>13, <1>14, <1>15 DEF SameText
<1> QED
  BY ONLY <1>7, <1>10, <1>16, Zenon

\* TextReverts, of one section.
Reverts(section, before, after) ==
    CASE section.operation = "added" -> before = Absent
      [] section.operation = "deleted" ->
           LET adding == [operation |-> "added", body |-> AsAdded(before)] IN
           AddParsed(adding.body) /\ SameText(Content(adding, after), before)
      [] OTHER ->
           LET undone == Restored(after, section.body) IN
           LinesKeptApart(Updated(before, section.body)) /\ undone # Absent
              => SameText(undone, before)

LEMMA SectionReverts ==
    ASSUME NEW section, NEW before, FromOne(before), FromOne(section.body), Fitting(section, before),
           before # Absent => \A i \in DOMAIN before : before[i].ending = "none" => i = Len(before),
           NEW after, after = Content(section, before)
    PROVE  Reverts(section, before, after)
<1>1. CASE section.operation = "added"
  <2>1. before = Absent
    BY <1>1 DEF Fitting
  <2> QED
    BY ONLY <1>1, <2>1, Zenon DEF Reverts
<1>2. CASE section.operation = "deleted"
  <2>1. before # Absent
    BY <1>2 DEF Fitting
  <2>2. PICK body, adding : body = AsAdded(before) /\ adding = [operation |-> "added", body |-> body]
    OBVIOUS
  <2>3. AddParsed(body) /\ SameText(Content(adding, after), before)
    BY <2>1, <2>2, AddedAgain
  <2>4. adding.body = body
    BY <2>2
  <2>5. section.operation # "added"
    BY <1>2
  <2> QED
    BY ONLY <1>2, <2>2, <2>3, <2>4, <2>5, Zenon DEF Reverts
<1>3. CASE section.operation # "added" /\ section.operation # "deleted"
  <2>1. PICK lines, body : lines = Updated(before, section.body) /\ body = section.body
    OBVIOUS
  <2>2. before # Absent /\ lines # Absent /\ after = Reread(lines)
    BY <1>3, <2>1 DEF Fitting, Content
  <2>3. PICK undone : undone = Restored(after, body)
    OBVIOUS
  <2>4. ASSUME LinesKeptApart(lines), undone # Absent PROVE SameText(undone, before)
    <3>1. after = lines
      BY <2>2, <2>4 DEF LinesKeptApart
    <3>2. FromOne(body) /\ FromOne(before)
      BY <2>1
    <3>3. after = Updated(before, body) /\ after # Absent
      BY <2>1, <2>2, <3>1
    <3>4. FromOne(undone) /\ SameLines(undone, before)
      BY ONLY <2>3, <2>4, <3>2, <3>3, HunksRevert
    <3> QED
      BY ONLY <2>2, <2>4, <3>4 DEF SameText, SameLines, FromOne
  <2> QED
    BY ONLY <1>3, <2>1, <2>3, <2>4, Zenon DEF Reverts
<1> QED
  BY <1>1, <1>2, <1>3

LEMMA PatchReverts ==
    ASSUME NEW sections \in Patches, NEW files \in Workspaces, Applicable(sections, files),
           NEW i \in DOMAIN sections
    PROVE  Reverts(sections[i], files[sections[i].path], Applied(sections, files)[sections[i].path])
<1>1. PICK section, path : section = sections[i] /\ path = section.path
  OBVIOUS
<1>2. path \in DOMAIN files /\ FromOne(section.body)
  BY <1>1, PatchTextAssumption DEF FromOne
<1>3. PICK before : before = files[path]
  OBVIOUS
<1>4. FromOne(before) /\ (before # Absent => \A n \in DOMAIN before : before[n].ending = "none" => n = Len(before))
  BY <1>2, <1>3, PatchTextAssumption DEF FromOne
<1>5. Fitting(section, before)
  BY <1>1, <1>3 DEF Applicable
<1>6. PICK after : after = Applied(sections, files)[path]
  OBVIOUS
<1>7. after = Content(section, before)
  <2>1. \A j \in DOMAIN sections : sections[j].path = path => j = i
    BY <1>1 DEF Applicable, Parsed
  <2>2. PICK j : j = CHOOSE k \in DOMAIN sections : sections[k].path = path
    OBVIOUS
  <2>3. j = i
    BY <1>1, <2>1, <2>2
  <2>4. after = Content(sections[j], files[path])
    BY <1>1, <1>2, <1>6, <2>2 DEF Applied
  <2> QED
    BY <1>1, <1>3, <2>3, <2>4
<1>8. Reverts(section, before, after)
  BY ONLY <1>2, <1>4, <1>5, <1>7, SectionReverts
<1> QED
  BY <1>1, <1>3, <1>6, <1>8

\* A hunk goes where it is found, once, and nowhere else, and what it does not name it
\* leaves alone: turned round and applied from the last to the first, wherever they are
\* applicable, the hunks of a patch give back every line of the text there was, and what
\* is deleted comes back if its lines are added (apply_patch.py:405-443).
THEOREM TextComesBack == PatchTextSpec => []TextReverts
<1>1. PatchTextInit => TextReverts
  BY DEF PatchTextInit, TextReverts
<1>2. TextReverts /\ [PatchTextNext]_patched => TextReverts'
  <2>1. CASE UNCHANGED patched
    BY <2>1 DEF TextReverts
  <2>2. CASE PatchTextNext
    <3>1. PICK sections \in Patches, files \in Workspaces :
            /\ Applicable(sections, files)
            /\ patched' = [patch |-> sections, before |-> files, after |-> Applied(sections, files)]
      BY <2>2 DEF PatchTextNext, ApplyText
    <3>2. PICK after : after = Applied(sections, files)
      OBVIOUS
    <3>3. patched'.patch = sections /\ patched'.before = files /\ patched'.after = after
      BY <3>1, <3>2
    <3>4. \A i \in DOMAIN sections : Reverts(sections[i], files[sections[i].path], after[sections[i].path])
      BY <3>1, <3>2, PatchReverts
    <3> QED
      BY ONLY <3>3, <3>4, Zenon DEF TextReverts, Reverts
  <2> QED
    BY <2>1, <2>2
<1> QED
  BY <1>1, <1>2, PTL DEF PatchTextSpec

-----------------------------------------------------------------------------
\* The composition: the texts take their own steps, or none.

LEMMA TextsAlone ==
    ASSUME [Next]_vars
    PROVE  [PatchTextNext]_patched /\ [FileNext]_fileVars
<1>1. CASE UNCHANGED vars
  BY <1>1 DEF vars
<1>2. CASE Next
  <2>1. Alone
    BY <1>2 DEF Next
  <2> DEFINE p == part
  <2>2. /\ p # "text" => UNCHANGED patched
        /\ p \notin {"listing", "writing"} => UNCHANGED fileVars
    BY <2>1 DEF Alone
  <2>3. /\ p = "text" => PatchTextNext
        /\ p = "listing" => ListingNext
        /\ p = "writing" => WritingNext
    BY <1>2 DEF Next
  <2>4. p \in {"listing", "writing"} => FileNext
    BY <2>3 DEF FileNext
  <2> HIDE DEF p
  <2> QED
    BY <2>2, <2>3, <2>4
<1> QED
  BY <1>1, <1>2

\* apply_patch.py and filesystem.py, whatever else the Run uses: a patch turned round gives
\* the text back, a listing says what it leaves out, and a file is written whole.
THEOREM TextsAreKept == Spec => []TextsKept
<1>1. Init => PatchTextInit /\ FileInit
  BY DEF Init
<1>2. Spec => PatchTextSpec /\ FileSpec
  BY <1>1, TextsAlone, PTL DEF Spec, PatchTextSpec, FileSpec
<1>3. TextReverts /\ FileToolsSound => TextsKept
  BY DEF TextsKept
<1> QED
  BY <1>2, <1>3, TextComesBack, FilesAreWhole, PTL
=============================================================================
