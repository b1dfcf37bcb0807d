-------------------------------- MODULE Speech --------------------------------
(***************************************************************************)
(* The output half of a SpeechSession (interaction/speech/session.py):     *)
(* transcript consumers start responses, a response's agent task turns the *)
(* text of its Run into fragments, one TTS worker synthesizes the          *)
(* fragments in turn, and interrupt() takes everything of it back.         *)
(*                                                                         *)
(* All tasks share one event loop: what lies between two awaits is one     *)
(* atomic step, and a task that is cancelled does nothing but unwind.      *)
(* Every step of interrupt() between two awaits is an action of its own,   *)
(* so that several interrupts, of consumers, the host and close(), overlap.*)
(* Fragments are named by the responses whose text they hold.              *)
(***************************************************************************)
EXTENDS Integers, Sequences

CONSTANTS
    Callers,      \* tasks that call in: transcript consumers, the host, run()
    QueueSize,    \* queue_size
    MaxCalls,     \* bound: calls made, over all callers
    MaxGen        \* bound: _response_generation; no call raises it more than three times

ASSUME SpeechAssumption == QueueSize \in Nat \ {0} /\ MaxCalls \in Nat /\ MaxGen \in Nat

None == 0
Gens == 1..MaxGen

VARIABLES
    closed,       \* _closed
    generation,   \* _response_generation
    agentTask,    \* _agent_task, as the generation it was created for
    agentRun,     \* _agent_run, likewise
    agent,        \* per response: where its _consume_agent task is
    run,          \* per response: the Run it started on the shared Session
    buffer,       \* text the segmenter holds
    held,         \* per response: the fragment its blocked queue.put holds
    queue,        \* _tts_queue
    worker,       \* the TTS worker
    synth,        \* the synthesis task the worker awaits
    activeTts,    \* _active_tts_task refers to it
    output,       \* audio handed to the transport since it was last cleared
    caller,       \* per caller: the call it is in
    calls,        \* history: number of calls made
    silenced,     \* history: responses up to this one were interrupted
    crossed       \* history: a response began while an interrupt was under way

responding == <<agentTask, agentRun, agent, run, buffer, held>>
speaking == <<queue, worker, synth, activeTts, output>>
calling == <<caller, calls, silenced, crossed, closed, generation>>
vars == <<responding, speaking, calling>>

Synthesis(gen, text, pc) == [gen |-> gen, text |-> text, pc |-> pc]
NoSynth == Synthesis(None, {}, "none")

\* A call of operation op at pc: the agent task its interrupt() awaits, and the
\* response that interrupt() ends.
InCall(op, pc, awaits, upto) == [op |-> op, pc |-> pc, awaits |-> awaits, upto |-> upto]
NoCall == InCall("none", "idle", None, None)
Heard == InCall("final", "heard", None, None)

Over == {"none", "done"}
AgentLive(g) == g # None /\ agent[g] \notin Over
SynthLive == activeTts /\ synth.pc \in {"streaming", "sending"}

\* A Run of an earlier response is active on the shared Session.  So may be a Run of
\* the text chat: it only delays AgentStarts, which nothing forces to happen.
SessionBusy == \E g \in Gens : run[g] \in {"active", "cancelled"}

OutputActive ==
    agentRun # None \/ AgentLive(agentTask) \/ SynthLive \/ queue # <<>>

Init ==
    /\ closed = FALSE /\ generation = 0
    /\ agentTask = None /\ agentRun = None
    /\ agent = [g \in Gens |-> "none"]
    /\ run = [g \in Gens |-> "none"]
    /\ buffer = {} /\ held = [g \in Gens |-> {}]
    /\ queue = <<>> /\ worker = "getting"
    /\ synth = NoSynth /\ activeTts = FALSE /\ output = {}
    /\ caller = [c \in Callers |-> NoCall]
    /\ calls = 0 /\ silenced = None /\ crossed = FALSE

-----------------------------------------------------------------------------
\* The agent task of response g: _consume_agent.

\* Wait for the Session, unless the response was superseded meanwhile.
AgentStarts(g) ==
    /\ agent[g] = "polling"
    /\ \/ /\ g # generation
          /\ agent' = [agent EXCEPT ![g] = "done"]
          /\ UNCHANGED <<run, agentRun>>
       \/ /\ g = generation /\ ~SessionBusy
          /\ agent' = [agent EXCEPT ![g] = "reading"]
          /\ run' = [run EXCEPT ![g] = "active"]
          /\ agentRun' = g
    /\ UNCHANGED <<agentTask, buffer, held, speaking, calling>>

Stopped(r) == IF r = "active" THEN "cancelled" ELSE r

\* finally: _agent_run is forgotten, if it is still this one's.
Forget(g) == agentRun' = IF agentRun = g THEN None ELSE agentRun

\* An event of the Run arrives: text, or notice that the response is superseded.
AgentEvent(g) ==
    /\ agent[g] = "reading" /\ run[g] # "none"
    /\ \/ /\ g # generation
          /\ run' = [run EXCEPT ![g] = Stopped(@)]
          /\ agent' = [agent EXCEPT ![g] = "done"]
          /\ Forget(g)
       \/ /\ g = generation
          /\ agent' = [agent EXCEPT ![g] = "texting"]
          /\ UNCHANGED <<run, agentRun>>
    /\ UNCHANGED <<agentTask, buffer, held, speaking, calling>>

\* queue.put by the task of response g: at once, or blocked while the queue is full.
Put(g, text, then) ==
    \/ /\ Len(queue) < QueueSize
       /\ queue' = Append(queue, [gen |-> g, text |-> text])
       /\ agent' = [agent EXCEPT ![g] = then]
       /\ UNCHANGED held
    \/ /\ Len(queue) = QueueSize
       /\ held' = [held EXCEPT ![g] = text]
       /\ agent' = [agent EXCEPT ![g] = IF then = "reading" THEN "putting" ELSE "flushing"]
       /\ UNCHANGED queue

\* The text event was emitted; the segmenter takes the delta and may complete a
\* fragment, which holds whatever was in the segmenter before.
AgentText(g) ==
    /\ agent[g] = "texting"
    /\ \/ /\ buffer' = buffer \cup {g}
          /\ agent' = [agent EXCEPT ![g] = "reading"]
          /\ UNCHANGED <<held, queue>>
       \/ /\ buffer' = {}
          /\ Put(g, buffer \cup {g}, "reading")
    /\ UNCHANGED <<agentTask, agentRun, run, worker, synth, activeTts, output, calling>>

\* The queue has room again for the fragment of a delta, or for the tail.
AgentPut(g) ==
    /\ agent[g] \in {"putting", "flushing"} /\ Len(queue) < QueueSize
    /\ queue' = Append(queue, [gen |-> g, text |-> held[g]])
    /\ held' = [held EXCEPT ![g] = {}]
    /\ agent' = [agent EXCEPT ![g] = IF @ = "putting" THEN "reading" ELSE "ending"]
    /\ UNCHANGED <<agentTask, agentRun, run, buffer, worker, synth, activeTts, output,
                   calling>>

\* The events have ended: flush the segmenter, then take the result.
AgentFlush(g) ==
    /\ agent[g] = "reading" /\ run[g] = "done"
    /\ \/ /\ buffer # {}
          /\ buffer' = {}
          /\ Put(g, buffer, "ending")
       \/ /\ buffer = {}
          /\ agent' = [agent EXCEPT ![g] = "ending"]
          /\ UNCHANGED <<buffer, held, queue>>
    /\ UNCHANGED <<agentTask, agentRun, run, worker, synth, activeTts, output, calling>>

\* The result was taken and ResponseCompleted emitted.
AgentEnds(g) ==
    /\ agent[g] = "ending"
    /\ agent' = [agent EXCEPT ![g] = "done"]
    /\ Forget(g)
    /\ UNCHANGED <<agentTask, run, buffer, held, speaking, calling>>

\* A cancelled task stops its Run and waits for the outcome; cancelled again
\* while it waits, it leaves the Run to itself.
AgentUnwinds(g) ==
    /\ \/ /\ agent[g] = "cancelled" /\ run[g] # "none"
          /\ run' = [run EXCEPT ![g] = Stopped(@)]
          /\ agent' = [agent EXCEPT ![g] = "settling"]
          /\ UNCHANGED agentRun
       \/ /\ \/ agent[g] = "cancelled" /\ run[g] = "none"
             \/ agent[g] = "settling" /\ run[g] = "done"
             \/ agent[g] = "leaving"
          /\ agent' = [agent EXCEPT ![g] = "done"]
          /\ Forget(g)
          /\ UNCHANGED run
    /\ UNCHANGED <<agentTask, buffer, held, speaking, calling>>

\* A Run completes, fails or ends cancelled; the Session is free again.
RunEnds(g) ==
    /\ run[g] \in {"active", "cancelled"}
    /\ run' = [run EXCEPT ![g] = "done"]
    /\ UNCHANGED <<agentTask, agentRun, agent, buffer, held, speaking, calling>>

-----------------------------------------------------------------------------
\* The TTS worker and the synthesis of one fragment.

WorkerGets ==
    /\ worker = "getting" /\ queue # <<>>
    /\ queue' = Tail(queue)
    /\ \/ /\ Head(queue).gen # generation
          /\ UNCHANGED <<worker, synth, activeTts>>
       \/ /\ Head(queue).gen = generation
          /\ synth' = Synthesis(generation, Head(queue).text, "streaming")
          /\ worker' = "awaiting" /\ activeTts' = TRUE
    /\ UNCHANGED <<responding, output, calling>>

\* The provider yields audio, ends or fails; a superseded synthesis returns.
SynthAudio ==
    /\ synth.pc = "streaming"
    /\ \E pc \in (IF synth.gen = generation THEN {"sending", "ended", "failed"}
                                            ELSE {"ended", "failed"}) :
          synth' = Synthesis(synth.gen, synth.text, pc)
    /\ UNCHANGED <<responding, queue, worker, activeTts, output, calling>>

\* The audio was rendered: send_audio, if the response is still the current one.
SynthSends ==
    /\ synth.pc = "sending"
    /\ \/ /\ synth.gen = generation
          /\ output' = output \cup synth.text
          /\ synth' = Synthesis(synth.gen, synth.text, "streaming")
       \/ /\ synth.gen # generation
          /\ synth' = Synthesis(synth.gen, synth.text, "ended")
          /\ UNCHANGED output
    /\ UNCHANGED <<responding, queue, worker, activeTts, calling>>

\* The worker resumes: a failure concerns the fragment only, but the cancellation
\* of the fragment is raised in the worker as well.
WorkerResumes ==
    /\ worker = "awaiting"
    /\ \/ synth.pc \in {"ended", "failed"} /\ worker' = "getting"
       \/ synth.pc = "cancelled" /\ worker' = "dead"
    /\ synth' = NoSynth /\ activeTts' = FALSE
    /\ UNCHANGED <<responding, queue, output, calling>>

-----------------------------------------------------------------------------
\* interrupt(), from one await to the next.

\* Where task.cancel() leaves an agent task that is alive, at pc.
Signalled(pc) == IF pc \in {"settling", "leaving"} THEN "leaving" ELSE "cancelled"

\* What a call does when its interrupt() raises: close() suppresses it.
Aborted(op) == IF op = "close" THEN InCall("close", "cleanup", None, None) ELSE NoCall

\* Variant: the synthesis is awaited without being cancelled.
LetFinish(s) == s

\* _active_tts_task.cancel()
Hushed(s) == Synthesis(s.gen, s.text, "cancelled")

\* The agent task is over: forget it, and cancel the synthesis.  A synthesis that
\* has just failed raises its exception here.
Silence(c, op, upto) ==
    /\ agentTask' = None /\ agentRun' = None
    /\ \/ /\ SynthLive
          /\ synth' = Hushed(synth)
          /\ caller' = [caller EXCEPT ![c] = InCall(op, "tts", None, upto)]
          /\ UNCHANGED activeTts
       \/ /\ activeTts /\ synth.pc = "failed"
          /\ caller' = [caller EXCEPT ![c] = Aborted(op)]
          /\ UNCHANGED <<synth, activeTts>>
       \/ /\ ~SynthLive /\ ~(activeTts /\ synth.pc = "failed")
          /\ activeTts' = FALSE
          /\ caller' = [caller EXCEPT ![c] = InCall(op, "provider", None, upto)]
          /\ UNCHANGED synth
    /\ UNCHANGED <<buffer, held, queue, worker, output>>

\* The generation is raised, the Run is told to stop and the task is cancelled.
Interrupt(c, op) ==
    /\ generation < MaxGen /\ generation' = generation + 1
    /\ UNCHANGED crossed
    /\ run' = IF agentRun = None THEN run ELSE [run EXCEPT ![agentRun] = Stopped(@)]
    /\ \/ /\ AgentLive(agentTask)
          /\ agent' = [agent EXCEPT ![agentTask] = Signalled(@)]
          /\ caller' = [caller EXCEPT ![c] = InCall(op, "agent", agentTask, generation)]
          /\ UNCHANGED <<agentTask, agentRun, buffer, held, speaking>>
       \/ /\ ~AgentLive(agentTask)
          /\ Silence(c, op, generation)
          /\ UNCHANGED agent

AgentAwaited(c) ==
    /\ caller[c].pc = "agent" /\ ~AgentLive(caller[c].awaits)
    /\ Silence(c, caller[c].op, caller[c].upto)
    /\ UNCHANGED <<agent, run, calls, silenced, crossed, closed, generation>>

TtsAwaited(c) ==
    /\ caller[c].pc = "tts" /\ synth.pc \in {"none", "cancelled"}
    /\ activeTts' = FALSE
    /\ caller' = [caller EXCEPT ![c] =
                            InCall(caller[c].op, "provider", None, caller[c].upto)]
    /\ UNCHANGED <<responding, queue, worker, synth, output, calls, silenced, crossed,
                   closed, generation>>

\* Variant: the segmenter keeps its text.
ClearQueueOnly(c) ==
    /\ caller[c].pc = "provider"
    /\ queue' = <<>> /\ output' = {}
    /\ silenced' = IF silenced < caller[c].upto THEN caller[c].upto ELSE silenced
    /\ caller' = [caller EXCEPT ![c] = InCall(caller[c].op, "clearing", None, None)]
    /\ UNCHANGED <<agentTask, agentRun, agent, run, buffer, held, worker, synth,
                   activeTts, calls, crossed, closed, generation>>

\* The provider's cancel has returned: drop all text, and clear the transport.
Clear(c) ==
    /\ caller[c].pc = "provider"
    /\ buffer' = {} /\ queue' = <<>> /\ output' = {}
    /\ silenced' = IF silenced < caller[c].upto THEN caller[c].upto ELSE silenced
    /\ caller' = [caller EXCEPT ![c] = InCall(caller[c].op, "clearing", None, None)]
    /\ UNCHANGED <<agentTask, agentRun, agent, run, held, worker, synth, activeTts,
                   calls, crossed, closed, generation>>

-----------------------------------------------------------------------------
\* The calls.

Interrupting(c) == caller[c].pc \in {"agent", "tts", "provider", "clearing"}

\* _start_agent: a new response, whose task starts later.
Respond(c) ==
    /\ generation < MaxGen /\ generation' = generation + 1
    /\ agentTask' = generation'
    /\ agent' = [agent EXCEPT ![generation'] = "polling"]
    /\ caller' = [caller EXCEPT ![c] = NoCall]
    /\ crossed' = (crossed \/ \E d \in Callers \ {c} : Interrupting(d))
    /\ UNCHANGED <<agentRun, run, buffer, held, speaking>>

Calls(c) == caller[c].pc = "idle" /\ calls < MaxCalls /\ calls' = calls + 1

\* A transcript interrupts what is audible, if it is a confirmed candidate, and
\* starts a response, if it is final.
Transcript(c) ==
    /\ Calls(c) /\ ~closed
    /\ \/ OutputActive /\ Interrupt(c, "barge")
       \/ /\ caller' = [caller EXCEPT ![c] = Heard]
          /\ UNCHANGED <<responding, speaking, crossed, generation>>
    /\ UNCHANGED <<silenced, closed>>

\* Variant: the response under way is not interrupted.
StartAgentAnyway(c) ==
    /\ caller[c].pc = "heard"
    /\ Respond(c)
    /\ UNCHANGED <<calls, silenced, closed>>

\* The final transcript was emitted: a response under way is interrupted first.
StartAgent(c) ==
    /\ caller[c].pc = "heard"
    /\ \/ AgentLive(agentTask) /\ Interrupt(c, "final")
       \/ ~AgentLive(agentTask) /\ Respond(c)
    /\ UNCHANGED <<calls, silenced, closed>>

HostInterrupts(c) ==
    /\ Calls(c)
    /\ Interrupt(c, "host")
    /\ UNCHANGED <<silenced, closed>>

Close(c) ==
    /\ Calls(c) /\ ~closed
    /\ closed' = TRUE
    /\ Interrupt(c, "close")
    /\ UNCHANGED silenced

\* interrupt() returns into the call it was made for.
InterruptReturns(c) ==
    /\ caller[c].pc = "clearing"
    /\ \/ caller[c].op = "final" /\ Respond(c)
       \/ /\ \/ /\ caller[c].op = "close"
                /\ caller' = [caller EXCEPT ![c] = InCall("close", "cleanup", None, None)]
             \/ /\ caller[c].op = "barge"
                /\ caller' = [caller EXCEPT ![c] = InCall("barge", "barged", None, None)]
             \/ /\ caller[c].op = "host"
                /\ caller' = [caller EXCEPT ![c] = NoCall]
          /\ UNCHANGED <<responding, speaking, crossed, generation>>
    /\ UNCHANGED <<calls, silenced, closed>>

\* The transcript that interrupted was partial, or final and is emitted.
Barged(c) ==
    /\ caller[c].pc = "barged"
    /\ \E call \in {NoCall, Heard} :
          caller' = [caller EXCEPT ![c] = call]
    /\ UNCHANGED <<responding, speaking, calls, silenced, crossed, closed, generation>>

\* close() ends the worker, and with it a synthesis it awaits.
CleanUp(c) ==
    /\ caller[c].pc = "cleanup"
    /\ worker' = "dead" /\ synth' = NoSynth /\ activeTts' = FALSE
    /\ caller' = [caller EXCEPT ![c] = NoCall]
    /\ UNCHANGED <<responding, queue, output, calls, silenced, crossed, closed, generation>>

AgentStep(g) ==
    \/ AgentStarts(g) \/ AgentEvent(g) \/ AgentText(g) \/ AgentPut(g)
    \/ AgentFlush(g) \/ AgentEnds(g) \/ AgentUnwinds(g)

CallStep(c) ==
    \/ AgentAwaited(c) \/ TtsAwaited(c) \/ Clear(c) \/ StartAgent(c)
    \/ InterruptReturns(c) \/ Barged(c) \/ CleanUp(c)

Next ==
    \/ \E g \in Gens : AgentStep(g) \/ RunEnds(g)
    \/ WorkerGets \/ SynthAudio \/ SynthSends \/ WorkerResumes
    \/ \E c \in Callers : CallStep(c) \/ Transcript(c) \/ HostInterrupts(c) \/ Close(c)

Spec == Init /\ [][Next]_vars

\* The loop resumes what can go on; a Run ends, and no other process is asked to.
LiveSpec ==
    /\ Spec
    /\ WF_vars(\E g \in Gens : AgentUnwinds(g)) /\ WF_vars(\E g \in Gens : RunEnds(g))
    /\ \A c \in Callers : WF_vars(CallStep(c))

-----------------------------------------------------------------------------
\* Properties.

Calling == [op: {"none", "barge", "final", "host", "close"},
            pc: {"idle", "agent", "tts", "provider", "clearing", "barged", "heard",
                 "cleanup"},
            awaits: Gens \cup {None}, upto: Gens \cup {None}]

\* Type correctness; the queue of fragments keeps its bound.
TypeOK ==
    /\ closed \in BOOLEAN /\ activeTts \in BOOLEAN /\ crossed \in BOOLEAN
    /\ generation \in Gens \cup {None} /\ silenced \in Gens \cup {None}
    /\ agentTask \in Gens \cup {None} /\ agentRun \in Gens \cup {None}
    /\ agent \in [Gens -> {"none", "polling", "reading", "texting", "putting", "flushing",
                           "ending", "cancelled", "settling", "leaving", "done"}]
    /\ run \in [Gens -> {"none", "active", "cancelled", "done"}]
    /\ buffer \subseteq Gens /\ held \in [Gens -> SUBSET Gens]
    /\ queue \in Seq([gen: Gens, text: SUBSET Gens]) /\ Len(queue) <= QueueSize
    /\ worker \in {"getting", "awaiting", "dead"}
    /\ synth \in [gen: Gens \cup {None}, text: SUBSET Gens,
                  pc: {"none", "streaming", "sending", "ended", "failed", "cancelled"}]
    /\ output \subseteq Gens
    /\ caller \in [Callers -> Calling]
    /\ calls \in 0..MaxCalls

\* Once interrupt() has cleared the output, no text of an interrupted response is
\* handed to the transport any more: not from the segmenter, the queue, a producer
\* blocked on the queue or a synthesis under way.  (Unless a response was started
\* while an interrupt was under way: it takes up what is still in the segmenter.)
NoStaleAudio == ~crossed => \A g \in output : g > silenced

\* The only agent task alive is the one _agent_task refers to, which interrupt() and
\* close() can stop: no response goes on, or starts a Run, out of reach.
TasksTracked == ~crossed => \A g \in Gens : AgentLive(g) => g = agentTask

\* Every interrupt(), and every call that makes one, returns, whoever else interrupts
\* or has filled the queue meanwhile.
InterruptsReturn == \A c \in Callers : caller[c].pc # "idle" ~> caller[c].pc = "idle"

\* Until close() the worker lives to speak the next fragment.
WorkerServes == ~closed => worker # "dead"
=============================================================================
