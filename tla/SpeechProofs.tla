----------------------------- MODULE SpeechProofs -----------------------------
(***************************************************************************)
(* Theorems about Speech, for any callers, queue bound and bounds on calls *)
(* and generations: its state is well typed, and as long as no response    *)
(* starts while an interrupt is under way, no audio of an interrupted      *)
(* response is rendered and no agent task is out of reach.                 *)
(***************************************************************************)
EXTENDS SpeechInvariant, TLAPS

-----------------------------------------------------------------------------
\* Type correctness.

Agents == {"none", "polling", "reading", "texting", "putting", "flushing",
           "ending", "cancelled", "settling", "leaving", "done"}
Runs == {"none", "active", "cancelled", "done"}
Ops == {"none", "barge", "final", "host", "close"}
Places == {"idle", "agent", "tts", "provider", "clearing", "barged", "heard", "cleanup"}
Fragments == [gen: Gens, text: SUBSET Gens]
Syntheses == [gen: Gens \cup {None}, text: SUBSET Gens,
              pc: {"none", "streaming", "sending", "ended", "failed", "cancelled"}]

LEMMA GensFacts == None \notin Gens /\ Gens \subseteq Nat /\ None = 0
  BY SpeechAssumption DEF Gens, None

LEMMA GensNat == \A g \in Gens \cup {None} : g \in Nat
  BY SpeechAssumption DEF Gens, None

LEMMA AppendFacts ==
    ASSUME NEW S, NEW q \in Seq(S), NEW e \in S
    PROVE  Append(q, e) \in Seq(S) /\ Len(Append(q, e)) = Len(q) + 1
  OBVIOUS

LEMMA TailFacts ==
    ASSUME NEW S, NEW q \in Seq(S), q # <<>>
    PROVE  Tail(q) \in Seq(S) /\ Len(Tail(q)) = Len(q) - 1 /\ Head(q) \in S
  OBVIOUS

LEMMA InitTypeOK == Init => TypeOK
<1> SUFFICES ASSUME Init PROVE TypeOK
  OBVIOUS
<1>1. Len(queue) <= QueueSize /\ queue \in Seq(Fragments)
  BY SpeechAssumption DEF Init
<1>2. NoSynth \in Syntheses
  BY DEF NoSynth, Synthesis, Syntheses
<1>3. NoCall \in Calling
  BY DEF NoCall, InCall, Calling
<1>4. caller \in [Callers -> Calling]
  BY <1>3 DEF Init
<1>5. calls \in 0..MaxCalls
  BY SpeechAssumption DEF Init
<1> QED
  BY <1>1, <1>2, <1>4, <1>5 DEF Init, TypeOK, Fragments, Syntheses, None

LEMMA AgentStartsType ==
    ASSUME NEW g \in Gens, TypeOK, AgentStarts(g) PROVE TypeOK'
  BY DEF TypeOK, AgentStarts, speaking, calling

LEMMA AgentEventType ==
    ASSUME NEW g \in Gens, TypeOK, AgentEvent(g) PROVE TypeOK'
  BY DEF TypeOK, AgentEvent, speaking, calling, Stopped, Forget

LEMMA PutType ==
    ASSUME NEW g \in Gens, NEW text \in SUBSET Gens, NEW then \in {"reading", "ending"},
           TypeOK, Put(g, text, then)
    PROVE  /\ queue' \in Seq(Fragments) /\ Len(queue') <= QueueSize
           /\ held' \in [Gens -> SUBSET Gens]
           /\ agent' \in [Gens -> Agents]
<1> DEFINE e == [gen |-> g, text |-> text]
<1>1. e \in Fragments /\ queue \in Seq(Fragments) /\ Len(queue) \in Nat
  BY DEF Fragments, TypeOK
<1>2. Append(queue, e) \in Seq(Fragments) /\ Len(Append(queue, e)) = Len(queue) + 1
  BY <1>1, AppendFacts
<1>3. /\ held \in [Gens -> SUBSET Gens] /\ agent \in [Gens -> Agents]
      /\ Len(queue) <= QueueSize /\ QueueSize \in Nat
  BY SpeechAssumption DEF TypeOK, Agents
<1>4. CASE Len(queue) < QueueSize /\ queue' = Append(queue, e)
           /\ agent' = [agent EXCEPT ![g] = then] /\ UNCHANGED held
  <2> HIDE DEF e
  <2> QED  BY <1>1, <1>2, <1>3, <1>4 DEF Agents
<1>5. CASE Len(queue) = QueueSize /\ UNCHANGED queue
           /\ held' = [held EXCEPT ![g] = text]
           /\ agent' = [agent EXCEPT ![g] = IF then = "reading" THEN "putting" ELSE "flushing"]
  BY <1>1, <1>3, <1>5 DEF Agents
<1> QED
  BY <1>4, <1>5 DEF Put

LEMMA AgentTextType ==
    ASSUME NEW g \in Gens, TypeOK, AgentText(g) PROVE TypeOK'
<1>1. /\ queue' \in Seq(Fragments) /\ Len(queue') <= QueueSize
      /\ held' \in [Gens -> SUBSET Gens] /\ agent' \in [Gens -> Agents]
  <2>1. CASE UNCHANGED <<held, queue>> /\ agent' = [agent EXCEPT ![g] = "reading"]
    BY <2>1 DEF TypeOK, Fragments, Agents
  <2>2. CASE Put(g, buffer \cup {g}, "reading")
    <3>1. buffer \cup {g} \in SUBSET Gens
      BY DEF TypeOK
    <3> QED  BY <2>2, <3>1, PutType
  <2> QED  BY <2>1, <2>2 DEF AgentText
<1> QED
  BY <1>1 DEF TypeOK, AgentText, calling, Fragments, Agents

LEMMA AgentPutType ==
    ASSUME NEW g \in Gens, TypeOK, AgentPut(g) PROVE TypeOK'
  BY SpeechAssumption DEF TypeOK, AgentPut, calling

LEMMA AgentFlushType ==
    ASSUME NEW g \in Gens, TypeOK, AgentFlush(g) PROVE TypeOK'
<1>1. /\ queue' \in Seq(Fragments) /\ Len(queue') <= QueueSize
      /\ held' \in [Gens -> SUBSET Gens] /\ agent' \in [Gens -> Agents]
  <2>1. CASE UNCHANGED <<held, queue>> /\ agent' = [agent EXCEPT ![g] = "ending"]
    BY <2>1 DEF TypeOK, Fragments, Agents
  <2>2. CASE Put(g, buffer, "ending")
    <3>1. buffer \in SUBSET Gens
      BY DEF TypeOK
    <3> QED  BY <2>2, <3>1, PutType
  <2> QED  BY <2>1, <2>2 DEF AgentFlush
<1> QED
  BY <1>1 DEF TypeOK, AgentFlush, calling, Fragments, Agents

LEMMA AgentEndsType ==
    ASSUME NEW g \in Gens, TypeOK, AgentEnds(g) PROVE TypeOK'
  BY DEF TypeOK, AgentEnds, speaking, calling, Forget

LEMMA AgentUnwindsType ==
    ASSUME NEW g \in Gens, TypeOK, AgentUnwinds(g) PROVE TypeOK'
  BY DEF TypeOK, AgentUnwinds, speaking, calling, Stopped, Forget

LEMMA RunEndsType ==
    ASSUME NEW g \in Gens, TypeOK, RunEnds(g) PROVE TypeOK'
  BY DEF TypeOK, RunEnds, speaking, calling

LEMMA WorkerGetsType == ASSUME TypeOK, WorkerGets PROVE TypeOK'
<1>1. queue \in Seq(Fragments) /\ queue # <<>> /\ Len(queue) \in Nat
  BY DEF Fragments, TypeOK, WorkerGets
<1>2. Tail(queue) \in Seq(Fragments) /\ Len(Tail(queue)) = Len(queue) - 1
      /\ Head(queue) \in Fragments
  BY <1>1, TailFacts
<1>3. queue' \in Seq(Fragments) /\ Len(queue') <= QueueSize
  BY <1>1, <1>2, SpeechAssumption DEF WorkerGets, TypeOK
<1>4. synth' \in Syntheses
  BY <1>2 DEF WorkerGets, TypeOK, Synthesis, Fragments, Syntheses
<1> QED
  BY <1>3, <1>4 DEF Fragments, Syntheses, TypeOK, WorkerGets, responding, calling

LEMMA SynthAudioType == ASSUME TypeOK, SynthAudio PROVE TypeOK'
  BY DEF TypeOK, SynthAudio, responding, calling, Synthesis

LEMMA SynthSendsType == ASSUME TypeOK, SynthSends PROVE TypeOK'
  BY DEF TypeOK, SynthSends, responding, calling, Synthesis

LEMMA WorkerResumesType == ASSUME TypeOK, WorkerResumes PROVE TypeOK'
  BY DEF TypeOK, WorkerResumes, responding, calling, Synthesis, NoSynth

\* What interrupt() and _start_agent change is well typed; the call itself, closed and
\* the history of interrupted responses are left to their callers.
OutputTypeOK ==
    /\ activeTts \in BOOLEAN /\ crossed \in BOOLEAN
    /\ generation \in Gens \cup {None}
    /\ agentTask \in Gens \cup {None} /\ agentRun \in Gens \cup {None}
    /\ agent \in [Gens -> Agents] /\ run \in [Gens -> Runs]
    /\ buffer \subseteq Gens /\ held \in [Gens -> SUBSET Gens]
    /\ queue \in Seq(Fragments) /\ Len(queue) <= QueueSize
    /\ worker \in {"getting", "awaiting", "dead"}
    /\ synth \in Syntheses
    /\ output \subseteq Gens

LEMMA TypeParts ==
    /\ TypeOK <=> /\ OutputTypeOK /\ caller \in [Callers -> Calling]
                  /\ closed \in BOOLEAN /\ silenced \in Gens \cup {None}
                  /\ calls \in 0..MaxCalls
    /\ TypeOK' <=> /\ OutputTypeOK' /\ caller' \in [Callers -> Calling]
                   /\ closed' \in BOOLEAN /\ silenced' \in Gens \cup {None}
                   /\ calls' \in 0..MaxCalls
<1>1. TypeOK <=> /\ OutputTypeOK /\ caller \in [Callers -> Calling]
                  /\ closed \in BOOLEAN /\ silenced \in Gens \cup {None}
                  /\ calls \in 0..MaxCalls
  BY ZenonT(60) DEF TypeOK, OutputTypeOK, Agents, Runs, Fragments, Syntheses
<1>2. TypeOK' <=> /\ OutputTypeOK' /\ caller' \in [Callers -> Calling]
                   /\ closed' \in BOOLEAN /\ silenced' \in Gens \cup {None}
                   /\ calls' \in 0..MaxCalls
  BY ZenonT(60) DEF TypeOK, OutputTypeOK, Agents, Runs, Fragments, Syntheses
<1> QED  BY <1>1, <1>2

LEMMA InCallType ==
    ASSUME NEW op \in Ops, NEW pc \in Places,
           NEW a \in Gens \cup {None}, NEW u \in Gens \cup {None}
    PROVE  InCall(op, pc, a, u) \in Calling
  BY DEF InCall, Calling, Ops, Places

LEMMA ConstantCallsType ==
    /\ NoCall \in Calling /\ Heard \in Calling
    /\ \A op \in Ops : Aborted(op) \in Calling
  BY DEF NoCall, Heard, Aborted, InCall, Calling, Ops

LEMMA CallerType ==
    ASSUME NEW c \in Callers, NEW call \in Calling, caller \in [Callers -> Calling],
           caller' = [caller EXCEPT ![c] = call]
    PROVE  caller' \in [Callers -> Calling]
  OBVIOUS

LEMMA CallFields ==
    ASSUME NEW c \in Callers, caller \in [Callers -> Calling]
    PROVE  /\ caller[c] \in Calling
           /\ caller[c].op \in Ops /\ caller[c].pc \in Places
           /\ caller[c].awaits \in Gens \cup {None} /\ caller[c].upto \in Gens \cup {None}
  BY DEF Calling, Ops, Places

LEMMA SilenceType ==
    ASSUME NEW c \in Callers, NEW op \in Ops, NEW upto \in Gens \cup {None},
           TypeOK, Silence(c, op, upto)
    PROVE  /\ agentTask' \in Gens \cup {None} /\ agentRun' \in Gens \cup {None}
           /\ synth' \in Syntheses /\ activeTts' \in BOOLEAN
           /\ caller' \in [Callers -> Calling]
<1>1. agentTask' \in Gens \cup {None} /\ agentRun' \in Gens \cup {None}
  BY DEF Silence
<1>2. synth' \in Syntheses /\ activeTts' \in BOOLEAN
  <2>1. synth \in Syntheses /\ activeTts \in BOOLEAN
    BY TypeParts DEF OutputTypeOK
  <2>2. Hushed(synth) \in Syntheses
    BY <2>1 DEF Hushed, Synthesis, Syntheses
  <2> QED  BY <2>1, <2>2 DEF Silence
<1>3. \E call \in Calling : caller' = [caller EXCEPT ![c] = call]
  <2>1. /\ InCall(op, "tts", None, upto) \in Calling
        /\ InCall(op, "provider", None, upto) \in Calling
        /\ Aborted(op) \in Calling
    BY InCallType, ConstantCallsType DEF Places
  <2>2. \/ caller' = [caller EXCEPT ![c] = InCall(op, "tts", None, upto)]
        \/ caller' = [caller EXCEPT ![c] = InCall(op, "provider", None, upto)]
        \/ caller' = [caller EXCEPT ![c] = Aborted(op)]
    BY DEF Silence
  <2> QED  BY <2>1, <2>2
<1>4. caller' \in [Callers -> Calling]
  BY <1>3, CallerType DEF TypeOK
<1> QED  BY <1>1, <1>2, <1>4

LEMMA InterruptType ==
    ASSUME NEW c \in Callers, NEW op \in Ops, TypeOK, Interrupt(c, op)
    PROVE  OutputTypeOK' /\ caller' \in [Callers -> Calling]
<1>1. /\ generation' \in Gens \cup {None} /\ crossed' \in BOOLEAN
      /\ run' \in [Gens -> Runs]
  <2>1. generation' \in Gens \cup {None}
    BY SpeechAssumption DEF TypeOK, Interrupt, Gens, None
  <2>2. run' \in [Gens -> Runs]
    BY DEF TypeOK, Interrupt, Runs, Stopped
  <2> QED  BY <2>1, <2>2 DEF TypeOK, Interrupt
<1>2. CASE /\ AgentLive(agentTask)
           /\ agent' = [agent EXCEPT ![agentTask] = Signalled(@)]
           /\ caller' = [caller EXCEPT ![c] = InCall(op, "agent", agentTask, generation)]
           /\ UNCHANGED <<agentTask, agentRun, buffer, held, speaking>>
  <2>1. InCall(op, "agent", agentTask, generation) \in Calling
    BY InCallType DEF TypeOK, Places
  <2>2. caller' \in [Callers -> Calling]
    BY <1>2, <2>1, CallerType DEF TypeOK
  <2>3. agent' \in [Gens -> Agents]
    BY <1>2 DEF TypeOK, Agents, Signalled, AgentLive
  <2> QED
    BY <1>1, <1>2, <2>2, <2>3 DEF TypeOK, OutputTypeOK, speaking, Fragments, Syntheses
<1>3. CASE /\ ~AgentLive(agentTask) /\ Silence(c, op, generation) /\ UNCHANGED agent
  <2>1. generation \in Gens \cup {None}
    BY DEF TypeOK
  <2>2. UNCHANGED <<buffer, held, queue, worker, output>>
    BY <1>3 DEF Silence
  <2>3. /\ agentTask' \in Gens \cup {None} /\ agentRun' \in Gens \cup {None}
        /\ synth' \in Syntheses /\ activeTts' \in BOOLEAN
        /\ caller' \in [Callers -> Calling]
    BY <1>3, <2>1, SilenceType
  <2> QED
    BY <1>1, <1>3, <2>2, <2>3 DEF TypeOK, OutputTypeOK, Fragments, Agents
<1> QED
  BY <1>2, <1>3 DEF Interrupt

LEMMA RespondType ==
    ASSUME NEW c \in Callers, TypeOK, Respond(c)
    PROVE  OutputTypeOK' /\ caller' \in [Callers -> Calling]
<1>1. generation' \in Gens
  BY SpeechAssumption DEF TypeOK, Respond, Gens, None
<1>2. caller' \in [Callers -> Calling]
  BY ConstantCallsType, CallerType DEF TypeOK, Respond
<1>3. agent' \in [Gens -> Agents]
  BY <1>1 DEF TypeOK, Respond, Agents
<1>4. crossed' \in BOOLEAN
  BY DEF TypeOK, Respond
<1> QED
  BY <1>1, <1>2, <1>3, <1>4
     DEF TypeOK, OutputTypeOK, Respond, speaking, Fragments, Syntheses, Runs

LEMMA CallsType ==
    ASSUME NEW c \in Callers, TypeOK, Calls(c) PROVE calls' \in 0..MaxCalls
  BY SpeechAssumption DEF TypeOK, Calls

LEMMA TranscriptType == ASSUME NEW c \in Callers, TypeOK, Transcript(c) PROVE TypeOK'
<1>1. CASE Interrupt(c, "barge")
  <2>1. OutputTypeOK' /\ caller' \in [Callers -> Calling]
    BY <1>1, InterruptType DEF Ops
  <2> QED  BY <2>1, TypeParts, CallsType DEF Transcript
<1>2. CASE /\ caller' = [caller EXCEPT ![c] = Heard]
           /\ UNCHANGED <<responding, speaking, crossed, generation>>
  <2>1. caller' \in [Callers -> Calling]
    BY <1>2, ConstantCallsType, CallerType DEF TypeOK
  <2>2. OutputTypeOK'
    BY <1>2, TypeParts DEF OutputTypeOK, responding, speaking
  <2> QED  BY <2>1, <2>2, TypeParts, CallsType DEF Transcript
<1> QED  BY <1>1, <1>2 DEF Transcript

LEMMA StartAgentType == ASSUME NEW c \in Callers, TypeOK, StartAgent(c) PROVE TypeOK'
<1>1. OutputTypeOK' /\ caller' \in [Callers -> Calling]
  BY InterruptType, RespondType DEF StartAgent, Ops
<1> QED  BY <1>1, TypeParts DEF StartAgent

LEMMA HostInterruptsType ==
    ASSUME NEW c \in Callers, TypeOK, HostInterrupts(c) PROVE TypeOK'
<1>1. OutputTypeOK' /\ caller' \in [Callers -> Calling]
  BY InterruptType DEF HostInterrupts, Ops
<1> QED  BY <1>1, TypeParts, CallsType DEF HostInterrupts

LEMMA CloseType == ASSUME NEW c \in Callers, TypeOK, Close(c) PROVE TypeOK'
<1>1. OutputTypeOK' /\ caller' \in [Callers -> Calling]
  BY InterruptType DEF Close, Ops
<1> QED  BY <1>1, TypeParts, CallsType DEF Close

LEMMA InterruptReturnsType ==
    ASSUME NEW c \in Callers, TypeOK, InterruptReturns(c) PROVE TypeOK'
<1>1. CASE Respond(c)
  <2>1. OutputTypeOK' /\ caller' \in [Callers -> Calling]
    BY <1>1, RespondType
  <2> QED  BY <2>1, TypeParts DEF InterruptReturns
<1>2. CASE ~Respond(c)
  <2>1. /\ InCall("close", "cleanup", None, None) \in Calling
        /\ InCall("barge", "barged", None, None) \in Calling
    BY InCallType DEF Ops, Places
  <2>2. /\ \E call \in Calling : caller' = [caller EXCEPT ![c] = call]
        /\ UNCHANGED <<responding, speaking, crossed, generation>>
    BY <1>2, <2>1, ConstantCallsType, Zenon DEF InterruptReturns
  <2>3. caller' \in [Callers -> Calling]
    BY <2>2, CallerType DEF TypeOK
  <2>4. OutputTypeOK'
    BY <2>2, TypeParts DEF OutputTypeOK, responding, speaking
  <2> QED  BY <2>3, <2>4, TypeParts DEF InterruptReturns
<1> QED  BY <1>1, <1>2

LEMMA BargedType == ASSUME NEW c \in Callers, TypeOK, Barged(c) PROVE TypeOK'
<1>1. \E call \in Calling : caller' = [caller EXCEPT ![c] = call]
  BY ConstantCallsType, Zenon DEF Barged
<1>2. caller' \in [Callers -> Calling]
  BY <1>1, CallerType DEF TypeOK
<1>3. OutputTypeOK'
  BY TypeParts DEF OutputTypeOK, Barged, responding, speaking
<1> QED  BY <1>2, <1>3, TypeParts DEF Barged

LEMMA CleanUpType == ASSUME NEW c \in Callers, TypeOK, CleanUp(c) PROVE TypeOK'
<1>1. caller' \in [Callers -> Calling]
  BY ConstantCallsType, CallerType DEF TypeOK, CleanUp
<1>2. NoSynth \in Syntheses
  BY DEF NoSynth, Synthesis, Syntheses
<1>3. OutputTypeOK'
  BY <1>2, TypeParts DEF OutputTypeOK, CleanUp, responding
<1> QED  BY <1>1, <1>3, TypeParts DEF CleanUp

LEMMA AgentAwaitedType ==
    ASSUME NEW c \in Callers, TypeOK, AgentAwaited(c) PROVE TypeOK'
<1>1. caller[c].op \in Ops /\ caller[c].upto \in Gens \cup {None}
  BY CallFields DEF TypeOK
<1>2. Silence(c, caller[c].op, caller[c].upto)
  BY DEF AgentAwaited
<1>3. /\ agentTask' \in Gens \cup {None} /\ agentRun' \in Gens \cup {None}
      /\ synth' \in Syntheses /\ activeTts' \in BOOLEAN
      /\ caller' \in [Callers -> Calling]
  BY <1>1, <1>2, SilenceType
<1>4. UNCHANGED <<buffer, held, queue, worker, output>>
  BY <1>2 DEF Silence
<1>5. OutputTypeOK'
  BY <1>3, <1>4, TypeParts DEF OutputTypeOK, AgentAwaited
<1> QED  BY <1>3, <1>5, TypeParts DEF AgentAwaited

LEMMA TtsAwaitedType == ASSUME NEW c \in Callers, TypeOK, TtsAwaited(c) PROVE TypeOK'
<1>1. InCall(caller[c].op, "provider", None, caller[c].upto) \in Calling
  BY CallFields, InCallType DEF TypeOK, Places
<1>2. caller' \in [Callers -> Calling]
  BY <1>1, CallerType DEF TypeOK, TtsAwaited
<1>3. OutputTypeOK'
  BY TypeParts DEF OutputTypeOK, TtsAwaited, responding
<1> QED  BY <1>2, <1>3, TypeParts DEF TtsAwaited

LEMMA ClearType == ASSUME NEW c \in Callers, TypeOK, Clear(c) PROVE TypeOK'
<1>1. InCall(caller[c].op, "clearing", None, None) \in Calling
  BY CallFields, InCallType DEF TypeOK, Places
<1>2. caller' \in [Callers -> Calling]
  BY <1>1, CallerType DEF TypeOK, Clear
<1>3. silenced' \in Gens \cup {None}
  BY CallFields DEF TypeOK, Clear
<1>4. queue' \in Seq(Fragments) /\ Len(queue') <= QueueSize
  BY SpeechAssumption DEF Clear
<1>5. OutputTypeOK'
  BY <1>4, TypeParts DEF OutputTypeOK, Clear
<1> QED  BY <1>2, <1>3, <1>5, TypeParts DEF Clear

\* Every step of the session keeps its state well typed.
LEMMA NextType == TypeOK /\ [Next]_vars => TypeOK'
<1> SUFFICES ASSUME TypeOK, [Next]_vars PROVE TypeOK'
  OBVIOUS
<1>1. CASE \E g \in Gens : AgentStep(g) \/ RunEnds(g)
  BY <1>1, AgentStartsType, AgentEventType, AgentTextType, AgentPutType, AgentFlushType,
     AgentEndsType, AgentUnwindsType, RunEndsType DEF AgentStep
<1>2. CASE WorkerGets \/ SynthAudio \/ SynthSends \/ WorkerResumes
  BY <1>2, WorkerGetsType, SynthAudioType, SynthSendsType, WorkerResumesType
<1>3. CASE \E c \in Callers : CallStep(c) \/ Transcript(c) \/ HostInterrupts(c) \/ Close(c)
  BY <1>3, AgentAwaitedType, TtsAwaitedType, ClearType, StartAgentType,
     InterruptReturnsType, BargedType, CleanUpType, TranscriptType, HostInterruptsType,
     CloseType DEF CallStep
<1>4. CASE UNCHANGED vars
  BY <1>4, TypeParts DEF OutputTypeOK, vars, responding, speaking, calling
<1> QED  BY <1>1, <1>2, <1>3, <1>4 DEF Next

\* The state of a session is well typed, and the queue between the agent and the TTS
\* worker keeps its bound (session.py: Queue(maxsize=queue_size)), whatever the size,
\* the callers and the number of calls.
THEOREM SpeechTypeCorrect == Spec => []TypeOK
<1> QED  BY InitTypeOK, NextType, PTL DEF Spec

-----------------------------------------------------------------------------
\* The safety invariant, action by action.

Safe == TaskInv /\ CallInv /\ TextInv

LEMMA AppendElements ==
    ASSUME NEW S, NEW q \in Seq(S), NEW e \in S, NEW i \in DOMAIN Append(q, e)
    PROVE  Append(q, e)[i] = e \/ (i \in DOMAIN q /\ Append(q, e)[i] = q[i])
  OBVIOUS

LEMMA TailElements ==
    ASSUME NEW S, NEW q \in Seq(S), q # <<>>, NEW i \in DOMAIN Tail(q)
    PROVE  i + 1 \in DOMAIN q /\ Tail(q)[i] = q[i + 1]
  OBVIOUS

LEMMA HeadElement ==
    ASSUME NEW S, NEW q \in Seq(S), q # <<>>
    PROVE  1 \in DOMAIN q /\ Head(q) = q[1]
  OBVIOUS

\* A step of an agent task, which may only put a fragment of its own response.
LEMMA AgentMoves ==
    ASSUME TypeOK, Safe, NEW g \in Gens, NEW pc \in Agents,
           agent' = [agent EXCEPT ![g] = pc], agent[g] \notin Over,
           pc \in Working => agent[g] \in Working,
           pc \in {"putting", "flushing"} => \A x \in held'[g] : x > silenced,
           \A h \in Gens \ {g} : held'[h] = held[h],
           \A x \in buffer' : x > silenced,
           \A i \in DOMAIN queue' :
              \/ i \in DOMAIN queue /\ queue'[i] = queue[i]
              \/ /\ agent[g] \in Working /\ queue'[i].gen = g
                 /\ \A x \in queue'[i].text : x > silenced,
           UNCHANGED <<agentTask, synth, output, caller, silenced, generation>>
    PROVE  Safe'
<1>0. generation \in Nat /\ silenced \in Nat
  BY GensFacts DEF TypeOK
<1>1. TaskInv'
  BY DEF Safe, TaskInv, TypeOK, Over
<1>2. CallInv'
  <2> SUFFICES ASSUME NEW c \in Callers
               PROVE  /\ Interrupting(c)' =>
                           /\ caller'[c].upto < generation'
                           /\ \A h \in Gens : agent'[h] \notin Working
                           /\ \A i \in DOMAIN queue' : queue'[i].gen # generation'
                           /\ Voiced' => synth'.gen # generation'
                      /\ caller'[c].pc = "agent" => agentTask' \in {None, caller'[c].awaits}
                      /\ caller'[c].pc \in {"tts", "provider", "clearing"} => agentTask' = None
    BY DEF CallInv
  <2>1. caller'[c] = caller[c] /\ (Interrupting(c)' <=> Interrupting(c))
        /\ (Voiced' <=> Voiced)
    BY DEF Interrupting, Voiced
  <2>2. ASSUME Interrupting(c) PROVE agent[g] \notin Working
    BY <2>2 DEF Safe, CallInv
  <2> QED
    BY <2>1, <2>2 DEF Safe, CallInv, TypeOK
<1>3. TextInv'
  <2>1. \A h \in Gens : agent'[h] \in Working => h > silenced'
    BY DEF Safe, TextInv, TypeOK
  <2>2. \A h \in Gens : agent'[h] \in {"putting", "flushing"} => Recent(held[h])'
    BY DEF Safe, TextInv, TypeOK, Recent
  <2>3. agent[g] \in Working => g = generation
    BY DEF Safe, TaskInv
  <2>4. \A i \in DOMAIN queue' :
          /\ queue'[i].gen <= generation'
          /\ queue'[i].gen = generation' => Recent(queue[i].text)'
    BY <1>0, <2>3 DEF Safe, TextInv, Recent
  <2>5. Recent(buffer)' /\ Recent(output)'
    BY DEF Safe, TextInv, Recent
  <2>6. /\ silenced' <= generation' /\ synth'.gen <= generation'
        /\ (Voiced /\ synth.gen = generation => Recent(synth.text))'
    BY DEF Safe, TextInv, Recent, Voiced
  <2> QED  BY <2>1, <2>2, <2>4, <2>5, <2>6 DEF TextInv
<1> QED  BY <1>1, <1>2, <1>3 DEF Safe

LEMMA AgentStartsSafe ==
    ASSUME NEW g \in Gens, TypeOK, Safe, AgentStarts(g) PROVE Safe'
<1>1. \E pc \in {"reading", "done"} : agent' = [agent EXCEPT ![g] = pc]
  BY DEF AgentStarts
<1>2. /\ agent[g] = "polling"
      /\ UNCHANGED <<agentTask, buffer, held, queue, synth, output, caller, silenced,
                     generation>>
  BY DEF AgentStarts, speaking, calling
<1>3. Recent(buffer)
  BY DEF Safe, TextInv
<1> QED
  BY <1>1, <1>2, <1>3, AgentMoves DEF Working, Over, Agents, Recent

LEMMA AgentEventSafe ==
    ASSUME NEW g \in Gens, TypeOK, Safe, AgentEvent(g) PROVE Safe'
<1>1. \E pc \in {"texting", "done"} : agent' = [agent EXCEPT ![g] = pc]
  BY DEF AgentEvent
<1>2. /\ agent[g] = "reading"
      /\ UNCHANGED <<agentTask, buffer, held, queue, synth, output, caller, silenced,
                     generation>>
  BY DEF AgentEvent, speaking, calling
<1>3. Recent(buffer)
  BY DEF Safe, TextInv
<1> QED
  BY <1>1, <1>2, <1>3, AgentMoves DEF Working, Over, Agents, Recent

LEMMA AgentEndsSafe ==
    ASSUME NEW g \in Gens, TypeOK, Safe, AgentEnds(g) PROVE Safe'
<1>1. agent' = [agent EXCEPT ![g] = "done"]
  BY DEF AgentEnds
<1>2. /\ agent[g] = "ending"
      /\ UNCHANGED <<agentTask, buffer, held, queue, synth, output, caller, silenced,
                     generation>>
  BY DEF AgentEnds, speaking, calling
<1>3. Recent(buffer)
  BY DEF Safe, TextInv
<1> QED
  BY <1>1, <1>2, <1>3, AgentMoves DEF Working, Over, Agents, Recent

LEMMA AgentUnwindsSafe ==
    ASSUME NEW g \in Gens, TypeOK, Safe, AgentUnwinds(g) PROVE Safe'
<1>1. \E pc \in {"settling", "done"} : agent' = [agent EXCEPT ![g] = pc]
  BY DEF AgentUnwinds
<1>2. /\ agent[g] \in Unwinding
      /\ UNCHANGED <<agentTask, buffer, held, queue, synth, output, caller, silenced,
                     generation>>
  BY DEF AgentUnwinds, speaking, calling, Unwinding
<1>3. Recent(buffer)
  BY DEF Safe, TextInv
<1> QED
  BY <1>1, <1>2, <1>3, AgentMoves DEF Working, Over, Agents, Recent, Unwinding

\* What Put does to the queue, to the fragment held and to the task.
LEMMA PutSays ==
    ASSUME NEW g \in Gens, NEW text \in SUBSET Gens, NEW then \in {"reading", "ending"},
           TypeOK, Put(g, text, then)
    PROVE  /\ \E pc \in {"reading", "ending", "putting", "flushing"} :
                 /\ agent' = [agent EXCEPT ![g] = pc]
                 /\ pc \in {"putting", "flushing"} => held'[g] = text
           /\ \A h \in Gens \ {g} : held'[h] = held[h]
           /\ \A i \in DOMAIN queue' :
                 \/ i \in DOMAIN queue /\ queue'[i] = queue[i]
                 \/ queue'[i].gen = g /\ queue'[i].text = text
<1> DEFINE e == [gen |-> g, text |-> text]
<1>1. e \in Fragments /\ queue \in Seq(Fragments) /\ e.gen = g /\ e.text = text
  BY DEF Fragments, TypeOK
<1>2. \A i \in DOMAIN Append(queue, e) :
         Append(queue, e)[i] = e \/ (i \in DOMAIN queue /\ Append(queue, e)[i] = queue[i])
  BY <1>1, AppendElements
<1>3. held \in [Gens -> SUBSET Gens]
  BY DEF TypeOK
<1>4. CASE /\ queue' = Append(queue, e) /\ agent' = [agent EXCEPT ![g] = then]
           /\ UNCHANGED held
  <2> HIDE DEF e
  <2> QED  BY <1>1, <1>2, <1>3, <1>4
<1>5. CASE /\ UNCHANGED queue /\ held' = [held EXCEPT ![g] = text]
           /\ agent' = [agent EXCEPT ![g] = IF then = "reading" THEN "putting" ELSE "flushing"]
  BY <1>3, <1>5
<1> QED  BY <1>4, <1>5 DEF Put

LEMMA PutSafe ==
    ASSUME NEW g \in Gens, NEW text \in SUBSET Gens, NEW then \in {"reading", "ending"},
           TypeOK, Safe, Put(g, text, then), agent[g] \in Working, Recent(text),
           buffer' = {}, UNCHANGED <<agentTask, synth, output, caller, silenced, generation>>
    PROVE  Safe'
<1>1. PICK pc \in {"reading", "ending", "putting", "flushing"} :
                 /\ agent' = [agent EXCEPT ![g] = pc]
                 /\ pc \in {"putting", "flushing"} => held'[g] = text
  BY PutSays
<1>2. /\ \A h \in Gens \ {g} : held'[h] = held[h]
      /\ \A i \in DOMAIN queue' :
                 \/ i \in DOMAIN queue /\ queue'[i] = queue[i]
                 \/ queue'[i].gen = g /\ queue'[i].text = text
  BY PutSays
<1>3. pc \in Agents /\ agent[g] \notin Over
  BY DEF Working, Over, Agents
<1> QED
  BY <1>1, <1>2, <1>3, AgentMoves DEF Recent

LEMMA AgentTextSafe ==
    ASSUME NEW g \in Gens, TypeOK, Safe, AgentText(g) PROVE Safe'
<1>1. /\ agent[g] = "texting" /\ agent[g] \in Working /\ agent[g] \notin Over
      /\ UNCHANGED <<agentTask, synth, output, caller, silenced, generation>>
  BY DEF AgentText, calling, Working, Over
<1>2. Recent(buffer \cup {g}) /\ buffer \cup {g} \in SUBSET Gens
  BY <1>1 DEF Safe, TextInv, Recent, TypeOK
<1>3. CASE /\ buffer' = buffer \cup {g} /\ agent' = [agent EXCEPT ![g] = "reading"]
           /\ UNCHANGED <<held, queue>>
  BY <1>1, <1>2, <1>3, AgentMoves DEF Recent, Agents
<1>4. CASE buffer' = {} /\ Put(g, buffer \cup {g}, "reading")
  BY <1>1, <1>2, <1>4, PutSafe
<1> QED  BY <1>3, <1>4 DEF AgentText

LEMMA AgentFlushSafe ==
    ASSUME NEW g \in Gens, TypeOK, Safe, AgentFlush(g) PROVE Safe'
<1>1. /\ agent[g] = "reading" /\ agent[g] \in Working /\ agent[g] \notin Over
      /\ UNCHANGED <<agentTask, synth, output, caller, silenced, generation>>
  BY DEF AgentFlush, calling, Working, Over
<1>2. Recent(buffer) /\ buffer \in SUBSET Gens
  BY DEF Safe, TextInv, TypeOK
<1>3. CASE agent' = [agent EXCEPT ![g] = "ending"] /\ UNCHANGED <<buffer, held, queue>>
  BY <1>1, <1>2, <1>3, AgentMoves DEF Recent, Agents
<1>4. CASE buffer' = {} /\ Put(g, buffer, "ending")
  BY <1>1, <1>2, <1>4, PutSafe
<1> QED  BY <1>3, <1>4 DEF AgentFlush

LEMMA AgentPutSafe ==
    ASSUME NEW g \in Gens, TypeOK, Safe, AgentPut(g) PROVE Safe'
<1> DEFINE e == [gen |-> g, text |-> held[g]]
<1>1. /\ agent[g] \in {"putting", "flushing"}
      /\ queue' = Append(queue, e) /\ held' = [held EXCEPT ![g] = {}]
      /\ UNCHANGED <<agentTask, buffer, synth, output, caller, silenced, generation>>
  BY DEF AgentPut, calling
<1>2. \E pc \in {"reading", "ending"} : agent' = [agent EXCEPT ![g] = pc]
  BY DEF AgentPut
<1>3. agent[g] \in Working /\ agent[g] \notin Over /\ Recent(held[g]) /\ Recent(buffer)
  BY <1>1 DEF Working, Over, Safe, TextInv
<1>4. e \in Fragments /\ queue \in Seq(Fragments) /\ e.gen = g /\ e.text = held[g]
  BY DEF Fragments, TypeOK
<1>5. \A i \in DOMAIN queue' :
         queue'[i] = e \/ (i \in DOMAIN queue /\ queue'[i] = queue[i])
  BY <1>1, <1>4, AppendElements
<1>6. \A h \in Gens \ {g} : held'[h] = held[h]
  BY <1>1 DEF TypeOK
<1> HIDE DEF e
<1> QED
  BY <1>1, <1>2, <1>3, <1>4, <1>5, <1>6, AgentMoves DEF Recent, Agents

LEMMA RunEndsSafe ==
    ASSUME NEW g \in Gens, Safe, RunEnds(g) PROVE Safe'
  BY DEF Safe, TaskInv, CallInv, TextInv, Recent, Voiced, Interrupting, RunEnds, speaking,
         calling

\* A step of the TTS worker or of a synthesis, which may take a fragment from the queue.
LEMMA SpeakerMoves ==
    ASSUME TypeOK, Safe,
           \A i \in DOMAIN queue' : \E j \in DOMAIN queue : queue'[i] = queue[j],
           synth'.gen <= generation,
           \/ ~Voiced'
           \/ synth'.gen # generation
           \/ /\ synth'.gen = generation /\ \A c \in Callers : ~Interrupting(c)
              /\ \A x \in synth'.text : x > silenced,
           \A x \in output' : x > silenced,
           UNCHANGED <<agentTask, agent, buffer, held, caller, silenced, generation>>
    PROVE  Safe'
<1>1. TaskInv'
  BY DEF Safe, TaskInv
<1>2. CallInv'
  <2>1. \A c \in Callers : Interrupting(c)' <=> Interrupting(c)
    BY DEF Interrupting
  <2> QED  BY <2>1 DEF Safe, CallInv
<1>3. TextInv'
  BY DEF Safe, TextInv, Recent
<1> QED  BY <1>1, <1>2, <1>3 DEF Safe

LEMMA WorkerGetsSafe == ASSUME TypeOK, Safe, WorkerGets PROVE Safe'
<1>1. queue \in Seq(Fragments) /\ queue # <<>> /\ queue' = Tail(queue)
      /\ UNCHANGED <<agentTask, agent, buffer, held, output, caller, silenced, generation>>
  BY DEF TypeOK, Fragments, WorkerGets, responding, calling
<1>2. \A i \in DOMAIN queue' : \E j \in DOMAIN queue : queue'[i] = queue[j]
  BY <1>1, TailElements
<1>3. 1 \in DOMAIN queue /\ Head(queue) = queue[1] /\ queue[1] \in Fragments
  BY <1>1, HeadElement, TailFacts
<1>4. /\ \A x \in output' : x > silenced
      /\ synth.gen <= generation /\ generation <= generation
  BY <1>1, GensFacts DEF Safe, TextInv, Recent, TypeOK
<1>5. CASE UNCHANGED synth
  <2>1. (Voiced' <=> Voiced) /\ synth' = synth
    BY <1>5 DEF Voiced
  <2>2. \A i \in DOMAIN queue : queue[i].gen <= generation
    BY DEF Safe, TextInv
  <2>3. Voiced /\ synth.gen = generation =>
            /\ \A c \in Callers : ~Interrupting(c)
            /\ \A x \in synth.text : x > silenced
    BY DEF Safe, CallInv, TextInv, Recent
  <2> QED  BY <1>1, <1>2, <1>4, <2>1, <2>3, SpeakerMoves
<1>6. CASE /\ Head(queue).gen = generation
           /\ synth' = Synthesis(generation, Head(queue).text, "streaming")
  <2>1. synth'.gen = generation /\ synth'.text = queue[1].text
    BY <1>3, <1>6 DEF Synthesis
  <2>2. \A c \in Callers : ~Interrupting(c)
    BY <1>3, <1>6 DEF Safe, CallInv
  <2>3. \A x \in queue[1].text : x > silenced
    BY <1>3, <1>6 DEF Safe, TextInv, Recent
  <2> QED  BY <1>1, <1>2, <1>4, <2>1, <2>2, <2>3, SpeakerMoves
<1> QED  BY <1>5, <1>6 DEF WorkerGets

LEMMA SynthAudioSafe == ASSUME TypeOK, Safe, SynthAudio PROVE Safe'
<1>1. /\ UNCHANGED <<agentTask, agent, buffer, held, queue, output, caller, silenced,
                     generation>>
      /\ synth.pc = "streaming" /\ Voiced
      /\ synth'.gen = synth.gen /\ synth'.text = synth.text
  BY DEF SynthAudio, responding, calling, Voiced, Synthesis
<1>2. /\ \A i \in DOMAIN queue' : \E j \in DOMAIN queue : queue'[i] = queue[j]
      /\ \A x \in output' : x > silenced
      /\ synth'.gen <= generation
  BY <1>1 DEF Safe, TextInv, Recent
<1>3. synth.gen = generation =>
         /\ \A c \in Callers : ~Interrupting(c)
         /\ \A x \in synth.text : x > silenced
  BY <1>1 DEF Safe, CallInv, TextInv, Recent
<1> QED  BY <1>1, <1>2, <1>3, SpeakerMoves

LEMMA SynthSendsSafe == ASSUME TypeOK, Safe, SynthSends PROVE Safe'
<1>1. /\ UNCHANGED <<agentTask, agent, buffer, held, queue, caller, silenced, generation>>
      /\ Voiced
      /\ synth'.gen = synth.gen /\ synth'.text = synth.text
  BY DEF SynthSends, responding, calling, Voiced, Synthesis
<1>2. /\ \A i \in DOMAIN queue' : \E j \in DOMAIN queue : queue'[i] = queue[j]
      /\ synth'.gen <= generation
  BY <1>1 DEF Safe, TextInv
<1>3. synth.gen = generation =>
         /\ \A c \in Callers : ~Interrupting(c)
         /\ \A x \in synth.text : x > silenced
  BY <1>1 DEF Safe, CallInv, TextInv, Recent
<1>4. \A x \in output' : x > silenced
  BY <1>3 DEF SynthSends, Safe, TextInv, Recent
<1> QED  BY <1>1, <1>2, <1>3, <1>4, SpeakerMoves

LEMMA SilentSafe ==
    ASSUME TypeOK, Safe, synth' = NoSynth,
           UNCHANGED <<agentTask, agent, buffer, held, queue, output, caller, silenced,
                       generation>>
    PROVE  Safe'
<1>1. synth'.gen <= generation /\ ~Voiced'
  BY GensFacts DEF NoSynth, Synthesis, TypeOK, Voiced
<1>2. \A i \in DOMAIN queue' : \E j \in DOMAIN queue : queue'[i] = queue[j]
  OBVIOUS
<1>3. \A x \in output' : x > silenced
  BY DEF Safe, TextInv, Recent
<1> QED  BY <1>1, <1>2, <1>3, SpeakerMoves

LEMMA WorkerResumesSafe == ASSUME TypeOK, Safe, WorkerResumes PROVE Safe'
  BY SilentSafe DEF WorkerResumes, responding, calling

LEMMA SeqElement ==
    ASSUME NEW S, NEW q \in Seq(S), NEW i \in DOMAIN q PROVE q[i] \in S
  OBVIOUS

\* Nothing is queued or spoken for a generation still to come.
LEMMA PastGens ==
    ASSUME TypeOK, Safe
    PROVE  /\ generation \in Nat /\ silenced \in Nat
           /\ \A i \in DOMAIN queue : queue[i].gen \in Nat /\ queue[i].gen <= generation
           /\ synth.gen \in Nat /\ synth.gen <= generation
           /\ \A c \in Callers : caller[c].upto \in Nat
<1>1. queue \in Seq(Fragments) /\ synth \in Syntheses /\ caller \in [Callers -> Calling]
  BY DEF TypeOK, Fragments, Syntheses
<1>2. \A i \in DOMAIN queue : queue[i] \in Fragments
  BY <1>1, SeqElement
<1>3. \A i \in DOMAIN queue : queue[i].gen \in Nat
  BY <1>2, GensFacts DEF Fragments
<1>4. synth.gen \in Nat
  <2>1. synth.gen \in Gens \cup {None}
    BY <1>1 DEF Syntheses
  <2> QED  BY <2>1, GensNat, Zenon
<1>5. \A c \in Callers : caller[c].upto \in Nat
  <2> TAKE c \in Callers
  <2>1. caller[c].upto \in Gens \cup {None}
    BY <1>1, CallFields
  <2> QED  BY <2>1, GensFacts
<1>6. generation \in Nat /\ silenced \in Nat
  BY GensFacts DEF TypeOK
<1> QED  BY <1>3, <1>4, <1>5, <1>6 DEF Safe, TextInv

LEMMA CallSays ==
    ASSUME NEW c \in Callers, NEW call, caller \in [Callers -> Calling],
           caller' = [caller EXCEPT ![c] = call]
    PROVE  caller'[c] = call /\ \A d \in Callers \ {c} : caller'[d] = caller[d]
  OBVIOUS

\* A call that is not, or no longer, in an interrupt moves on.
LEMMA QuietCall ==
    ASSUME TypeOK, Safe, NEW c \in Callers, NEW call,
           caller' = [caller EXCEPT ![c] = call],
           call.pc \notin {"agent", "tts", "provider", "clearing"},
           UNCHANGED <<agentTask, agent, buffer, held, queue, synth, output, silenced,
                       generation>>
    PROVE  Safe'
<1>1. caller'[c] = call /\ \A d \in Callers \ {c} : caller'[d] = caller[d]
  BY CallSays DEF TypeOK
<1>2. TaskInv' /\ TextInv'
  BY DEF Safe, TaskInv, TextInv, Recent, Voiced
<1>3. CallInv'
  <2>1. \A d \in Callers : Interrupting(d)' => d # c /\ Interrupting(d)
    BY <1>1 DEF Interrupting
  <2>2. Voiced' <=> Voiced
    BY DEF Voiced
  <2> QED  BY <1>1, <2>1, <2>2 DEF Safe, CallInv
<1> QED  BY <1>2, <1>3 DEF Safe

\* interrupt() passes its agent task: none is alive, and nothing is of the response
\* that may begin next.
LEMMA SilenceSafe ==
    ASSUME TypeOK, Safe, NEW c \in Callers, NEW op \in Ops,
           NEW upto \in Gens \cup {None}, Silence(c, op, upto),
           generation' \in {generation, generation + 1}, upto < generation',
           \A g \in Gens : agent[g] \in Over,
           \A i \in DOMAIN queue : queue[i].gen # generation',
           Voiced => synth.gen # generation',
           UNCHANGED <<agent, silenced>>
    PROVE  Safe'
<1>0. generation \in Nat /\ generation' \in Nat /\ silenced \in Nat /\ generation <= generation'
  BY GensFacts DEF TypeOK
<1>1. agentTask' = None /\ UNCHANGED <<buffer, held, queue, output>>
  BY DEF Silence
<1>2. TaskInv' /\ \A g \in Gens : agent'[g] \notin Working
  BY DEF TaskInv, Over, Working
<1>3. synth'.gen = synth.gen /\ (Voiced' => Voiced)
  BY DEF Silence, Hushed, Synthesis, Voiced
<1>4. CallInv'
  <2>1. /\ Interrupting(c)' => caller'[c].upto = upto
        /\ caller'[c].pc # "agent"
    <3>1. \/ caller' = [caller EXCEPT ![c] = InCall(op, "tts", None, upto)]
          \/ caller' = [caller EXCEPT ![c] = InCall(op, "provider", None, upto)]
          \/ caller' = [caller EXCEPT ![c] = Aborted(op)]
      BY DEF Silence
    <3>2. \/ caller'[c] = InCall(op, "tts", None, upto)
          \/ caller'[c] = InCall(op, "provider", None, upto)
          \/ caller'[c] = Aborted(op)
      BY <3>1 DEF TypeOK
    <3> QED
      BY <3>2 DEF Interrupting, InCall, Aborted, NoCall
  <2>2. \A d \in Callers \ {c} : caller'[d] = caller[d]
    BY DEF Silence, TypeOK
  <2>3. \A d \in Callers \ {c} : Interrupting(d)' => caller'[d].upto < generation'
    <3> TAKE d \in Callers \ {c}
    <3>1. Interrupting(d)' => caller[d].upto < generation
      BY <2>2 DEF Interrupting, Safe, CallInv
    <3>2. caller[d].upto \in Nat
      BY PastGens
    <3> QED  BY <1>0, <2>2, <3>1, <3>2
  <2>4. \A i \in DOMAIN queue' : queue'[i].gen # generation'
    BY <1>1
  <2>5. Voiced' => synth'.gen # generation'
    BY <1>3
  <2> QED  BY <1>1, <1>2, <2>1, <2>2, <2>3, <2>4, <2>5 DEF CallInv
<1>5. TextInv'
  <2>1. \A g \in Gens : agent'[g] \notin {"putting", "flushing"}
    BY DEF Over
  <2>2. Recent(buffer)' /\ Recent(output)'
    BY <1>1 DEF Safe, TextInv, Recent
  <2>3. silenced' <= generation'
    BY <1>0 DEF Safe, TextInv
  <2>4. \A i \in DOMAIN queue' : queue'[i].gen <= generation' /\ queue'[i].gen # generation'
    <3> SUFFICES ASSUME NEW i \in DOMAIN queue PROVE queue[i].gen <= generation'
      BY <1>1
    <3>1. queue[i].gen \in Nat /\ queue[i].gen <= generation
      BY PastGens
    <3> QED  BY <1>0, <3>1
  <2>5. synth'.gen <= generation' /\ (Voiced' => synth'.gen # generation')
    <3>1. synth.gen \in Nat /\ synth.gen <= generation
      BY PastGens
    <3> QED  BY <1>0, <1>3, <3>1
  <2> QED  BY <1>2, <2>1, <2>2, <2>3, <2>4, <2>5 DEF TextInv
<1> QED  BY <1>2, <1>4, <1>5 DEF Safe

\* An agent task that is alive is the one _agent_task refers to.
LEMMA Alive ==
    ASSUME TypeOK, Safe, NEW g \in Gens, agent[g] \notin Over
    PROVE  g = agentTask /\ AgentLive(agentTask)
  BY GensFacts DEF Safe, TaskInv, AgentLive

LEMMA InterruptSafe ==
    ASSUME TypeOK, Safe, NEW c \in Callers, NEW op \in Ops, Interrupt(c, op),
           UNCHANGED silenced
    PROVE  Safe'
<1>0. /\ generation \in Nat /\ silenced \in Nat /\ generation' = generation + 1
      /\ generation \in Gens \cup {None}
  BY GensFacts DEF TypeOK, Interrupt
<1>1. \A i \in DOMAIN queue : queue[i].gen < generation' /\ queue[i].gen # generation'
  <2> TAKE i \in DOMAIN queue
  <2>1. queue[i].gen \in Nat /\ queue[i].gen <= generation
    BY PastGens
  <2> QED  BY <1>0, <2>1
<1>2. synth.gen < generation' /\ synth.gen # generation'
  <2>1. synth.gen \in Nat /\ synth.gen <= generation
    BY PastGens
  <2> QED  BY <1>0, <2>1
<1>3. CASE ~AgentLive(agentTask) /\ Silence(c, op, generation) /\ UNCHANGED agent
  <2>1. \A g \in Gens : agent[g] \in Over
    BY <1>3, Alive
  <2>2. generation < generation'
    BY <1>0
  <2> QED  BY <1>0, <1>1, <1>2, <1>3, <2>1, <2>2, SilenceSafe
<1>4. CASE /\ AgentLive(agentTask)
           /\ agent' = [agent EXCEPT ![agentTask] = Signalled(@)]
           /\ caller' = [caller EXCEPT ![c] = InCall(op, "agent", agentTask, generation)]
           /\ UNCHANGED <<agentTask, agentRun, buffer, held, speaking>>
  <2>1. \A g \in Gens : agent'[g] \notin Working /\ (agent'[g] \notin Over => g = agentTask)
    <3>1. agentTask \in Gens
      BY <1>4 DEF TypeOK, AgentLive
    <3>2. \A g \in Gens \ {agentTask} : agent'[g] = agent[g] /\ agent[g] \in Over
      BY <1>4, Alive DEF TypeOK
    <3>3. agent'[agentTask] \in Unwinding
      BY <1>4, <3>1 DEF TypeOK, Signalled, Unwinding
    <3> QED  BY <3>2, <3>3 DEF Working, Over, Unwinding
  <2>2. UNCHANGED <<agentTask, buffer, held, queue, synth, output>>
    BY <1>4 DEF speaking
  <2>3. TaskInv'
    BY <2>1, <2>2 DEF TaskInv
  <2>4. CallInv'
    <3>1. caller'[c] = InCall(op, "agent", agentTask, generation)
          /\ \A d \in Callers \ {c} : caller'[d] = caller[d]
      BY <1>4, CallSays DEF TypeOK
    <3>2. \A d \in Callers : Interrupting(d)' => caller'[d].upto < generation'
      <4>1. caller'[c].upto < generation'
        BY <1>0, <3>1 DEF InCall
      <4>2. ASSUME NEW d \in Callers \ {c}, Interrupting(d)'
            PROVE  caller'[d].upto < generation'
        <5>1. caller[d].upto < generation /\ caller[d].upto \in Nat
          BY <3>1, <4>2, PastGens DEF Interrupting, Safe, CallInv
        <5> QED  BY <1>0, <3>1, <5>1
      <4> QED  BY <4>1, <4>2
    <3>3. /\ \A i \in DOMAIN queue' : queue'[i].gen # generation'
          /\ synth'.gen # generation'
      BY <1>1, <1>2, <2>2
    <3>4. \A d \in Callers :
             /\ caller'[d].pc = "agent" => agentTask' \in {None, caller'[d].awaits}
             /\ caller'[d].pc \in {"tts", "provider", "clearing"} => agentTask' = None
      BY <2>2, <3>1 DEF InCall, Safe, CallInv
    <3> QED  BY <2>1, <3>2, <3>3, <3>4 DEF CallInv
  <2>5. TextInv'
    <3>1. \A g \in Gens : agent'[g] \notin {"putting", "flushing"}
      BY <2>1 DEF Working
    <3>2. Recent(buffer)' /\ Recent(output)'
      BY <2>2 DEF Safe, TextInv, Recent
    <3>3. silenced' <= generation'
      BY <1>0 DEF Safe, TextInv
    <3>4. \A i \in DOMAIN queue' :
             queue'[i].gen <= generation' /\ queue'[i].gen # generation'
      <4> SUFFICES ASSUME NEW i \in DOMAIN queue
                   PROVE  queue[i].gen <= generation' /\ queue[i].gen # generation'
        BY <2>2
      <4>1. queue[i].gen \in Nat
        BY PastGens
      <4> QED  BY <1>0, <1>1, <4>1
    <3>5. synth'.gen <= generation' /\ synth'.gen # generation'
      BY <1>0, <1>2, <2>2, PastGens
    <3> QED  BY <2>1, <3>1, <3>2, <3>3, <3>4, <3>5 DEF TextInv
  <2> QED  BY <2>3, <2>4, <2>5 DEF Safe
<1> QED  BY <1>3, <1>4 DEF Interrupt

LEMMA AgentAwaitedSafe ==
    ASSUME TypeOK, Safe, NEW c \in Callers, AgentAwaited(c) PROVE Safe'
<1>1. /\ caller[c].pc = "agent" /\ ~AgentLive(caller[c].awaits)
      /\ Silence(c, caller[c].op, caller[c].upto)
      /\ UNCHANGED <<agent, silenced, generation>>
  BY DEF AgentAwaited
<1>2. Interrupting(c)
  BY <1>1 DEF Interrupting
<1>3. \A g \in Gens : agent[g] \in Over
  <2> SUFFICES ASSUME NEW g \in Gens, agent[g] \notin Over PROVE FALSE
    OBVIOUS
  <2>1. g = agentTask /\ AgentLive(agentTask)
    BY Alive
  <2>2. agentTask \in {None, caller[c].awaits}
    BY <1>1 DEF Safe, CallInv
  <2> QED  BY <1>1, <2>1, <2>2 DEF AgentLive
<1>4. /\ caller[c].upto < generation
      /\ \A i \in DOMAIN queue : queue[i].gen # generation
      /\ Voiced => synth.gen # generation
  BY <1>2 DEF Safe, CallInv
<1>5. caller[c].op \in Ops /\ caller[c].upto \in Gens \cup {None}
  BY CallFields DEF TypeOK
<1> QED  BY <1>1, <1>3, <1>4, <1>5, SilenceSafe

\* An interrupt goes on behind the agent task.
LEMMA InterruptGoesOn ==
    ASSUME TypeOK, Safe, NEW c \in Callers, Interrupting(c), caller[c].pc # "agent",
           NEW call, caller' = [caller EXCEPT ![c] = call],
           call.pc \in {"provider", "clearing"}, call.upto \in {None, caller[c].upto},
           \A i \in DOMAIN queue' : i \in DOMAIN queue /\ queue'[i] = queue[i],
           UNCHANGED <<agentTask, agent, synth, generation>>
    PROVE  TaskInv' /\ CallInv'
<1>1. caller'[c] = call /\ \A d \in Callers \ {c} : caller'[d] = caller[d]
  BY CallSays DEF TypeOK
<1>2. TaskInv' /\ (Voiced' <=> Voiced)
  BY DEF Safe, TaskInv, Voiced
<1>3. agentTask = None
  BY DEF Safe, CallInv, Interrupting, TypeOK, Calling
<1>4. call.upto < generation
  BY PastGens DEF Safe, CallInv, None
<1>5. \A d \in Callers \ {c} : Interrupting(d)' <=> Interrupting(d)
  BY <1>1 DEF Interrupting
<1> QED  BY <1>1, <1>2, <1>3, <1>4, <1>5 DEF Safe, CallInv

LEMMA TtsAwaitedSafe ==
    ASSUME TypeOK, Safe, NEW c \in Callers, TtsAwaited(c) PROVE Safe'
<1> DEFINE call == InCall(caller[c].op, "provider", None, caller[c].upto)
<1>1. /\ caller' = [caller EXCEPT ![c] = call] /\ Interrupting(c) /\ caller[c].pc # "agent"
      /\ call.pc = "provider" /\ call.upto = caller[c].upto
      /\ UNCHANGED <<agentTask, agent, buffer, held, queue, synth, output, silenced,
                     generation>>
  BY DEF TtsAwaited, Interrupting, responding, InCall
<1> HIDE DEF call
<1>2. TaskInv' /\ CallInv'
  BY <1>1, InterruptGoesOn
<1>3. TextInv'
  BY <1>1 DEF Safe, TextInv, Recent, Voiced
<1> QED  BY <1>2, <1>3 DEF Safe

LEMMA ClearSafe == ASSUME TypeOK, Safe, NEW c \in Callers, Clear(c) PROVE Safe'
<1> DEFINE call == InCall(caller[c].op, "clearing", None, None)
<1>1. /\ caller' = [caller EXCEPT ![c] = call] /\ Interrupting(c) /\ caller[c].pc # "agent"
      /\ call.pc = "clearing" /\ call.upto = None
      /\ buffer' = {} /\ queue' = <<>> /\ output' = {}
      /\ UNCHANGED <<agentTask, agent, held, synth, generation>>
  BY DEF Clear, Interrupting, InCall
<1> HIDE DEF call
<1>2. TaskInv' /\ CallInv'
  <2>1. \A i \in DOMAIN queue' : i \in DOMAIN queue /\ queue'[i] = queue[i]
    BY <1>1
  <2> QED  BY <1>1, <2>1, InterruptGoesOn
<1>3. TextInv'
  <2>1. \A g \in Gens : agent'[g] \notin Working
    BY <1>1 DEF Safe, CallInv
  <2>2. \A g \in Gens : agent'[g] \notin {"putting", "flushing"}
    BY <2>1 DEF Working
  <2>3. silenced' <= generation'
    <3>1. caller[c].upto < generation /\ caller[c].upto \in Nat /\ generation \in Nat
      BY <1>1, PastGens DEF Safe, CallInv
    <3> QED  BY <1>1, <3>1 DEF Clear, Safe, TextInv
  <2>4. synth'.gen <= generation' /\ (Voiced' => synth'.gen # generation')
    BY <1>1 DEF Safe, CallInv, TextInv, Voiced
  <2>5. Recent(buffer)' /\ Recent(output)' /\ DOMAIN queue' = {}
    BY <1>1 DEF Recent
  <2> QED  BY <2>1, <2>2, <2>3, <2>4, <2>5 DEF TextInv
<1> QED  BY <1>2, <1>3 DEF Safe

\* A response starts: no interrupt is under way, and no agent task is alive.
LEMMA RespondSafe ==
    ASSUME TypeOK, Safe, NEW c \in Callers, Respond(c), ~crossed', UNCHANGED silenced,
           \A g \in Gens : agent[g] \in Over
    PROVE  Safe'
<1>1. /\ generation' = generation + 1 /\ generation' \in Gens /\ generation \in Nat
      /\ agentTask' = generation'
      /\ agent' = [agent EXCEPT ![generation'] = "polling"]
      /\ UNCHANGED <<buffer, held, queue, synth, output>>
  BY SpeechAssumption DEF Respond, TypeOK, Gens, None, speaking
<1>2. \A g \in Gens \ {generation'} : agent'[g] \in Over
  BY <1>1 DEF TypeOK
<1>3. agent'[generation'] = "polling"
  BY <1>1 DEF TypeOK
<1>4. TaskInv'
  BY <1>1, <1>2 DEF TaskInv, Over, Working
<1>5. CallInv'
  <2>1. caller'[c] = NoCall /\ \A d \in Callers \ {c} : caller'[d] = caller[d]
    BY CallSays DEF Respond, TypeOK
  <2>2. \A d \in Callers \ {c} : ~Interrupting(d)
    BY DEF Respond
  <2>3. \A d \in Callers : ~Interrupting(d)'
    BY <2>1, <2>2 DEF Interrupting, NoCall, InCall
  <2> QED  BY <2>3 DEF CallInv, Interrupting
<1>6. TextInv'
  <2>1. silenced' <= generation' /\ silenced' < generation'
    BY <1>1, PastGens DEF Safe, TextInv
  <2>2. \A g \in Gens : agent'[g] \in Working => g > silenced'
    BY <1>1, <1>2, <2>1 DEF Over, Working, Gens, TypeOK
  <2>3. \A g \in Gens : agent'[g] \notin {"putting", "flushing"}
    BY <1>2, <1>3 DEF Over
  <2>4. Recent(buffer)' /\ Recent(output)'
    BY <1>1 DEF Safe, TextInv, Recent
  <2>5. \A i \in DOMAIN queue' :
           queue'[i].gen <= generation' /\ queue'[i].gen # generation'
    <3> SUFFICES ASSUME NEW i \in DOMAIN queue
                 PROVE  queue[i].gen <= generation' /\ queue[i].gen # generation'
      BY <1>1
    <3>1. queue[i].gen \in Nat /\ queue[i].gen <= generation
      BY PastGens
    <3> QED  BY <1>1, <3>1
  <2>6. synth'.gen <= generation' /\ synth'.gen # generation'
    <3>1. synth.gen \in Nat /\ synth.gen <= generation
      BY PastGens
    <3> QED  BY <1>1, <3>1
  <2> QED  BY <2>1, <2>2, <2>3, <2>4, <2>5, <2>6 DEF TextInv
<1> QED  BY <1>4, <1>5, <1>6 DEF Safe

LEMMA TranscriptSafe == ASSUME TypeOK, Safe, NEW c \in Callers, Transcript(c) PROVE Safe'
<1>1. CASE Interrupt(c, "barge")
  BY <1>1, InterruptSafe DEF Transcript, Ops
<1>2. CASE /\ caller' = [caller EXCEPT ![c] = Heard]
           /\ UNCHANGED <<responding, speaking, crossed, generation>>
  <2>1. Heard.pc \notin {"agent", "tts", "provider", "clearing"}
    BY DEF Heard, InCall
  <2>2. UNCHANGED <<agentTask, agent, buffer, held, queue, synth, output, silenced,
                    generation>>
    BY <1>2 DEF Transcript, responding, speaking
  <2> QED  BY <1>2, <2>1, <2>2, QuietCall
<1> QED  BY <1>1, <1>2 DEF Transcript

LEMMA StartAgentSafe ==
    ASSUME TypeOK, Safe, NEW c \in Callers, StartAgent(c), ~crossed' PROVE Safe'
<1>1. CASE AgentLive(agentTask) /\ Interrupt(c, "final")
  BY <1>1, InterruptSafe DEF StartAgent, Ops
<1>2. CASE ~AgentLive(agentTask) /\ Respond(c)
  <2>1. \A g \in Gens : agent[g] \in Over
    BY <1>2, Alive
  <2> QED  BY <1>2, <2>1, RespondSafe DEF StartAgent
<1> QED  BY <1>1, <1>2 DEF StartAgent

LEMMA InterruptReturnsSafe ==
    ASSUME TypeOK, Safe, NEW c \in Callers, InterruptReturns(c), ~crossed' PROVE Safe'
<1>1. CASE Respond(c)
  <2>1. agentTask = None
    BY DEF InterruptReturns, Safe, CallInv
  <2>2. \A g \in Gens : agent[g] \in Over
    BY <2>1, Alive DEF AgentLive
  <2> QED  BY <1>1, <2>2, RespondSafe DEF InterruptReturns
<1>2. CASE ~Respond(c)
  <2>1. /\ InCall("close", "cleanup", None, None).pc = "cleanup"
        /\ InCall("barge", "barged", None, None).pc = "barged" /\ NoCall.pc = "idle"
    BY DEF InCall, NoCall
  <2>2. \/ caller' = [caller EXCEPT ![c] = InCall("close", "cleanup", None, None)]
        \/ caller' = [caller EXCEPT ![c] = InCall("barge", "barged", None, None)]
        \/ caller' = [caller EXCEPT ![c] = NoCall]
    BY <1>2, Zenon DEF InterruptReturns
  <2>3. UNCHANGED <<agentTask, agent, buffer, held, queue, synth, output, silenced,
                    generation>>
    BY <1>2 DEF InterruptReturns, responding, speaking
  <2> QED  BY <2>1, <2>2, <2>3, QuietCall
<1> QED  BY <1>1, <1>2

LEMMA BargedSafe == ASSUME TypeOK, Safe, NEW c \in Callers, Barged(c) PROVE Safe'
<1>1. NoCall.pc = "idle" /\ Heard.pc = "heard"
  BY DEF NoCall, Heard, InCall
<1>2. \E call \in {NoCall, Heard} : caller' = [caller EXCEPT ![c] = call]
  BY DEF Barged
<1>3. UNCHANGED <<agentTask, agent, buffer, held, queue, synth, output, silenced, generation>>
  BY DEF Barged, responding, speaking
<1> QED  BY <1>1, <1>2, <1>3, QuietCall

LEMMA CleanUpSafe == ASSUME TypeOK, Safe, NEW c \in Callers, CleanUp(c) PROVE Safe'
<1>1. /\ synth' = NoSynth /\ caller' = [caller EXCEPT ![c] = NoCall]
      /\ UNCHANGED <<agentTask, agent, buffer, held, queue, output, silenced, generation>>
  BY DEF CleanUp, responding
<1>2. caller'[c] = NoCall /\ \A d \in Callers \ {c} : caller'[d] = caller[d]
  BY <1>1, CallSays DEF TypeOK
<1>3. synth'.gen <= generation /\ ~Voiced'
  BY <1>1, PastGens DEF NoSynth, Synthesis, Voiced, None
<1>4. TaskInv' /\ TextInv'
  BY <1>1, <1>3 DEF Safe, TaskInv, TextInv, Recent
<1>5. CallInv'
  <2>1. \A d \in Callers : Interrupting(d)' => d # c /\ Interrupting(d)
    BY <1>2 DEF Interrupting, NoCall, InCall
  <2>2. NoCall.pc = "idle"
    BY DEF NoCall, InCall
  <2> QED  BY <1>1, <1>2, <1>3, <2>1, <2>2 DEF Safe, CallInv
<1> QED  BY <1>4, <1>5 DEF Safe

\* Every step keeps the safety invariant, unless a response crosses an interrupt.
LEMMA NextSafe == ASSUME TypeOK, Safe, [Next]_vars, ~crossed' PROVE Safe'
<1>1. CASE \E g \in Gens : AgentStep(g) \/ RunEnds(g)
  BY <1>1, AgentStartsSafe, AgentEventSafe, AgentTextSafe, AgentPutSafe, AgentFlushSafe,
     AgentEndsSafe, AgentUnwindsSafe, RunEndsSafe DEF AgentStep
<1>2. CASE WorkerGets \/ SynthAudio \/ SynthSends \/ WorkerResumes
  BY <1>2, WorkerGetsSafe, SynthAudioSafe, SynthSendsSafe, WorkerResumesSafe
<1>3. CASE \E c \in Callers : CallStep(c) \/ Transcript(c) \/ HostInterrupts(c) \/ Close(c)
  <2>1. PICK c \in Callers : CallStep(c) \/ Transcript(c) \/ HostInterrupts(c) \/ Close(c)
    BY <1>3
  <2>2. CASE CallStep(c)
    BY <2>2, AgentAwaitedSafe, TtsAwaitedSafe, ClearSafe, StartAgentSafe,
       InterruptReturnsSafe, BargedSafe, CleanUpSafe DEF CallStep
  <2>3. CASE HostInterrupts(c) \/ Close(c)
    BY <2>3, InterruptSafe DEF HostInterrupts, Close, Ops
  <2> QED  BY <2>1, <2>2, <2>3, TranscriptSafe
<1>4. CASE UNCHANGED vars
  BY <1>4 DEF Safe, TaskInv, CallInv, TextInv, Recent, Voiced, Interrupting, vars,
              responding, speaking, calling
<1> QED  BY <1>1, <1>2, <1>3, <1>4 DEF Next

\* A history variable: a response that crossed an interrupt has crossed it.
LEMMA CrossedStays == [Next]_vars /\ crossed => crossed'
<1> SUFFICES ASSUME [Next]_vars, crossed PROVE crossed'
  OBVIOUS
<1>1. ASSUME NEW g \in Gens, AgentStep(g) \/ RunEnds(g) PROVE crossed'
  BY <1>1 DEF AgentStep, AgentStarts, AgentEvent, AgentText, AgentPut, AgentFlush, AgentEnds,
              AgentUnwinds, RunEnds, calling
<1>2. ASSUME WorkerGets \/ SynthAudio \/ SynthSends \/ WorkerResumes PROVE crossed'
  BY <1>2 DEF WorkerGets, SynthAudio, SynthSends, WorkerResumes, calling
<1>3. ASSUME NEW c \in Callers,
             CallStep(c) \/ Transcript(c) \/ HostInterrupts(c) \/ Close(c)
      PROVE  crossed'
  BY <1>3, Zenon
     DEF CallStep, AgentAwaited, TtsAwaited, Clear, StartAgent, InterruptReturns, Barged,
         CleanUp, Transcript, HostInterrupts, Close, Interrupt, Respond
<1>4. ASSUME UNCHANGED vars PROVE crossed'
  BY <1>4 DEF vars, calling
<1> QED  BY <1>1, <1>2, <1>3, <1>4 DEF Next

LEMMA InitSafe == Init => Safe
<1> SUFFICES ASSUME Init PROVE Safe
  OBVIOUS
<1>1. \A g \in Gens : agent[g] = "none"
  BY DEF Init
<1>2. \A c \in Callers : caller[c].pc = "idle"
  BY DEF Init, NoCall, InCall
<1>3. synth.gen = None /\ ~Voiced
  BY DEF Init, NoSynth, Synthesis, Voiced
<1>4. DOMAIN queue = {} /\ buffer = {} /\ output = {} /\ generation = 0 /\ silenced = 0
  BY DEF Init, None
<1>5. TaskInv
  BY <1>1 DEF TaskInv, Over, Working
<1>6. CallInv
  BY <1>2 DEF CallInv, Interrupting
<1>7. TextInv
  BY <1>1, <1>3, <1>4 DEF TextInv, Recent, Working, None
<1> QED  BY <1>5, <1>6, <1>7 DEF Safe

LEMMA SafeInvariant == Spec => []SafeInv
<1>1. Init => SafeInv
  BY InitSafe DEF SafeInv, Safe
<1>2. TypeOK /\ SafeInv /\ [Next]_vars => SafeInv'
  BY NextSafe, CrossedStays DEF SafeInv, Safe
<1> QED  BY <1>1, <1>2, SpeechTypeCorrect, PTL DEF Spec

-----------------------------------------------------------------------------
\* Once interrupt() has returned from clearing the transport, no text of a response
\* that it ended is rendered (session.py, interrupt), for any number of callers, any
\* queue and any sequence of calls in which no response crosses an interrupt.
THEOREM AudioIsCurrent == Spec => []NoStaleAudio
<1>1. SafeInv => NoStaleAudio
  BY DEF SafeInv, TextInv, Recent, NoStaleAudio
<1> QED  BY <1>1, SafeInvariant, PTL

\* No agent task is alive but the one that interrupt() and close() can reach through
\* _agent_task (session.py, _start_agent and interrupt), under the same premise.
THEOREM TasksAreTracked == Spec => []TasksTracked
<1>1. SafeInv => TasksTracked
  BY DEF SafeInv, TaskInv, TasksTracked, AgentLive
<1> QED  BY <1>1, SafeInvariant, PTL
=============================================================================
