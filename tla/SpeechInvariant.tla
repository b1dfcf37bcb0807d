--------------------------- MODULE SpeechInvariant ---------------------------
(***************************************************************************)
(* The inductive invariant behind the theorems about Speech, for           *)
(* behaviours in which no response starts while an interrupt is under way. *)
(***************************************************************************)
EXTENDS Speech

\* An agent task that has not been cancelled, and one that has.
Working == {"polling", "reading", "texting", "putting", "flushing", "ending"}
Unwinding == {"cancelled", "settling", "leaving"}

\* A synthesis that may still hand audio to the transport.
Voiced == synth.pc \in {"streaming", "sending"}

\* One agent task is alive, the one _agent_task refers to; unless it was
\* cancelled, it is the current response's.
TaskInv ==
    \A g \in Gens :
        /\ agent[g] \notin Over => g = agentTask
        /\ agent[g] \in Working => g = generation

\* While an interrupt is under way nothing is spoken or produced for the current
\* generation, and past its first await no task is left.
CallInv ==
    \A c \in Callers :
        /\ Interrupting(c) =>
             /\ caller[c].upto < generation
             /\ \A g \in Gens : agent[g] \notin Working
             /\ \A i \in DOMAIN queue : queue[i].gen # generation
             /\ Voiced => synth.gen # generation
        /\ caller[c].pc = "agent" => agentTask \in {None, caller[c].awaits}
        /\ caller[c].pc \in {"tts", "provider", "clearing"} => agentTask = None

\* No text that can still reach the transport is of an interrupted response.
Recent(text) == \A g \in text : g > silenced

TextInv ==
    /\ silenced <= generation
    /\ \A g \in Gens : agent[g] \in Working => g > silenced
    /\ Recent(buffer) /\ Recent(output)
    /\ \A g \in Gens : agent[g] \in {"putting", "flushing"} => Recent(held[g])
    /\ \A i \in DOMAIN queue :
          /\ queue[i].gen <= generation
          /\ queue[i].gen = generation => Recent(queue[i].text)
    /\ synth.gen <= generation
    /\ Voiced /\ synth.gen = generation => Recent(synth.text)

SafeInv == ~crossed => TaskInv /\ CallInv /\ TextInv
=============================================================================
