------------------------------ MODULE RealtimeTTS ------------------------------
(***************************************************************************)
(* Synthesis over a connection that is kept                                *)
(* (roboagent/interaction/speech/tts/dashscope.py).  A call of synthesize  *)
(* holds the lock, connects if there is no connection, registers a queue   *)
(* of its own, sends its text and reads the queue until its response is    *)
(* done.  The callbacks run on a thread of the service's library: they use *)
(* the queue that is registered when they come, and the loop delivers what *)
(* they post later.                                                        *)
(*                                                                         *)
(* External: a connection answers one commit after the other, a response   *)
(* ends with "done" also when it is cancelled, and a connection that broke *)
(* or was closed calls on_close once.                                      *)
(***************************************************************************)
EXTENDS Integers, Sequences, FiniteSets

CONSTANTS
    MaxCalls,          \* bound: calls of synthesize
    MaxConnections,    \* bound: connections
    MaxDeltas          \* bound: deltas on their way to a call

ASSUME RealtimeTTSAssumption ==
    MaxCalls \in Nat /\ MaxConnections \in Nat /\ MaxDeltas \in Nat

VARIABLES
    synthesis,      \* the call: its number, where it is, the connection it is making
    connections,    \* what became of each, and the calls whose responses it still owes
    client,         \* _client, by number
    registered,     \* _response_queue, by the call it belongs to
    posted,         \* call_soon_threadsafe, in order
    received,       \* the queue of the call
    ttsClosed,      \* _closed
    interrupted     \* history: a call ended otherwise than with its response

ttsVars == <<synthesis, connections, client, registered, posted, received, ttsClosed, interrupted>>

Nobody == 0
Call == synthesis.call

TTSInit ==
    /\ synthesis = [call |-> 0, pc |-> "none", connecting |-> 0, attempt |-> 0]
    /\ connections = <<>> /\ client = Nobody /\ registered = Nobody
    /\ posted = <<>> /\ received = <<>> /\ ttsClosed = FALSE /\ interrupted = FALSE

-----------------------------------------------------------------------------
\* synthesize.

GoesTo(pc) == synthesis' = [synthesis EXCEPT !.pc = pc]

\* The finally.
LeavesSynthesis(asDone) ==
    /\ GoesTo("none")
    /\ registered' = IF registered = Call THEN Nobody ELSE registered
    /\ interrupted' = (interrupted \/ ~asDone)

Dial(attempt, call) ==
    /\ Len(connections) < MaxConnections
    /\ connections' = Append(connections, [state |-> "opening", owes |-> <<>>])
    /\ synthesis' = [call |-> call, pc |-> "connect", connecting |-> Len(connections) + 1,
                     attempt |-> attempt]

\* The lock is taken; a connection that is there is used.
Synthesize ==
    /\ synthesis.pc = "none" /\ Call < MaxCalls /\ ~ttsClosed
    /\ IF client # Nobody
       THEN /\ synthesis' = [synthesis EXCEPT !.call = @ + 1, !.pc = "register"]
            /\ UNCHANGED connections
       ELSE Dial(1, Call + 1)
    /\ UNCHANGED <<client, registered, posted, received, ttsClosed, interrupted>>

\* _connect: also when close() was called meanwhile.
Connected ==
    /\ synthesis.pc = "connect" /\ connections[synthesis.connecting].state \in {"open", "gone"}
    /\ client' = synthesis.connecting /\ GoesTo("register")
    /\ UNCHANGED <<connections, registered, posted, received, ttsClosed, interrupted>>

\* An attempt fails and its client is closed; there are two.
ConnectFails ==
    /\ synthesis.pc = "connect"
    /\ LET n == synthesis.connecting
           left == [connections EXCEPT ![n].state = IF @ = "gone" THEN @ ELSE "closing"] IN
       IF synthesis.attempt = 1
       THEN /\ Len(connections) < MaxConnections
            /\ connections' = Append(left, [state |-> "opening", owes |-> <<>>])
            /\ synthesis' = [synthesis EXCEPT !.connecting = Len(connections) + 1, !.attempt = 2]
            /\ UNCHANGED <<registered, interrupted>>
       ELSE connections' = left /\ LeavesSynthesis(FALSE)
    /\ UNCHANGED <<client, posted, received, ttsClosed>>

\* The queue is registered before anything is sent.
RegisterQueue ==
    /\ synthesis.pc = "register"
    /\ IF client = Nobody
       THEN LeavesSynthesis(FALSE) /\ UNCHANGED received
       ELSE /\ registered' = Call /\ received' = <<>> /\ GoesTo("clear") /\ UNCHANGED interrupted
    /\ UNCHANGED <<connections, client, posted, ttsClosed>>

\* clear_appended_text, append_text and commit, on the client there is then.  One that is
\* gone raises.
Send ==
    /\ synthesis.pc \in {"clear", "append", "commit"}
    /\ IF client = Nobody \/ connections[client].state # "open"
       THEN LeavesSynthesis(FALSE) /\ UNCHANGED connections
       ELSE /\ GoesTo(CASE synthesis.pc = "clear" -> "append" [] synthesis.pc = "append" -> "commit"
                        [] OTHER -> "read")
            /\ connections' = IF synthesis.pc = "commit"
                              THEN [connections EXCEPT ![client].owes = Append(@, Call)]
                              ELSE connections
            /\ UNCHANGED <<registered, interrupted>>
    /\ UNCHANGED <<client, posted, received, ttsClosed>>

Read ==
    /\ synthesis.pc = "read" /\ received # <<>>
    /\ received' = Tail(received)
    /\ IF Head(received).kind = "delta"
       THEN UNCHANGED <<synthesis, registered, interrupted>>
       ELSE LeavesSynthesis(Head(received) = [kind |-> "done", of |-> Call])
    /\ UNCHANGED <<connections, client, posted, ttsClosed>>

\* The reader of the generator is cancelled, or closes it.
Abandon ==
    /\ synthesis.pc \in {"connect", "clear", "append", "commit", "read"} /\ LeavesSynthesis(FALSE)
    /\ UNCHANGED <<connections, client, posted, received, ttsClosed>>

\* close: nobody is registered any longer, and the client is closed.
CloseTTS ==
    /\ ~ttsClosed /\ ttsClosed' = TRUE
    /\ client' = Nobody /\ registered' = Nobody
    /\ connections' = IF client # Nobody /\ connections[client].state = "open"
                      THEN [connections EXCEPT ![client].state = "closing"] ELSE connections
    /\ UNCHANGED <<synthesis, posted, received, interrupted>>

-----------------------------------------------------------------------------
\* The connections and their callbacks.

Posts(item) ==
    posted' = IF registered = Nobody THEN posted
              ELSE Append(posted, [to |-> registered, item |-> item])

Opens(n) ==
    /\ connections[n].state = "opening"
    /\ connections' = [connections EXCEPT ![n].state = "open"]
    /\ UNCHANGED <<synthesis, client, registered, posted, received, ttsClosed, interrupted>>

\* on_event.
Responds(n) ==
    /\ connections[n].state = "open" /\ connections[n].owes # <<>>
    /\ \/ /\ Cardinality({i \in DOMAIN posted : posted[i].item.kind = "delta"})
               + Cardinality({i \in DOMAIN received : received[i].kind = "delta"}) < MaxDeltas
          /\ Posts([kind |-> "delta", of |-> Head(connections[n].owes)]) /\ UNCHANGED connections
       \/ /\ Posts([kind |-> "done", of |-> Head(connections[n].owes)])
          /\ connections' = [connections EXCEPT ![n].owes = Tail(@)]
    /\ UNCHANGED <<synthesis, client, registered, received, ttsClosed, interrupted>>

\* on_close, of whatever connection: there is no client any longer.
OnClose(n) ==
    /\ connections[n].state \in {"open", "closing"}
    /\ connections' = [connections EXCEPT ![n] = [state |-> "gone", owes |-> <<>>]]
    /\ client' = Nobody /\ Posts([kind |-> "error", of |-> Nobody])
    /\ UNCHANGED <<synthesis, registered, received, ttsClosed, interrupted>>

\* The loop runs what was posted; the queue of a call that ended is nobody's.
Deliver ==
    /\ posted # <<>> /\ posted' = Tail(posted)
    /\ received' = IF Head(posted).to = Call /\ synthesis.pc # "none"
                   THEN Append(received, Head(posted).item) ELSE received
    /\ UNCHANGED <<synthesis, connections, client, registered, ttsClosed, interrupted>>

TTSNext ==
    \/ Synthesize \/ Connected \/ ConnectFails \/ RegisterQueue \/ Send \/ Read
    \/ Abandon \/ CloseTTS
    \/ \E n \in DOMAIN connections : Opens(n) \/ Responds(n) \/ OnClose(n)
    \/ Deliver

TTSSpec == TTSInit /\ [][TTSNext]_ttsVars

-----------------------------------------------------------------------------
\* Properties.

\* dashscope.py:123-132: a call that reads an empty queue has something to come: it is
\* the one that is registered, and a connection owes a response or an on_close.  Only
\* close() leaves a reader waiting.
NeverDeaf ==
    (synthesis.pc = "read" /\ received = <<>> /\ ~ttsClosed
       /\ \A i \in DOMAIN posted : posted[i].to # Call)
    => /\ registered = Call
       /\ \E n \in DOMAIN connections :
            \/ connections[n].state = "open" /\ connections[n].owes # <<>>
            \/ connections[n].state = "closing"

\* dashscope.py:65-75: as long as every call has read its response to the end, what a
\* call receives is its own.  (A call that was cancelled leaves a response behind whose
\* deltas, and whose end, the next call takes for its own.)
OwnAudio ==
    ~interrupted => \A i \in DOMAIN received : received[i].of \in {Call, Nobody}

VoiceSound == NeverDeaf /\ OwnAudio
=============================================================================
