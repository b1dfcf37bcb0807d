---------------------------- MODULE LocalTransport ----------------------------
(***************************************************************************)
(* Microphone and loudspeaker as one transport                             *)
(* (roboagent/interaction/speech/transport/local.py): chunks of audio go   *)
(* through a bounded queue to a worker that shows each to the observer and *)
(* then writes it to the device.  Whoever uses the transport first starts  *)
(* it, which takes two awaits; output is cleared, and the transport closed, *)
(* at any time.                                                            *)
(***************************************************************************)
EXTENDS Integers, Sequences, FiniteSets

CONSTANTS
    Users,           \* those who send audio: tasks
    MaxChunks,       \* bound: chunks sent, numbered
    PlaybackSize     \* playback_queue_size

ASSUME LocalTransportAssumption == MaxChunks \in Nat /\ PlaybackSize \in Nat \ {0}

VARIABLES
    senders,      \* what every user is doing
    playback,     \* _queue
    sent,         \* the number of chunks put into it
    workers,      \* the playback workers there are, each with its chunk
    theWorker,    \* _worker, by its index
    written,      \* history: the chunks written to the device
    cleared,      \* history: the chunks sent before the last clear_output
    transport     \* "open" or "closed"

transportVars ==
    <<senders, playback, sent, workers, theWorker, written, cleared, transport>>

Stop == 0

TransportInit ==
    /\ senders = [u \in Users |-> "idle"]
    /\ playback = <<>> /\ sent = 0 /\ workers = <<>> /\ theWorker = 0
    /\ written = <<>> /\ cleared = 0 /\ transport = "open"

-----------------------------------------------------------------------------
\* send_audio; receive_audio starts the transport alike.

\* _start: a transport that has a worker is started.
SendAudio(u) ==
    /\ senders[u] = "idle" /\ sent < MaxChunks
    /\ senders' = [senders EXCEPT ![u] = IF theWorker = 0 THEN "starting" ELSE "started"]
    /\ UNCHANGED <<playback, sent, workers, theWorker, written, cleared, transport>>

\* The devices have started: there is a worker, and it is this one, whoever else made one
\* meanwhile, and whether the transport has been closed.
DevicesStarted(u) ==
    /\ senders[u] = "starting"
    /\ workers' = Append(workers, [pc |-> "waits", chunk |-> Stop, born |-> transport])
    /\ theWorker' = Len(workers) + 1
    /\ senders' = [senders EXCEPT ![u] = "started"]
    /\ UNCHANGED <<playback, sent, written, cleared, transport>>

\* The oldest chunk makes room for the newest.
Dropping(queue) == IF Len(queue) = PlaybackSize THEN Tail(queue) ELSE queue

Enqueue(u) ==
    /\ senders[u] = "started"
    /\ sent' = sent + 1 /\ playback' = Append(Dropping(playback), sent + 1)
    /\ senders' = [senders EXCEPT ![u] = "idle"]
    /\ UNCHANGED <<workers, theWorker, written, cleared, transport>>

\* clear_output.
ClearOutput ==
    /\ playback' = <<>> /\ cleared' = sent
    /\ UNCHANGED <<senders, sent, workers, theWorker, written, transport>>

-----------------------------------------------------------------------------
\* _playback_worker: it takes a chunk, awaits the observer, and writes.
Take(w) ==
    /\ workers[w].pc = "waits" /\ playback # <<>>
    /\ playback' = Tail(playback)
    /\ workers' = [workers EXCEPT ![w] =
         IF Head(playback) = Stop THEN [@ EXCEPT !.pc = "ended"]
         ELSE [@ EXCEPT !.pc = "observes", !.chunk = Head(playback)]]
    /\ UNCHANGED <<senders, sent, theWorker, written, cleared, transport>>

WriteChunk(w) ==
    /\ workers[w].pc = "observes"
    /\ written' = Append(written,
         [chunk |-> workers[w].chunk,
          late |-> IF workers[w].chunk <= cleared THEN cleared ELSE 0,
          after |-> transport # "open", born |-> workers[w].born])
    /\ workers' = [workers EXCEPT ![w].pc = "waits"]
    /\ UNCHANGED <<senders, playback, sent, theWorker, cleared, transport>>

-----------------------------------------------------------------------------
\* close: the worker is told to stop, and cancelled wherever it waits.
CloseTransport ==
    /\ transport = "open" /\ transport' = "closed"
    /\ IF theWorker = 0 THEN UNCHANGED <<playback, workers>>
       ELSE /\ playback' = Append(Dropping(playback), Stop)
            /\ workers' = [workers EXCEPT ![theWorker].pc = "ended"]
    /\ UNCHANGED <<senders, sent, theWorker, written, cleared>>

TransportNext ==
    \/ \E u \in Users : SendAudio(u) \/ DevicesStarted(u) \/ Enqueue(u)
    \/ ClearOutput
    \/ \E w \in DOMAIN workers : Take(w) \/ WriteChunk(w)
    \/ CloseTransport

TransportSpec == TransportInit /\ [][TransportNext]_transportVars

-----------------------------------------------------------------------------
\* Properties.

\* local.py:54-98: what is played is played in order and once; of what was sent before the
\* output was cleared one chunk at most is still played, the one the worker has in hand; and
\* once the transport is closed nothing is, by a worker that was there when it was closed.
\* (A send_audio that was still starting the devices makes a worker after close, which
\* plays on: nobody stops that one.  And two users that start the transport at once make
\* two workers, of which close stops one: this is of a transport that has one.)
PlayedInOrder ==
    Len(workers) <= 1 =>
      \A i \in DOMAIN written :
         /\ written[i].after => written[i].born = "closed"
         /\ \A j \in 1..(i - 1) :
              /\ written[j].chunk < written[i].chunk
              /\ written[i].late # 0 => written[j].late # written[i].late
=============================================================================
