----------------------------- MODULE SpeechCapture -----------------------------
(***************************************************************************)
(* The capture half of a SpeechSession (interaction/speech/session.py):    *)
(* audio of the transport is queued, cut into frames and judged by the     *)
(* VAD; the turn detector opens and completes turns; each turn has an ASR  *)
(* session, fed by a writer task of its own, and committed once the writer *)
(* has written everything.  A consumer task per session reads transcripts. *)
(*                                                                         *)
(* Frames are named by the order in which they are processed.  Time only   *)
(* decides when silence, a turn's length or the idle timeout has run out.  *)
(* The VAD judges windows of 32 ms, frames hold 20 ms: 8 and 5 units.      *)
(***************************************************************************)
EXTENDS Integers, Sequences, SequencesExt

CONSTANTS
    AsrSize,       \* maxsize of a session's queue of audio
    PreRollSize,   \* frames the pre-roll holds
    StartWindows,  \* windows of speech that start an utterance
    StopWindows,   \* windows of silence that end it
    MaxCaptured,   \* bound: frames processed
    AsrSessions    \* bound: sessions made, one per turn: 1..n

Unit == [frame |-> 5, window |-> 8]

\* The pre-roll holds what the VAD needs to hear before it says so.
ASSUME CaptureAssumption ==
    /\ {AsrSize, PreRollSize, StartWindows, StopWindows} \subseteq Nat \ {0}
    /\ AsrSessions \subseteq Nat \ {0}
    /\ (PreRollSize - 1) * Unit.frame >= StartWindows * Unit.window

VARIABLES
    stopped,     \* the transport's stream is over and _STOP queued
    audio,       \* the audio task: where it is, frames it has yet to process, _STOP taken
    frames,      \* frames processed
    vad,         \* state, windows seen, units in its buffer
    detector,    \* _speaking, _quiet_since is set, last_turn_valid
    turnActive, preRoll,
    current,     \* _asr_session, 0 for none
    attached,    \* _asr_queue and _asr_writer_task, by the session they are of
    asr,         \* per session: its queue, its writer, its consumer and what it was sent
    ignored,     \* _ignored_asr_sessions
    onset,       \* history: the first frame of the utterance the VAD is hearing
    owed,        \* history: per session, the frames of its turn
    missed,      \* history: frames of a turn that had no session, or whose writer failed
    lost         \* history: frames taken off a full queue; _dropped_frames counts them

judging == <<vad, detector, onset>>
captureVars == <<stopped, audio, frames, judging, turnActive, preRoll, current, attached,
                 asr, ignored, owed, missed, lost>>

STOP == 0
NewAsr == [queue |-> <<>>, writer |-> "none", writing |-> STOP, sent |-> <<>>,
           consumer |-> "none", committed |-> FALSE]

CaptureInit ==
    /\ stopped = FALSE
    /\ audio = [pc |-> "getting", todo |-> 0, stopping |-> FALSE]
    /\ frames = 0 /\ onset = 0
    /\ vad = [state |-> "quiet", seen |-> 0, quiet |-> 0, units |-> 0]
    /\ detector = [speaking |-> FALSE, quiet |-> FALSE, valid |-> FALSE]
    /\ turnActive = FALSE /\ preRoll = <<>> /\ current = 0 /\ attached = 0
    /\ asr = [s \in AsrSessions |-> NewAsr]
    /\ ignored = {}
    /\ owed = [s \in AsrSessions |-> {}] /\ missed = {} /\ lost = {}

-----------------------------------------------------------------------------
\* run() once the transport's stream is over: what is queued is processed before _STOP.
AudioEnds ==
    /\ ~stopped /\ stopped' = TRUE
    /\ UNCHANGED <<audio, frames, judging, turnActive, preRoll, current, attached, asr,
                   ignored, owed, missed, lost>>

-----------------------------------------------------------------------------
\* _process_audio and _process_canonical_frame.

\* The audio task goes on with the frames it has, or gets the next chunk.
Onward(a) == [a EXCEPT !.pc = IF a.todo > 0 THEN "frames"
                              ELSE IF a.stopping THEN "stopping" ELSE "getting"]

\* The next chunk that a full _input_queue did not give up completes one frame or more.
GetAudio ==
    /\ audio.pc = "getting" /\ ~audio.stopping
    /\ \E n \in 1..2 :
          /\ frames + n <= MaxCaptured
          /\ audio' = Onward([audio EXCEPT !.todo = n])
    /\ UNCHANGED <<stopped, frames, judging, turnActive, preRoll, current, attached, asr,
                   ignored, owed, missed, lost>>

\* _STOP: what the assembler holds is padded to a frame.
GetStop ==
    /\ audio.pc = "getting" /\ stopped
    /\ \E n \in 0..1 :
          /\ frames + n <= MaxCaptured
          /\ audio' = Onward([audio EXCEPT !.todo = n, !.stopping = TRUE])
    /\ UNCHANGED <<stopped, frames, judging, turnActive, preRoll, current, attached, asr,
                   ignored, owed, missed, lost>>

\* SileroVAD._advance: one window of speech, or of none.
Advance(v, speech) ==
    IF speech
    THEN LET seen == IF v.state = "speaking" THEN 0 ELSE v.seen + 1 IN
         [v EXCEPT !.quiet = 0,
                   !.state = IF v.state = "speaking" \/ seen >= StartWindows
                             THEN "speaking" ELSE "starting",
                   !.seen = IF seen >= StartWindows THEN 0 ELSE seen]
    ELSE LET quiet == v.quiet + (IF v.state \in {"speaking", "stopping"} THEN 1 ELSE 0) IN
         [v EXCEPT !.seen = 0,
                   !.quiet = IF quiet >= StopWindows THEN 0 ELSE quiet,
                   !.state = IF v.state \in {"speaking", "stopping"} /\ quiet < StopWindows
                             THEN "stopping" ELSE "quiet"]

\* SileroVAD.process: a frame completes a window or not.  An utterance begins in the
\* frame that holds the first unit of its first window.
Judged(speech) ==
    LET units == vad.units + Unit.frame
        next == Advance(vad, speech)
        first == frames + 1 - (vad.units + Unit.frame - 1) \div Unit.frame
    IN IF units < Unit.window
       THEN vad' = [vad EXCEPT !.units = units] /\ UNCHANGED onset
       ELSE /\ vad' = [next EXCEPT !.units = units - Unit.window]
            /\ onset' = IF speech /\ vad.state \in {"quiet", "stopping"}
                        THEN first ELSE onset

\* TurnDetector.update: a turn starts with speech; it is complete when it has become
\* too long, or after silence.  _finish says whether it was long enough to count.
Detected(speaking, started, completed) ==
    /\ started = (speaking /\ ~detector.speaking)
    /\ completed => detector.speaking /\ (speaking \/ detector.quiet)
    /\ \E valid \in BOOLEAN :
          detector' = IF completed
                      THEN [speaking |-> FALSE, quiet |-> FALSE, valid |-> valid]
                      ELSE [detector EXCEPT !.speaking = (@ \/ speaking),
                                            !.quiet = (~speaking /\ detector.speaking)]

\* The pre-roll keeps the latest frames.
Rolled(f) == LET all == Append(preRoll, f) IN
             IF Len(all) > PreRollSize THEN Tail(all) ELSE all

\* _enqueue_asr: a full queue gives up its oldest frame.
Enqueued(queue, f) == Append(IF Len(queue) = AsrSize THEN Tail(queue) ELSE queue, f)
Dropped(queue) == IF Len(queue) = AsrSize THEN {Head(queue)} \ {STOP} ELSE {}

\* Frames enqueued one after the other into an empty queue: it keeps the latest.
EnqueuedAll(fs) ==
    IF Len(fs) > AsrSize THEN SubSeq(fs, Len(fs) - AsrSize + 1, Len(fs)) ELSE fs

\* A frame outside a turn, or of the turn under way; the turn may be complete with it.
Frame ==
    /\ audio.pc = "frames"
    /\ frames' = frames + 1
    /\ \E speech, started, completed \in BOOLEAN :
          /\ Judged(speech)
          /\ Detected(vad'.state = "speaking", started, completed)
          /\ IF started
             THEN /\ \E s \in AsrSessions : asr[s].writer = "none"
                  /\ audio' = [audio EXCEPT !.pc = "starting"]
                  /\ turnActive' = TRUE
                  /\ preRoll' = Rolled(frames')
                  /\ UNCHANGED <<asr, missed, lost, owed>>
             ELSE /\ IF turnActive /\ current # 0
                     THEN /\ asr' = [asr EXCEPT ![attached].queue = Enqueued(@, frames')]
                          /\ lost' = lost \cup Dropped(asr[attached].queue)
                          /\ owed' = [owed EXCEPT ![attached] = @ \cup {frames'}]
                          /\ UNCHANGED missed
                     ELSE /\ missed' = IF turnActive THEN missed \cup {frames'} ELSE missed
                          /\ UNCHANGED <<asr, lost, owed>>
                  /\ turnActive' = (turnActive /\ ~completed)
                  /\ preRoll' = IF completed THEN <<>>
                                 ELSE Rolled(frames')
                  /\ audio' = IF completed
                              THEN [audio EXCEPT !.pc = "completing", !.todo = @ - 1]
                              ELSE Onward([audio EXCEPT !.todo = @ - 1])
    /\ UNCHANGED <<stopped, current, attached, ignored>>

\* The event was emitted and the session of the turn started: it is sent the pre-roll.
\* A session that cannot be started ends the audio task.
StartAsr ==
    /\ audio.pc = "starting"
    /\ \/ /\ audio' = [audio EXCEPT !.pc = "dead"]
          /\ UNCHANGED <<current, attached, asr, owed, lost, preRoll>>
       \/ \E s \in AsrSessions :
          /\ asr[s].writer = "none"
          /\ \A t \in AsrSessions : t < s => asr[t].writer # "none"
          /\ current' = s /\ attached' = s
          /\ asr' = [asr EXCEPT ![s].writer = "getting", ![s].consumer = "reading",
                                ![s].queue = EnqueuedAll(preRoll)]
          /\ lost' = lost \cup
                (ToSet(preRoll) \ ToSet(EnqueuedAll(preRoll)))
          /\ owed' = [owed EXCEPT ![s] = onset..frames]
          /\ preRoll' = <<>>
          /\ audio' = Onward([audio EXCEPT !.todo = @ - 1])
    /\ UNCHANGED <<stopped, frames, judging, turnActive, ignored, missed>>

\* No audio arrives any more: the turn is over.  (After _STOP, it is too.)
Silent ==
    /\ \/ audio.pc = "getting" /\ detector.speaking
       \/ audio.pc = "stopping"
    /\ IF turnActive
       THEN /\ audio' = [audio EXCEPT !.pc = "completing"]
            /\ turnActive' = FALSE /\ preRoll' = <<>>
       ELSE /\ audio' = IF audio.pc = "stopping" THEN [audio EXCEPT !.pc = "done"]
                       ELSE audio
            /\ UNCHANGED <<turnActive, preRoll>>
    /\ IF audio.pc = "stopping" THEN UNCHANGED detector
       ELSE \E valid \in BOOLEAN :
               detector' = [speaking |-> FALSE, quiet |-> FALSE, valid |-> valid]
    /\ UNCHANGED <<stopped, frames, vad, onset, current, attached, asr, ignored,
                   owed, missed, lost>>

-----------------------------------------------------------------------------
\* _complete_turn and _finish_asr_turn; the writer and the consumer of a session.

\* SpeechStopped was emitted: the session of the turn, if it still has one, is to end.
FinishTurn ==
    /\ audio.pc = "completing"
    /\ IF current = 0
       THEN /\ audio' = Onward(audio)
            /\ UNCHANGED <<current, attached, asr, ignored, lost>>
       ELSE /\ ignored' = IF detector.valid THEN ignored ELSE ignored \cup {current}
            /\ asr' = [asr EXCEPT ![current].queue = Enqueued(@, STOP)]
            /\ lost' = lost \cup Dropped(asr[current].queue)
            /\ audio' = [audio EXCEPT !.pc = "finishing"]
            /\ attached' = current /\ current' = 0
    /\ UNCHANGED <<stopped, frames, judging, turnActive, preRoll, owed, missed>>

\* Variant: nobody waits for the writer.
AnyTime(s) == asr[s].writer # "none"

\* await writer
WriterOver(s) == asr[s].writer \in {"done", "failed"}

\* commit(), after the writer is over; its failure ends the audio task.
CommitAsr ==
    /\ audio.pc = "finishing" /\ WriterOver(attached)
    /\ \/ /\ audio' = Onward(audio)
          /\ asr' = [asr EXCEPT ![attached].committed = TRUE]
       \/ /\ audio' = [audio EXCEPT !.pc = "dead"]
          /\ UNCHANGED asr
    /\ attached' = 0
    /\ UNCHANGED <<stopped, frames, judging, turnActive, preRoll, current, ignored,
                   owed, missed, lost>>

\* _write_asr_audio: take the next frame, and write it.  A failure ends the writer.
WriteAsr(s) ==
    /\ \/ /\ asr[s].writer = "getting" /\ asr[s].queue # <<>>
          /\ asr' = [asr EXCEPT ![s].queue = Tail(@), ![s].writing = Head(asr[s].queue),
                                ![s].writer = IF Head(asr[s].queue) = STOP
                                              THEN "done" ELSE "writing"]
          /\ UNCHANGED missed
       \/ /\ asr[s].writer = "writing"
          /\ \/ /\ asr' = [asr EXCEPT ![s].sent = Append(@, asr[s].writing),
                                      ![s].writing = STOP, ![s].writer = "getting"]
                /\ UNCHANGED missed
             \/ /\ asr' = [asr EXCEPT ![s].writing = STOP, ![s].writer = "failed"]
                /\ missed' = missed \cup {asr[s].writing}
    /\ UNCHANGED <<stopped, audio, frames, judging, turnActive, preRoll, current, attached,
                   ignored, owed, lost>>

\* _consume_transcripts: a final transcript of a turn that was too short is dropped;
\* another one ends a session that is not persistent, which then takes no more of its turn.
HearFinal(s) ==
    /\ asr[s].consumer = "reading" /\ asr[s].sent # <<>>
    /\ IF s \in ignored
       THEN /\ ignored' = ignored \ {s}
            /\ asr' = [asr EXCEPT ![s].consumer = "done"]
       ELSE /\ asr' = [asr EXCEPT ![s].consumer = "closing"]
            /\ UNCHANGED ignored
    /\ UNCHANGED <<stopped, audio, frames, judging, turnActive, preRoll, current, attached,
                   owed, missed, lost>>

CloseAsr(s) ==
    /\ asr[s].consumer = "closing"
    /\ asr' = [asr EXCEPT ![s].consumer = "done"]
    /\ current' = IF current = s THEN 0 ELSE current
    /\ UNCHANGED <<stopped, audio, frames, judging, turnActive, preRoll, attached, ignored,
                   owed, missed, lost>>

CaptureNext ==
    \/ AudioEnds \/ GetAudio \/ GetStop \/ Frame \/ StartAsr \/ Silent
    \/ FinishTurn \/ CommitAsr
    \/ \E s \in AsrSessions : WriteAsr(s) \/ HearFinal(s) \/ CloseAsr(s)

CaptureSpec == CaptureInit /\ [][CaptureNext]_captureVars

-----------------------------------------------------------------------------
\* Properties.

Everything(s) == ToSet(asr[s].sent) \cup ToSet(asr[s].queue) \cup {asr[s].writing}

\* No frame is sent out of order or twice, to one recognition or to two: the pre-roll
\* of a turn holds nothing of the turn before it, and the writers of two turns never
\* share a queue.
SentOnce ==
    \A s \in AsrSessions :
       /\ \A i, j \in 1..Len(asr[s].sent) : i < j => asr[s].sent[i] < asr[s].sent[j]
       /\ \A t \in AsrSessions \ {s} : Everything(s) \cap Everything(t) \subseteq {STOP}

\* When the recognition of a turn is committed, it has been given the whole utterance,
\* from the first frame the VAD took for speech: but for frames counted as dropped,
\* those another turn was given, those its failed writer left, and those that came
\* after the recognition's own final transcript.
HeardWhole ==
    \A s \in AsrSessions : asr[s].committed =>
       owed[s] \subseteq missed \cup lost \cup ToSet(asr[s].sent)
                         \cup (UNION {Everything(t) : t \in AsrSessions \ {s}})
                         \cup (IF asr[s].writer = "failed" THEN ToSet(asr[s].queue) ELSE {})

CaptureSound == SentOnce /\ HeardWhole
=============================================================================
