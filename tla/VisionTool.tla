------------------------------ MODULE VisionTool ------------------------------
(***************************************************************************)
(* One call of an observation Tool (roboagent/interaction/vision/tools.py  *)
(* and semantic.py): it captures, has a Model analyse the image, estimates *)
(* and tracks, and publishes to the World, first the evidence and then the *)
(* claims.  At every await its task may be cancelled, the Run's token be   *)
(* set without that, and the executor give up and close the scope the call *)
(* journals to, while the call goes on.                                    *)
(*                                                                         *)
(* What is seen is left out (Vision, VisionWorld), and of usage all but    *)
(* whether a value is known.                                               *)
(***************************************************************************)
EXTENDS Integers, Sequences

VARIABLES
    observing,     \* the call: where it is and how it was set up
    token,         \* whether the Run's token is set
    scopeOpen,     \* whether the scope of the call still takes contributions
    usage,         \* the usage the observer of the Model's stream knows
    reports,       \* what contribute_usage was told
    effects,       \* the effects of the outcome, as made so far
    journal,       \* the effects the execution tree has
    committed      \* what the World has of this call: "evidence", "claims"

observingVars == <<observing, token, scopeOpen, usage, reports, effects, journal, committed>>

NewCall(world, tracker, run) ==
    [pc |-> "called", world |-> world, tracker |-> tracker, run |-> run, outcome |-> "none"]

ObservingInit ==
    /\ \E world, tracker, run \in BOOLEAN : observing = NewCall(world, tracker, run)
    /\ token = FALSE /\ scopeOpen = TRUE /\ usage = "unknown" /\ reports = <<>>
    /\ effects = {} /\ journal = {} /\ committed = {}

-----------------------------------------------------------------------------
\* How the call ends and goes on.

ConcludesAlone(outcome) == observing' = [observing EXCEPT !.pc = "ended", !.outcome = outcome]
Concludes(outcome) == ConcludesAlone(outcome) /\ UNCHANGED effects
GoesOnTo(pc) == observing' = [observing EXCEPT !.pc = pc] /\ UNCHANGED effects

\* fail: without a World adapter there are no effects to report.
FailObservation ==
    /\ ConcludesAlone("failed")
    /\ effects' = IF observing.world THEN effects \cup {"failed"} ELSE effects

\* A step that may fail: by a VisionError, or by what the host's code raises; and that
\* is followed by raise_if_cancelled.
MayFail == FailObservation \/ Concludes("raised")
Unless(goesOn) == IF token THEN Concludes("cancelled") ELSE goesOn

Unreported == UNCHANGED <<usage, reports>>
Uncommitted == UNCHANGED <<journal, committed>>

-----------------------------------------------------------------------------
\* Everybody else.

CancelObserving ==
    /\ observing.pc # "ended" /\ ~token /\ token' = TRUE
    /\ UNCHANGED <<observing, scopeOpen, effects>> /\ Unreported /\ Uncommitted

GiveUpObserving ==
    /\ observing.run /\ scopeOpen /\ scopeOpen' = FALSE
    /\ UNCHANGED <<observing, token, effects>> /\ Unreported /\ Uncommitted

-----------------------------------------------------------------------------
\* observe: until the Model is asked.

ResolveTarget ==
    /\ observing.pc = "called"
    /\ Unless(FailObservation \/ GoesOnTo("resolve"))
    /\ UNCHANGED <<token, scopeOpen>> /\ Unreported /\ Uncommitted

Capture ==
    /\ observing.pc = "resolve" /\ (MayFail \/ GoesOnTo("capture"))
    /\ UNCHANGED <<token, scopeOpen>> /\ Unreported /\ Uncommitted

\* The capture is there; analyze refuses it before it asks the Model, or asks.
Analyse ==
    /\ observing.pc = "capture"
    /\ Concludes("raised") \/ FailObservation \/ Unless(GoesOnTo("stream"))
    /\ UNCHANGED <<token, scopeOpen>> /\ Unreported /\ Uncommitted

-----------------------------------------------------------------------------
\* analyze: the Model's stream.

\* The finally of analyze: what is known is reported, whatever way it is left.  A scope
\* that is closed refuses, and that is what is raised then.
Reports(goesOn) ==
    IF ~observing.run THEN goesOn /\ UNCHANGED reports
    ELSE IF scopeOpen THEN goesOn /\ reports' = Append(reports, usage')
    ELSE Concludes("raised") /\ UNCHANGED reports

\* The observer of the stream: usage first, then the token and the limit of the output.
ModelEvent ==
    /\ observing.pc = "stream" /\ usage' \in {usage, "known"}
    /\ IF token THEN Reports(Concludes("cancelled"))
       ELSE \/ Reports(FailObservation)
            \/ GoesOnTo("stream") /\ UNCHANGED reports
    /\ UNCHANGED <<token, scopeOpen>> /\ Uncommitted

\* The stream fails or is too slow; or its response comes, with usage or without, and is
\* read: it may not be what was asked for.
ModelEnds ==
    /\ observing.pc = "stream"
    /\ \/ usage' = usage /\ (Reports(FailObservation) \/ Reports(Concludes("raised")))
       \/ /\ usage' \in {"known", "unknown"}
          /\ Reports(Unless(GoesOnTo("estimate"))) \/ Reports(Unless(FailObservation))
    /\ UNCHANGED <<token, scopeOpen>> /\ Uncommitted

-----------------------------------------------------------------------------
\* observe: estimates, the tracker, and publish until the World is asked.
EstimateAndTrack ==
    /\ observing.pc = "estimate"
    /\ \/ MayFail
       \/ Unless(IF ~observing.world THEN Concludes("returned")
                 ELSE IF observing.tracker THEN GoesOnTo("observe") ELSE FailObservation)
    /\ UNCHANGED <<token, scopeOpen>> /\ Unreported /\ Uncommitted

\* receipt_effect, and publish goes on: the effect is the outcome's, and at once the
\* execution's; a closed scope refuses it.
Receipt ==
    /\ effects' = effects \cup {"evidence"}
    /\ journal' = IF observing.run /\ scopeOpen THEN journal \cup {"evidence"} ELSE journal
    /\ IF observing.run /\ ~scopeOpen THEN ConcludesAlone("raised")
       ELSE IF token THEN ConcludesAlone("cancelled")
       ELSE observing' = [observing EXCEPT !.pc = "claims"]

\* World.observe returns or refuses.
CommitEvidence ==
    /\ observing.pc = "observe"
    /\ \/ FailObservation /\ Uncommitted
       \/ committed' = committed \cup {"evidence"} /\ Receipt
    /\ UNCHANGED <<token, scopeOpen>> /\ Unreported

\* World.add_claims returns or refuses.  Its receipt is told to nobody but the result.
CommitClaims ==
    /\ observing.pc = "claims"
    /\ \/ FailObservation /\ UNCHANGED committed
       \/ committed' = committed \cup {"claims"} /\ Concludes("returned")
    /\ UNCHANGED <<token, scopeOpen, journal>> /\ Unreported

\* The task is cancelled where it waits; in analyze usage is reported before.
Interrupted ==
    /\ observing.pc \in {"resolve", "capture", "stream", "estimate", "observe", "claims"}
    /\ IF observing.pc = "stream" THEN usage' = usage /\ Reports(Concludes("cancelled"))
       ELSE Concludes("cancelled") /\ Unreported
    /\ UNCHANGED <<token, scopeOpen>> /\ Uncommitted

ObservingNext ==
    \/ CancelObserving \/ GiveUpObserving
    \/ ResolveTarget \/ Capture \/ Analyse \/ ModelEvent \/ ModelEnds \/ EstimateAndTrack
    \/ CommitEvidence \/ CommitClaims \/ Interrupted

ObservingSpec == ObservingInit /\ [][ObservingNext]_observingVars

-----------------------------------------------------------------------------
\* Properties.

\* tools.py:69-85: what the World was told of is known to the execution, whoever cancels
\* the call and wherever: a call that ends as returned, failed or cancelled has journalled
\* the evidence it committed, claims are never added without that, and what is journalled
\* is in the outcome too.  The exception is a call the executor had given up.
EvidenceJournalled ==
    /\ "claims" \in committed => "evidence" \in committed
    /\ (observing.run /\ "claims" \in committed) => "evidence" \in journal
    /\ observing.pc = "ended" =>
         /\ (observing.run /\ "evidence" \in committed /\ journal = {}) =>
               observing.outcome = "raised" /\ ~scopeOpen
         /\ observing.outcome \in {"returned", "failed"} =>
               (committed # {} <=> "evidence" \in effects)
         /\ observing.outcome = "failed" => (observing.world <=> "failed" \in effects)

\* semantic.py:305-306: a call of the Model is accounted for once, however it ended, with
\* the usage that was known then; a call that ended before was not.
UsageReported ==
    /\ Len(reports) <= 1
    /\ (observing.pc \in {"estimate", "observe", "claims"} /\ observing.run) => reports = <<usage>>
    /\ usage = "known" /\ observing.run /\ observing.pc = "ended" =>
         reports = <<"known">> \/ (reports = <<>> /\ observing.outcome = "raised" /\ ~scopeOpen)

\* Both together.
ObservationAccounted == EvidenceJournalled /\ UsageReported
=============================================================================
