------------------------------ MODULE ApplyPatch ------------------------------
(***************************************************************************)
(* One call of the apply_patch Tool (roboagent/tool/apply_patch.py): the   *)
(* files of a patch are read, checked, staged, checked again and committed *)
(* one by one inside a settlement barrier, which rolls back what a failed  *)
(* commit has done.  The code never awaits on the way, but other processes *)
(* write to the same files, and any system call may fail.                  *)
(***************************************************************************)
EXTENDS Integers, Sequences, FiniteSets

CONSTANTS
    Files,          \* targets of the patch, in its order: 1..n
    MaxForeign      \* bound: writes by others

ASSUME ApplyPatchAssumption ==
    IsFiniteSet(Files) /\ Files # {} /\ Files = 1..Cardinality(Files) /\ MaxForeign \in Nat

VARIABLES
    op,         \* per file: what the patch does with it
    disk,       \* per file: its content, NoFile, or what somebody else wrote
    plan,       \* per file: the content read by _prepare, and whether its stage exists
    patch,      \* where the call is, and the fields of _PatchSettlement
    report,     \* what the executor is told: the outcome, and the effects by file
    foreign,    \* history: writes by others, and the files written since their last check
    applied,    \* history: files changed by the patch and not put back
    half,       \* history: files added by a link whose stage could not be unlinked
    clobbered   \* history: files where what somebody else wrote was overwritten unseen

patchVars == <<op, disk, plan, patch, report, foreign, applied, half, clobbered>>

NoFile == "absent"
After(p) == IF op[p] = "deleted" THEN NoFile ELSE "new"
NotRestored == {"committed", "unknown"}

PatchInit ==
    /\ op \in [Files -> {"added", "modified", "deleted"}]
    /\ disk \in [Files -> {NoFile, "old"}]
    /\ plan = [p \in Files |-> [before |-> NoFile, staged |-> FALSE]]
    /\ patch = [pc |-> "prepare", at |-> 1, committed |-> {}, failure |-> FALSE, forced |-> FALSE,
                states |-> [p \in Files |-> "none"], cancelled |-> FALSE, blocked |-> FALSE]
    /\ report = [outcome |-> "none", effects |-> {}]
    /\ foreign = [writes |-> 0, since |-> {}]
    /\ applied = {} /\ half = {} /\ clobbered = {}

PatchAt(pc) == patch.pc = pc
PatchGoto(pc) == patch' = [patch EXCEPT !.pc = pc]
PatchReturns(outcome, effects) ==
    /\ report' = [outcome |-> outcome, effects |-> effects]
    /\ patch' = [patch EXCEPT !.pc = "done"]

Staged == {p \in Files : plan[p].staged}
PatchKeeps == UNCHANGED <<op, half>>
FilesUntouched == UNCHANGED <<disk, applied, clobbered>>

\* unlink of the stages, in order: it stops at the first one that fails.
Unlinked(upTo) == plan' = [p \in Files |-> IF p < upTo THEN [plan[p] EXCEPT !.staged = FALSE] ELSE plan[p]]
AllUnlinked == Cardinality(Files) + 1

-----------------------------------------------------------------------------
\* Another process changes or removes a file.
ForeignWrite(p) ==
    /\ ~PatchAt("done") /\ foreign.writes < MaxForeign
    /\ \E content \in {NoFile, "other"} \ {disk[p]} :
         disk' = [disk EXCEPT ![p] = content]
    /\ foreign' = [writes |-> foreign.writes + 1, since |-> foreign.since \cup {p}]
    /\ applied' = applied \ {p}
    /\ UNCHANGED <<op, plan, patch, report, half, clobbered>>

\* The executor cancels the call: it is noticed before the barrier, or when it is left.
CancelPatch ==
    /\ ~PatchAt("done") /\ ~patch.cancelled
    /\ patch' = [patch EXCEPT !.cancelled = TRUE]
    /\ UNCHANGED <<op, disk, plan, report, foreign, applied, half, clobbered>>

Fits(p) == (op[p] = "added") <=> disk[p] = NoFile

\* _parse_patch, _prepare and the first _revalidate: every target is as the patch says;
\* what the patch and the files hold may be refused for its form, its size or its lines.
PreparePatch ==
    /\ PatchAt("prepare")
    /\ \/ /\ \A p \in Files : Fits(p)
          /\ plan' = [p \in Files |-> [before |-> disk[p], staged |-> FALSE]]
          /\ PatchGoto("stage") /\ UNCHANGED report
       \/ PatchReturns("refused", {}) /\ UNCHANGED plan
    /\ UNCHANGED foreign /\ PatchKeeps /\ FilesUntouched

\* _stage: a new content for every file but a deleted one, all or none.
StageAll ==
    /\ PatchAt("stage")
    /\ \/ /\ plan' = [p \in Files |-> [plan[p] EXCEPT !.staged = op[p] # "deleted"]]
          /\ PatchGoto("check") /\ UNCHANGED report
       \/ /\ plan' \in [Files -> [before : {NoFile}, staged : BOOLEAN]]
          /\ \A p \in Files : plan'[p].staged => op[p] # "deleted"
          /\ PatchReturns("refused", {})
    /\ UNCHANGED foreign /\ PatchKeeps /\ FilesUntouched

\* Variant: only the file's existence is checked again.
Assumed(p) == (disk[p] = NoFile) = (plan[p].before = NoFile)

\* _revalidate of one target, by digest.
Unchanged(p) == disk[p] = plan[p].before

\* The second _revalidate, and the check for cancellation, after which only the
\* barrier's handler may touch the stages.
Revalidate ==
    /\ PatchAt("check")
    /\ IF (\A p \in Files : Unchanged(p)) /\ ~patch.cancelled
       THEN /\ patch' = [patch EXCEPT !.pc = "commit", !.at = 1]
            /\ foreign' = [foreign EXCEPT !.since = {}]
            /\ UNCHANGED <<plan, report>>
       ELSE /\ \E n \in 1..AllUnlinked : Unlinked(n)
            /\ PatchReturns("refused", {}) /\ UNCHANGED foreign
    /\ PatchKeeps /\ FilesUntouched

-----------------------------------------------------------------------------
CommittedOne(p) ==
    patch' = [patch EXCEPT !.committed = @ \cup {p}, !.at = @ + 1,
                           !.pc = IF p = Cardinality(Files) THEN "cleanup" ELSE @]
CommitFails == patch' = [patch EXCEPT !.failure = TRUE, !.pc = "rollback", !.at = Cardinality(Files)]

\* The file is changed by the patch, or put back, over whatever is there now; known says
\* whether a check of the file since it was last written has looked at that.
WriteFile(p, content, changed, known) ==
    /\ disk' = [disk EXCEPT ![p] = content]
    /\ applied' = IF changed THEN applied \cup {p} ELSE applied \ {p}
    /\ clobbered' = IF known /\ disk[p] = "other" /\ plan[p].before # "other"
                    THEN clobbered \cup {p} ELSE clobbered

\* commit of an added file: a link, which refuses to overwrite, and then an unlink.
CommitAdded(p) ==
    \/ /\ disk[p] = NoFile
       /\ WriteFile(p, "new", TRUE, p \notin foreign.since)
       /\ \/ /\ CommittedOne(p) /\ plan' = [plan EXCEPT ![p].staged = FALSE]
             /\ UNCHANGED half
          \/ /\ CommitFails /\ half' = half \cup {p}
             /\ UNCHANGED plan
    \/ CommitFails /\ FilesUntouched /\ UNCHANGED <<plan, half>>

\* ... of a modified one, by os.replace, and of a deleted one, by unlink.
CommitOther(p) ==
    /\ \/ /\ op[p] = "deleted" => disk[p] # NoFile
          /\ WriteFile(p, After(p), TRUE, p \notin foreign.since)
          /\ CommittedOne(p) /\ plan' = [plan EXCEPT ![p].staged = FALSE]
       \/ CommitFails /\ FilesUntouched /\ UNCHANGED plan
    /\ UNCHANGED half

CommitOne(p) ==
    /\ PatchAt("commit") /\ patch.at = p
    /\ IF op[p] = "added" THEN CommitAdded(p) ELSE CommitOther(p)
    /\ UNCHANGED <<op, report, foreign>>

-----------------------------------------------------------------------------
\* rollback of one file that was committed, from the last one: put back only what
\* still is what the patch wrote.
Looked(p) == disk[p] = After(p)
NextBack(p) == IF p = 1 THEN "cleanup" ELSE "rollback"

\* A look that finds something else leaves it, and says so; a system call that fails
\* leaves the outcome to a second look.
RestoreOne(p) ==
    LET Verdict(state) ==
          patch' = [patch EXCEPT !.states[p] = state, !.at = @ - 1, !.pc = NextBack(p)] IN
    \/ Looked(p) /\ WriteFile(p, plan[p].before, FALSE, TRUE)
       /\ \E state \in {"restored", "unknown"} : Verdict(state)
    \/ ~Looked(p) /\ FilesUntouched
       /\ Verdict(IF op[p] = "deleted" /\ disk[p] = plan[p].before THEN "unchanged" ELSE "unknown")
    \/ FilesUntouched /\ Verdict("unknown")
    \/ FilesUntouched /\ Looked(p) /\ Verdict("committed")

\* rollback passes over files not committed, which are unchanged unless noted before,
\* and files put back already.
Rollback(p) ==
    /\ PatchAt("rollback") /\ patch.at = p
    /\ IF p \in patch.committed /\ patch.states[p] \notin {"restored", "unchanged"}
       THEN RestoreOne(p)
       ELSE /\ patch' = [patch EXCEPT !.states[p] = IF @ = "none" THEN "unchanged" ELSE @,
                                      !.at = @ - 1, !.pc = NextBack(p)]
            /\ FilesUntouched
    /\ UNCHANGED <<plan, report, foreign>> /\ PatchKeeps

Incomplete == \E p \in Files : patch.states[p] \in NotRestored

\* cleanup_staged and _raise_if_incomplete, in settle: if they raise, force_settle rolls
\* back whatever there is; and if they raise again the outcome is uncertain.
SettlePatch ==
    /\ PatchAt("cleanup")
    /\ \E n \in 1..AllUnlinked :
         LET raises == Incomplete \/ \E p \in Files : p >= n /\ plan[p].staged IN
         /\ Unlinked(n)
         /\ IF raises /\ ~patch.forced
            THEN patch' = [patch EXCEPT !.pc = "rollback", !.at = Cardinality(Files), !.forced = TRUE]
            ELSE patch' = [patch EXCEPT !.pc = "report", !.blocked = raises]
    /\ UNCHANGED <<report, foreign>> /\ PatchKeeps /\ FilesUntouched

\* failure_effects and _success_effect.
FailureEffects == {p \in Files : patch.states[p] \in NotRestored}

\* The end of apply: the barrier raises what its driver raised, else the cancellation.
ReportPatch ==
    /\ PatchAt("report")
    /\ CASE Incomplete -> PatchReturns("rollbackFailed", FailureEffects)
         [] ~Incomplete /\ (patch.forced \/ patch.failure) ->
              PatchReturns(IF patch.forced \/ ~patch.cancelled THEN "commitFailed" ELSE "cancelled", {})
         [] OTHER -> PatchReturns(IF patch.cancelled THEN "cancelled" ELSE "success", Files)
    /\ UNCHANGED <<plan, foreign>> /\ PatchKeeps /\ FilesUntouched

PatchNext ==
    \/ PreparePatch \/ StageAll \/ Revalidate \/ SettlePatch \/ ReportPatch \/ CancelPatch
    \/ \E p \in Files : CommitOne(p) \/ Rollback(p) \/ ForeignWrite(p)

PatchSpec == PatchInit /\ [][PatchNext]_patchVars

-----------------------------------------------------------------------------
\* apply_patch.py:586-670 and the rollback it documents: when the call is over, every
\* file that still is as the patch made it is among the effects it reports, whatever
\* failed and whenever it was cancelled; a success has changed every file nobody else
\* has changed since; and a commit that failed without effects has put the old content
\* of every file back.  (An added file whose stage could not be unlinked is the known
\* exception.)
PatchReported ==
    PatchAt("done") =>
      /\ applied \subseteq report.effects \cup half
      /\ report.outcome = "success" => Files \ foreign.since \subseteq applied /\ Staged = {}
      /\ report.outcome = "commitFailed" /\ foreign.writes = 0 =>
           \A p \in Files \ half : disk[p] = plan[p].before

\* _revalidate and the looks of rollback: what somebody else wrote to a file is never
\* lost if it was there at the last check of that file, neither to the commit nor to
\* the rollback that puts the old content back.
NobodyOverwritten == clobbered = {}

PatchKept == PatchReported /\ NobodyOverwritten
=============================================================================
