-------------------------------- MODULE Context --------------------------------
(***************************************************************************)
(* What the Model is shown of a Session (roboagent/context): a context     *)
(* manager selects from the transcript and from the World's entries, and   *)
(* the compacting one has the older part summarised when it grows beyond   *)
(* the budget; the loop waits for the summary and commits it to the        *)
(* Session.  A manager that does not compact has limits only when it is    *)
(* given some, or a World.  The transcript is a sequence of groups: a      *)
(* message, or a Tool exchange, that only makes sense as a whole.  An      *)
(* estimate is a sum of tokens.                                            *)
(***************************************************************************)
EXTENDS Integers, Sequences, FiniteSets

CONSTANTS
    Groups,        \* the groups a Run may append: tokens, messages, does it begin a turn
    Entries,       \* the World's entries, by rank: tokens, and are they protected
    MaxGroups,     \* bound: groups of a transcript
    InputBudget, Target,      \* _input_budget; what is left of it by target_ratio
    MinTurns,      \* min_recent_turns
    MaxMessages,   \* max_messages of the window
    MaxEntries,    \* entries shown however relevant they are: 64
    SummaryTokens  \* tokens of the summaries a summarizer may return

ASSUME ContextAssumption ==
    /\ \A n \in {MaxGroups, InputBudget, Target, MinTurns, MaxMessages, MaxEntries} : n \in Nat \ {0}
    /\ Target <= InputBudget /\ SummaryTokens \subseteq Nat
    /\ \A group \in Groups : group.tokens \in Nat /\ group.messages \in Nat
    /\ Len(Entries) \in Nat /\ DOMAIN Entries = 1..Len(Entries)
    /\ \A i \in DOMAIN Entries : Entries[i].tokens \in Nat

VARIABLES
    transcript,   \* the Session's messages, in groups
    summary,      \* _current_compaction: the groups it stands for, its tokens and its version
    manager,      \* the Agent's context manager, its summary_format_version, and what
                  \* limits it: nothing, a budget (or projection), or a World with a budget
    prepared,     \* the last PreparedContext, or the error
    writing       \* what prepare holds while the summarizer writes: the transcript and the
                  \* entries it read, where the summary is to end (0: nothing is written)
                  \* and the messages of the summary it found

contextVars == <<transcript, summary, manager, prepared, writing>>

Managers ==
    {m \in [kind : {"full", "window", "compacting"}, version : {1, 2}, limits : {"none", "budget", "world"}] :
        IF m.kind = "compacting" THEN m.limits # "none" ELSE m.version = 1}

NoSummary == [of |-> <<>>, tokens |-> 0, version |-> 0]
NotPrepared == [outcome |-> "none", entries |-> {}, summary |-> NoSummary, shown |-> <<>>,
                commits |-> FALSE, expected |-> <<>>]
NotWriting == [transcript |-> <<>>, entries |-> {}, end |-> 0, expected |-> <<>>]

ContextInit ==
    /\ transcript = <<>> /\ summary = NoSummary /\ prepared = NotPrepared
    /\ writing = NotWriting
    /\ manager \in Managers /\ manager.version = 1

-----------------------------------------------------------------------------
Tokens(groups) ==
    LET sum[n \in 0..Len(groups)] == IF n = 0 THEN 0 ELSE sum[n - 1] + groups[n].tokens
    IN sum[Len(groups)]
Messages(groups) ==
    LET sum[n \in 0..Len(groups)] == IF n = 0 THEN 0 ELSE sum[n - 1] + groups[n].messages
    IN sum[Len(groups)]

\* Entries are left out of the World's, and never put in another order: a set of ranks.
EntryTokens(entries) ==
    LET sum[n \in 0..Len(Entries)] ==
          IF n = 0 THEN 0 ELSE sum[n - 1] + (IF n \in entries THEN Entries[n].tokens ELSE 0)
    IN sum[Len(Entries)]

\* Estimate of a context: the summary's placeholder is the text of the one before.
Estimate(entries, old, groups) == EntryTokens(entries) + old.tokens + Tokens(groups)

\* _bounded_world_entries: the first ones, and all that are protected, of the World there is.
Protected == {i \in DOMAIN Entries : Entries[i].protected}
Shown == IF manager.limits = "world" THEN {i \in DOMAIN Entries : i <= MaxEntries} \cup Protected ELSE {}

\* The last of some entries, if there is one.
LastOf(entries) == {i \in entries : \A j \in entries : j <= i}

\* Variant: entries are left out from the last one, whatever they are.
LastOne(entries) == LastOf(entries)

\* The next entry to leave out: the last one that is not protected, if there is one.
Removable(entries) == LastOf(entries \ Protected)

\* The entries that are left when the context fits, or no more can be left out.
Fitted(old, groups) ==
    LET fit[n \in 0..Len(Entries)] ==
          IF n = 0 THEN Shown
          ELSE IF Estimate(fit[n - 1], old, groups) <= InputBudget THEN fit[n - 1]
          ELSE fit[n - 1] \ Removable(fit[n - 1])
    IN fit[Len(Entries)]

Fails(error) == prepared' = [NotPrepared EXCEPT !.outcome = error]
Prepares(entries, old, groups, commits, expected) ==
    prepared' = [outcome |-> "ok", entries |-> entries, summary |-> old, shown |-> groups,
                 commits |-> commits, expected |-> expected]

\* Variant: the loop goes on while the summary is being written.
InBackground == prepared.commits

\* The loop of the one Run that owns the Session waits for the summarizer, or for
\* commit_compaction.
Waiting == writing.end # 0 \/ prepared.commits

\* _project_segments: what the summary does not stand for.
Rest(old) == SubSeq(transcript, Len(old.of) + 1, Len(transcript))

\* _select_recent_groups: whole groups from the end, one at least.
Recent ==
    LET Fit(n) == n = 1 \/ Messages(SubSeq(transcript, Len(transcript) - n + 1, Len(transcript))) <= MaxMessages
        most == CHOOSE n \in 0..Len(transcript) :
                  /\ n = 0 \/ \A m \in 1..n : Fit(m)
                  /\ n = Len(transcript) \/ ~Fit(n + 1)
    IN SubSeq(transcript, Len(transcript) - most + 1, Len(transcript))

\* FullContextManager and WindowContextManager: without limits nothing is checked.
PrepareSimple ==
    /\ ~Waiting /\ manager.kind \in {"full", "window"}
    /\ LET old == IF manager.kind = "full" THEN summary ELSE NoSummary
           groups == IF manager.kind = "full" THEN Rest(summary) ELSE Recent
           entries == Fitted(old, groups)
       IN IF manager.limits = "none" \/ Estimate(entries, old, groups) <= InputBudget
          THEN Prepares(entries, old, groups, FALSE, <<>>)
          ELSE Fails("exceeded")
    /\ UNCHANGED <<transcript, summary, manager, writing>>

\* _valid_summary; a Session is restored only with a summary of its own transcript.
Begins(groups) == Len(groups) <= Len(transcript) /\ groups = SubSeq(transcript, 1, Len(groups))
Valid == summary.version = manager.version /\ Begins(summary.of)

\* _minimum_tail_start: what may be summarised lies before the last turns.
TurnStarts == {i \in DOMAIN transcript : transcript[i].turn}
TailStart ==
    LET last == {i \in TurnStarts : Cardinality({j \in TurnStarts : j >= i}) = MinTurns}
    IN IF last = {} THEN 1 ELSE CHOOSE i \in last : TRUE

\* The boundaries the summary may be extended to.
Ends(old) == Len(old.of) + 1 .. TailStart - 1

\* The first one at which it all fits in the target.
NewEnds(entries, old) ==
    LET Fit(n) == Estimate(entries, [tokens |-> IF old = NoSummary THEN 1 ELSE old.tokens],
                           SubSeq(transcript, n + 1, Len(transcript))) <= Target
    IN {n \in Ends(old) : Fit(n) /\ \A m \in Ends(old) : m < n => ~Fit(m)}

\* CompactingContextManager, as far as the summarizer, which is asked for a summary of
\* what its last one did not stand for.
PrepareCompacting ==
    /\ ~Waiting /\ manager.kind = "compacting"
    /\ LET old == IF Valid THEN summary ELSE NoSummary
           entries == Fitted(old, Rest(old))
           TooLarge(i) == Estimate(entries, NoSummary, <<transcript[i]>>) > InputBudget
           ends == NewEnds(entries, old)
       IN IF Estimate(entries, old, Rest(old)) <= InputBudget
          THEN Prepares(entries, old, Rest(old), old # summary, summary.of) /\ UNCHANGED writing
          ELSE IF \/ TailStart = 1
                  \/ \E i \in TailStart..Len(transcript) : TooLarge(i)
                  \/ ends = {}
          THEN Fails("exceeded") /\ UNCHANGED writing
          ELSE /\ prepared' = NotPrepared
               /\ \E end \in ends :
                    writing' = [transcript |-> transcript, entries |-> entries, end |-> end,
                                expected |-> summary.of]
    /\ UNCHANGED <<transcript, summary, manager>>

\* Variant: a summary is taken for as long as its placeholder.
TakenOnTrust(estimate) == TRUE

WithinTarget(estimate) == estimate <= Target

\* The summarizer answers, with a text that may be too long after all, or fails; what is
\* prepared is what was read before.
SummarizerAnswers ==
    /\ writing.end # 0
    /\ \/ Fails("summarizer")
       \/ \E tokens \in SummaryTokens :
            LET new == [of |-> SubSeq(writing.transcript, 1, writing.end), tokens |-> tokens,
                        version |-> manager.version]
                rest == SubSeq(writing.transcript, writing.end + 1, Len(writing.transcript))
            IN IF WithinTarget(Estimate(writing.entries, new, rest))
               THEN Prepares(writing.entries, new, rest, TRUE, writing.expected)
               ELSE Fails("exceeded")
    /\ writing' = NotWriting
    /\ UNCHANGED <<transcript, summary, manager>>

\* The loop: commit_compaction when there is an update, unless the summary is another one
\* than the update was made for, and then the context is prepared again; after it the turn
\* goes on with what the Model and its Tools append.  A Run that ends appends nothing.
CommitCompaction ==
    /\ prepared.commits
    /\ IF prepared.expected = summary.of
       THEN summary' = prepared.summary /\ prepared' = [prepared EXCEPT !.commits = FALSE]
       ELSE prepared' = NotPrepared /\ UNCHANGED summary
    /\ UNCHANGED <<transcript, manager, writing>>

AppendGroup ==
    /\ ~Waiting /\ Len(transcript) < MaxGroups
    /\ \E group \in Groups : transcript' = Append(transcript, group)
    /\ prepared' = NotPrepared
    /\ UNCHANGED <<summary, manager, writing>>

\* The Run fails or is cancelled, whatever it waits for, or the process restarts; the
\* Session is opened by another Agent.
Reopen ==
    /\ manager' \in Managers
    /\ prepared' = NotPrepared /\ writing' = NotWriting
    /\ UNCHANGED <<transcript, summary>>

ContextNext ==
    \/ PrepareSimple \/ PrepareCompacting \/ SummarizerAnswers \/ CommitCompaction
    \/ AppendGroup \/ Reopen

ContextSpec == ContextInit /\ [][ContextNext]_contextVars

-----------------------------------------------------------------------------
\* context/budget.py:219-365, context/world.py:202-270, loop.py:176-231: whatever is prepared
\* under a budget, projection or World fits in the Model's window, and what must not be lost
\* is not, though a summary is written while the Run waits: every entry that is uncertain
\* and relevant is shown; the messages shown end the transcript as it is now and, unless a
\* window cuts it, they and the summary make up all of it; and the last turns are among
\* them.  (A manager that is given none of the three checks nothing.)
NothingLost ==
    prepared.outcome = "ok" =>
      /\ manager.limits # "none" => Estimate(prepared.entries, prepared.summary, prepared.shown) <= InputBudget
      /\ manager.limits = "world" => Protected \subseteq prepared.entries
      /\ prepared.shown = SubSeq(transcript, Len(transcript) - Len(prepared.shown) + 1, Len(transcript))
      /\ manager.kind # "window" => prepared.summary.of \o prepared.shown = transcript
      /\ transcript # <<>> /\ manager.kind = "window" => prepared.shown # <<>>
      /\ prepared.commits /\ prepared.summary # NoSummary =>
           Cardinality(TurnStarts) - Cardinality({i \in DOMAIN prepared.summary.of : i \in TurnStarts})
             >= MinTurns

\* session.py:234-256 and the manager: a summary that was committed spares the next turn
\* another one: until something is appended it is used as it is, and it fits.
CompactionSettles ==
    prepared.outcome = "ok" /\ ~prepared.commits /\ manager.kind = "compacting" /\ Valid =>
      Estimate(Fitted(summary, Rest(summary)), summary, Rest(summary)) <= InputBudget
=============================================================================
