-------------------------- MODULE ExecutionProofs --------------------------
(***************************************************************************)
(* Theorems about ExecutionTree, for any closers, barriers and limits: a   *)
(* scope is closed after the scope above it stopped accepting work and     *)
(* frozen after the scopes below it, and never before its settlements have *)
(* ended; first the inductive invariant behind them.  Then theorems about  *)
(* RunEvents, for any subscriptions and limits: no event is lost without   *)
(* being counted, and the terminal one never is; they rest on what a       *)
(* bounded queue of consecutive numbers is after one more.                 *)
(***************************************************************************)
EXTENDS ExecutionTree, RunEvents, SequenceTheorems, FiniteSetTheorems, WellFoundedInduction,
        TLAPS

\* What the phases of closers and barriers range over, and that a list of records that
\* is complete has room for the overflow record.
TypeInv ==
    /\ TreeTypeOK
    /\ closer \in [Closers -> [pc : {"idle", "settle", "take", "clean", "done"},
                               scope : Scopes, members : SUBSET Scopes,
                               at : 0..MaxScopes, holds : Nat]]
    /\ \A c \in Closers : closer[c].scope <= opened
    /\ barrier \in [Barriers -> [pc : {"none", "body", "waiting", "left"},
                                 driver : {"none", "settle", "force", "settled", "uncertain"},
                                 scope : Scopes, cancelled : BOOLEAN]]
    /\ records \in Seq(0..MaxScopes)
    /\ Complete => Len(records) < MaxRecords

\* The tree: a scope is its own ancestor, and so is whatever is an ancestor of one.
AncestryInv ==
    \A d \in 1..opened :
      /\ d \in scope[d].ancestors /\ scope[d].ancestors \subseteq 1..d
      /\ \A s \in scope[d].ancestors : scope[s].ancestors \subseteq scope[d].ancestors

\* What is closed, from the top down, and what is frozen, from the bottom up.
StateInv ==
    \A d \in 1..opened : \A s \in scope[d].ancestors :
      /\ scope[s].state # "open" => scope[d].state # "open"
      /\ scope[s].state = "frozen" => scope[d].state = "frozen"

\* A closer that is at work knows every scope below its own, although it listed them when
\* it began; and what it has visited is settled, and then frozen.
Working == {"settle", "take", "clean"}
CloserOk(c) ==
    closer[c].pc \in Working =>
      /\ closer[c].members = Below(closer[c].scope)
      /\ scope[closer[c].scope].state # "open"
      /\ \A d \in closer[c].members : d > closer[c].at =>
           IF closer[c].pc = "settle" THEN ~Settling(d) ELSE scope[d].state = "frozen"
      /\ closer[c].pc # "settle" => \A d \in closer[c].members : ~Settling(d)
      /\ closer[c].pc = "clean" => Rest(c) # {}

CloserInv == \A c \in Closers : CloserOk(c)

\* A barrier's driver runs while its caller waits, and says when it failed.
BarrierOk(b) ==
    /\ barrier[b].pc \in {"none", "body"} => barrier[b].driver = "none"
    /\ Driving(b) => barrier[b].pc = "waiting"
    /\ barrier[b].pc \in Inside => barrier[b].scope \in 1..opened
    /\ scope[barrier[b].scope].state = "frozen" => barrier[b].pc \notin Inside
    /\ barrier[b].driver = "uncertain" => <<"settlement", barrier[b].scope>> \in blockers

BarrierInv == \A b \in Barriers : BarrierOk(b)

TreeInv == TypeInv /\ AncestryInv /\ StateInv /\ CloserInv /\ BarrierInv

-----------------------------------------------------------------------------
\* Largest elements: of a set of scopes, and of what a closer has yet to visit.

LEMMA HasMax ==
    ASSUME NEW n \in Nat, NEW S, S \subseteq 0..n, S # {}
    PROVE  \E x \in S : \A y \in S : y <= x
<1> DEFINE R == {ss \in Nat \X Nat : ss[1] < ss[2]}
           T == {m \in Nat : n - m \in S}
<1>1. IsWellFoundedOn(R, Nat)
  BY NatLessThanWellFounded DEF OpToRel
<1>2. T # {} /\ T \subseteq Nat
  <2>1. PICK x \in S : TRUE
    OBVIOUS
  <2>2. n - x \in T
    BY <2>1
  <2> QED
    BY <2>2
<1>3. PICK m \in T : \A k \in T : ~ (<<k, m>> \in R)
  <2> HIDE DEF R, T
  <2> QED
    BY <1>1, <1>2, WFMin
<1>4. ASSUME NEW y \in S PROVE y <= n - m
  <2>1. n - y \in T
    BY <1>4
  <2>2. ~(n - y < m)
    BY <1>3, <2>1
  <2> QED
    BY <2>1, <2>2
<1> QED
  BY <1>3, <1>4

LEMMA CurrentFacts ==
    ASSUME TypeInv, NEW c \in Closers, Rest(c) # {}
    PROVE  /\ Current(c) \in closer[c].members /\ Current(c) <= closer[c].at
           /\ Current(c) \in 1..opened
           /\ \A d \in closer[c].members : d > Current(c) => d > closer[c].at
<1>1. /\ MaxScopes \in Nat /\ opened \in 1..MaxScopes
      /\ closer[c].members \subseteq 1..opened /\ closer[c].at \in 0..opened
  BY ExecutionTreeAssumption DEF TypeInv, TreeTypeOK, Scopes
<1>5. Rest(c) \subseteq 0..MaxScopes
  BY <1>1 DEF Rest
<1>2. \E x \in Rest(c) : \A y \in Rest(c) : y <= x
  BY <1>1, <1>5, HasMax
<1>3. Current(c) \in Rest(c) /\ \A e \in Rest(c) : e <= Current(c)
  BY <1>2 DEF Current
<1>4. ASSUME NEW d \in closer[c].members, d > Current(c) PROVE d > closer[c].at
  <2>1. Current(c) \in 0..MaxScopes /\ d \in 1..opened
    BY <1>1, <1>3, <1>5
  <2>2. d \notin Rest(c)
    BY <1>1, <1>3, <1>4, <2>1
  <2> QED
    BY <1>1, <2>1, <2>2 DEF Rest
<1> QED
  BY <1>1, <1>3, <1>4 DEF Rest

-----------------------------------------------------------------------------
\* Type correctness, with the limits that come with it.

ScopeStates == {"open", "closing", "frozen"}
ScopeRecords == [parent : 0..MaxScopes, ancestors : SUBSET Scopes, run : BOOLEAN,
                 depth : Nat, state : ScopeStates]
CloserRecords == [pc : {"idle", "settle", "take", "clean", "done"}, scope : Scopes,
                  members : SUBSET Scopes, at : 0..MaxScopes, holds : Nat]
BarrierRecords == [pc : {"none", "body", "waiting", "left"},
                   driver : {"none", "settle", "force", "settled", "uncertain"},
                   scope : Scopes, cancelled : BOOLEAN]

\* The parts of TypeInv, by the variables they are about.
LifecycleType ==
    /\ opened \in Scopes /\ scope \in [Scopes -> ScopeRecords]
    /\ used \in [runs : 0..MaxChildRuns, nested : 0..MaxNested]
CloserType ==
    /\ closer \in [Closers -> CloserRecords]
    /\ \A c \in Closers :
         /\ closer[c].at \in 0..opened /\ closer[c].members \subseteq 1..opened
         /\ closer[c].scope <= opened
RecordsType ==
    /\ records \in Seq(0..MaxScopes) /\ Len(records) <= MaxRecords
    /\ Complete => Len(records) < MaxRecords

LEMMA TypeParts ==
    TypeInv <=> /\ LifecycleType /\ CloserType /\ RecordsType
                /\ resources \in [Scopes -> Nat]
                /\ barrier \in [Barriers -> BarrierRecords]
  BY DEF TypeInv, TreeTypeOK, LifecycleType, CloserType, RecordsType, ScopeRecords, ScopeStates,
         CloserRecords, BarrierRecords

LEMMA TypePartsNext ==
    ASSUME LifecycleType', CloserType', RecordsType', (resources \in [Scopes -> Nat])',
           (barrier \in [Barriers -> BarrierRecords])'
    PROVE  TypeInv'
  BY DEF TypeInv, TreeTypeOK, LifecycleType, CloserType, RecordsType, ScopeRecords, ScopeStates,
         CloserRecords, BarrierRecords

LEMMA ScopesFacts ==
    /\ MaxScopes \in Nat \ {0} /\ Scopes = 1..MaxScopes /\ Root \in Scopes /\ Root = 1
    /\ MaxRecords \in Nat \ {0}
  BY ExecutionTreeAssumption DEF Scopes, Root

LEMMA InitType == TreeInit => TypeInv
<1> SUFFICES ASSUME TreeInit PROVE TypeInv
  OBVIOUS
<1>1. LifecycleType
  <2>1. Lineage(0, {Root}, TRUE, 0) \in ScopeRecords /\ Unopened \in ScopeRecords
    BY ScopesFacts DEF Lineage, Unopened, ScopeRecords, ScopeStates
  <2>2. used \in [runs : 0..MaxChildRuns, nested : 0..MaxNested]
    BY ExecutionTreeAssumption DEF TreeInit
  <2> QED
    BY <2>1, <2>2, ScopesFacts DEF LifecycleType, TreeInit
<1>2. CloserType
  <2>1. Idle \in CloserRecords /\ Idle.at = 1 /\ Idle.members = {} /\ Idle.scope = 1
    BY ScopesFacts DEF Idle, CloserRecords
  <2> QED
    BY <2>1 DEF CloserType, TreeInit
<1>3. RecordsType
  BY ScopesFacts DEF RecordsType, TreeInit
<1>4. barrier \in [Barriers -> BarrierRecords]
  BY ScopesFacts DEF TreeInit, BarrierRecords
<1> QED
  BY <1>1, <1>2, <1>3, <1>4, TypeParts DEF TreeInit

\* A new scope is the next one, and nobody's.
LEMMA NewScopeType ==
    ASSUME TypeInv, NEW p \in Scopes, NEW run \in BOOLEAN, NewScope(p, run),
           used' \in [runs : 0..MaxChildRuns, nested : 0..MaxNested]
    PROVE  TypeInv'
<1>1. LifecycleType /\ CloserType /\ opened \in Nat
  BY TypeParts, ScopesFacts DEF LifecycleType
<1>2. opened' = opened + 1 /\ opened' \in Scopes
  BY DEF NewScope
<1>3. Lineage(p, scope[p].ancestors \cup {opened'}, run,
              scope[p].depth + IF run THEN 1 ELSE 0) \in ScopeRecords
  <2>1. scope[p] \in ScopeRecords
    BY <1>1 DEF LifecycleType
  <2> QED
    BY <2>1, <1>2, ScopesFacts DEF Lineage, ScopeRecords, ScopeStates
<1>4. LifecycleType'
  <2> DEFINE l == Lineage(p, scope[p].ancestors \cup {opened'}, run,
                          scope[p].depth + IF run THEN 1 ELSE 0)
  <2>1. scope' = [scope EXCEPT ![opened'] = l]
    BY DEF NewScope
  <2>2. l \in ScopeRecords
    BY <1>3
  <2> HIDE DEF l
  <2> QED
    BY <1>1, <1>2, <2>1, <2>2 DEF LifecycleType
<1>5. CloserType'
  <2>1. closer' = closer
    BY DEF NewScope
  <2>2. \A c \in Closers : closer[c].scope \in Nat
    BY <1>1, ScopesFacts DEF CloserType, CloserRecords
  <2> QED
    BY <1>1, <1>2, <2>1, <2>2 DEF CloserType
<1>6. RecordsType' /\ resources' \in [Scopes -> Nat] /\ barrier' \in [Barriers -> BarrierRecords]
  BY TypeParts DEF NewScope, RecordsType, Complete, facts
<1> QED
  BY <1>4, <1>5, <1>6, TypePartsNext

LEMMA OpenToolType ==
    ASSUME TypeInv, NEW p \in Scopes, OpenTool(p) PROVE TypeInv'
<1>1. used' \in [runs : 0..MaxChildRuns, nested : 0..MaxNested]
  BY ExecutionTreeAssumption, TypeParts DEF LifecycleType, OpenTool
<1> QED
  BY <1>1, NewScopeType DEF OpenTool

LEMMA OpenChildRunType ==
    ASSUME TypeInv, NEW p \in Scopes, OpenChildRun(p) PROVE TypeInv'
<1>1. used' \in [runs : 0..MaxChildRuns, nested : 0..MaxNested]
  BY ExecutionTreeAssumption, TypeParts DEF LifecycleType, OpenChildRun
<1> QED
  BY <1>1, NewScopeType DEF OpenChildRun

LEMMA AddRecordType ==
    ASSUME TypeInv, NEW s \in Scopes, AddRecord(s) PROVE TypeInv'
<1>1. RecordsType /\ s \in 1..MaxScopes /\ Len(records) \in Nat /\ MaxRecords \in Nat \ {0}
  BY TypeParts, ScopesFacts DEF RecordsType
<1>2. RecordsType'
  <2>1. CASE ~Complete
    BY <1>1, <2>1 DEF AddRecord, RecordsType, Complete
  <2>2. CASE Complete /\ Len(records) < MaxRecords - 1
    <3>1. /\ records' = Append(records, s) /\ records' \in Seq(0..MaxScopes)
          /\ Len(records') = Len(records) + 1
      BY <1>1, <2>2 DEF AddRecord, RecordsAfter, RecordsType
    <3> QED
      BY <1>1, <2>2, <3>1 DEF RecordsType
  <2>3. CASE Complete /\ ~(Len(records) < MaxRecords - 1)
    <3>1. records' = Append(records, Overflow) /\ Overflow = 0
      BY <2>3 DEF AddRecord, RecordsAfter, Overflow
    <3>2. /\ records' \in Seq(0..MaxScopes) /\ Len(records') = Len(records) + 1
          /\ records'[Len(records) + 1] = Overflow
      BY <1>1, <3>1, ScopesFacts DEF RecordsType
    <3> QED
      BY <1>1, <2>3, <3>2 DEF RecordsType, Complete
  <2> QED
    BY <2>1, <2>2, <2>3
<1>3. LifecycleType' /\ CloserType' /\ resources' \in [Scopes -> Nat]
      /\ barrier' \in [Barriers -> BarrierRecords]
  BY TypeParts DEF AddRecord, lifecycle, LifecycleType, CloserType
<1> QED
  BY <1>2, <1>3, TypePartsNext

\* The steps that leave the tree alone.
LEMMA LeavesType ==
    ASSUME TypeInv, UNCHANGED <<lifecycle, closer, records>>,
           (resources \in [Scopes -> Nat])', (barrier \in [Barriers -> BarrierRecords])'
    PROVE  TypeInv'
<1>1. LifecycleType' /\ CloserType' /\ RecordsType'
  BY TypeParts DEF lifecycle, LifecycleType, CloserType, RecordsType, Complete
<1> QED
  BY <1>1, TypePartsNext

LEMMA RegisterResourceType ==
    ASSUME TypeInv, NEW s \in Scopes, RegisterResource(s) PROVE TypeInv'
<1>1. (resources \in [Scopes -> Nat])' /\ (barrier \in [Barriers -> BarrierRecords])'
  BY TypeParts DEF RegisterResource
<1> QED
  BY <1>1, LeavesType DEF RegisterResource, facts

LEMMA ContributeType ==
    ASSUME TypeInv, NEW s \in Scopes, NEW n \in 0..1, Contribute(s, n) PROVE TypeInv'
<1>1. (resources \in [Scopes -> Nat])' /\ (barrier \in [Barriers -> BarrierRecords])'
  BY TypeParts DEF Contribute
<1> QED
  BY <1>1, LeavesType DEF Contribute

LEMMA EnterSettlementType ==
    ASSUME TypeInv, NEW b \in Barriers, NEW s \in Scopes, EnterSettlement(b, s) PROVE TypeInv'
<1>1. (resources \in [Scopes -> Nat])' /\ (barrier \in [Barriers -> BarrierRecords])'
  BY TypeParts DEF EnterSettlement, BarrierRecords
<1> QED
  BY <1>1, LeavesType DEF EnterSettlement, facts

LEMMA BarrierStepType ==
    ASSUME TypeInv, NEW b \in Barriers, BarrierStep(b) \/ CancelCaller(b) PROVE TypeInv'
<1>1. barrier \in [Barriers -> BarrierRecords] /\ resources \in [Scopes -> Nat]
  BY TypeParts
<1>2. (resources \in [Scopes -> Nat])' /\ (barrier \in [Barriers -> BarrierRecords])'
  <2>1. CASE BodyEnds(b)
    BY <1>1, <2>1 DEF BodyEnds, BarrierRecords
  <2>2. CASE Settle(b)
    BY <1>1, <2>2 DEF Settle, DriverTo, BarrierRecords
  <2>3. CASE ForceSettle(b)
    BY <1>1, <2>3 DEF ForceSettle, DriverTo, BarrierRecords
  <2>4. CASE LeaveSettlement(b)
    BY <1>1, <2>4 DEF LeaveSettlement, BarrierTo, BarrierRecords
  <2>5. CASE CancelCaller(b)
    BY <1>1, <2>5 DEF CancelCaller, BarrierRecords
  <2> QED
    BY <2>1, <2>2, <2>3, <2>4, <2>5 DEF BarrierStep
<1>3. UNCHANGED <<lifecycle, closer, records>>
  BY DEF BarrierStep, BodyEnds, Settle, ForceSettle, LeaveSettlement, CancelCaller, facts
<1> QED
  BY <1>2, <1>3, LeavesType

\* The steps of closers: the tree keeps its shape.
SameShape ==
    /\ opened' = opened /\ used' = used
    /\ scope' \in [Scopes -> ScopeRecords]
    /\ \A d \in Scopes : scope'[d].ancestors = scope[d].ancestors

LEMMA ClosesType ==
    ASSUME TypeInv, SameShape, UNCHANGED <<barrier, records>>,
           (resources \in [Scopes -> Nat])', CloserType'
    PROVE  TypeInv'
<1>1. LifecycleType' /\ RecordsType' /\ (barrier \in [Barriers -> BarrierRecords])'
  BY TypeParts DEF SameShape, LifecycleType, RecordsType, Complete
<1> QED
  BY <1>1, TypePartsNext

\* A closer's step, given where it goes.
LEMMA CloserMoves ==
    ASSUME TypeInv, opened' = opened, NEW c \in Closers, NEW k \in CloserRecords,
           closer' = [closer EXCEPT ![c] = k],
           k.at \in 0..opened, k.members \subseteq 1..opened, k.scope <= opened
    PROVE  CloserType'
  BY TypeParts DEF CloserType

LEMMA ClosingShape ==
    ASSUME TypeInv, NEW s \in Scopes, UNCHANGED <<opened, used>>, scope' = Closing(s)
    PROVE  /\ SameShape
           /\ \A d \in Scopes :
                scope'[d].state = IF d \in Below(s) /\ scope[d].state = "open" THEN "closing"
                                  ELSE scope[d].state
<1>1. ASSUME NEW d \in Scopes
      PROVE  /\ scope'[d] \in ScopeRecords /\ scope'[d].ancestors = scope[d].ancestors
             /\ scope'[d].state = IF d \in Below(s) /\ scope[d].state = "open" THEN "closing"
                                  ELSE scope[d].state
  <2>1. scope[d] \in ScopeRecords
    BY TypeParts DEF LifecycleType
  <2>2. CASE d \in Below(s) /\ scope[d].state = "open"
    BY <2>1, <2>2 DEF Closing, ScopeRecords, ScopeStates
  <2>3. CASE ~(d \in Below(s) /\ scope[d].state = "open")
    BY <2>1, <2>3 DEF Closing
  <2> QED
    BY <2>2, <2>3
<1>2. scope' \in [Scopes -> ScopeRecords]
  <2>1. scope' = [d \in Scopes |-> scope'[d]]
    BY DEF Closing
  <2> QED
    BY <1>1, <2>1
<1> QED
  BY <1>1, <1>2 DEF SameShape

-----------------------------------------------------------------------------
\* What the parts of the invariant have to do with the others' steps.

\* Scopes only go forward, and nothing new is settled in one that does not accept work.
Forward ==
    \A d \in 1..opened :
      /\ scope[d].state # "open" => scope'[d].state # "open"
      /\ scope[d].state = "frozen" => scope'[d].state = "frozen"

NotResettled ==
    \A d \in 1..opened : scope[d].state # "open" /\ ~Settling(d) => ~Settling(d)'

LEMMA BelowKept ==
    ASSUME TypeInv, SameShape, NEW s \in Scopes
    PROVE  Below(s)' = Below(s)
<1>1. \A d \in 1..opened : d \in Scopes
  BY TypeParts, ScopesFacts DEF LifecycleType
<1> QED
  BY <1>1 DEF Below, SameShape

\* A new scope is below none that does not accept work.
LEMMA BelowNew ==
    ASSUME TypeInv, StateInv, AncestryInv, NEW p \in Scopes, NEW run, Open(p), NewScope(p, run),
           NEW s \in 1..opened, scope[s].state # "open"
    PROVE  Below(s)' = Below(s)
<1>1. opened \in 1..MaxScopes /\ opened' = opened + 1 /\ opened' \in 1..MaxScopes
      /\ p \in 1..opened /\ scope \in [Scopes -> ScopeRecords] /\ Scopes = 1..MaxScopes
  BY TypeParts, ScopesFacts DEF LifecycleType, NewScope, Open, Live
<1>2. scope'[opened'].ancestors = scope[p].ancestors \cup {opened'}
  BY <1>1 DEF NewScope, Lineage
<1>3. \A d \in 1..opened : scope'[d] = scope[d]
  BY <1>1 DEF NewScope
<1>4. s \notin scope[p].ancestors
  BY <1>1 DEF StateInv, Open
<1>5. opened' \notin Below(s)'
  BY <1>1, <1>2, <1>4 DEF Below
<1>6. ASSUME NEW d PROVE d \in Below(s)' <=> d \in Below(s)
  <2>1. CASE d \in 1..opened
    BY <1>1, <1>3, <2>1 DEF Below
  <2>2. CASE d \notin 1..opened
    BY <1>1, <1>5, <2>2 DEF Below
  <2> QED
    BY <2>1, <2>2
<1> QED
  BY <1>6

\* A closer that is left alone.
LEMMA CloserKept ==
    ASSUME TypeInv, NEW c \in Closers, CloserOk(c), closer'[c] = closer[c],
           Forward, NotResettled,
           closer[c].pc \in Working => Below(closer[c].scope)' = Below(closer[c].scope),
           AncestryInv, StateInv
    PROVE  CloserOk(c)'
<1> SUFFICES ASSUME closer[c].pc \in Working PROVE CloserOk(c)'
  BY DEF CloserOk
<1>1. /\ closer[c].members = Below(closer[c].scope)
      /\ closer[c].members \subseteq 1..opened
      /\ closer[c].scope \in 1..opened /\ scope[closer[c].scope].state # "open"
  BY TypeParts, ScopesFacts DEF CloserOk, CloserType, CloserRecords
<1>2. \A d \in closer[c].members : scope[d].state # "open"
  BY <1>1 DEF StateInv, Below
<1>3. (Below(closer[c].scope))' = Below(closer[c].scope)
  <2>1. closer'[c].scope = closer[c].scope
    OBVIOUS
  <2> QED
    BY <2>1 DEF Below
<1>4. scope'[closer[c].scope].state # "open"
  BY <1>1 DEF Forward
<1>5. \A d \in closer[c].members : d > closer[c].at =>
         IF closer[c].pc = "settle" THEN ~Settling(d)' ELSE scope'[d].state = "frozen"
  BY <1>1, <1>2 DEF Forward, NotResettled, CloserOk
<1>6. closer[c].pc # "settle" => \A d \in closer[c].members : ~Settling(d)'
  BY <1>1, <1>2 DEF NotResettled, CloserOk
<1>7. Rest(c)' = Rest(c)
  BY DEF Rest
<1> QED
  BY <1>1, <1>3, <1>4, <1>5, <1>6, <1>7 DEF CloserOk

\* Barriers that are left alone, when nothing more is frozen.
LEMMA BarriersKept ==
    ASSUME TypeInv, BarrierInv, barrier' = barrier, blockers \subseteq blockers',
           opened \in Nat, opened' \in Nat, opened' >= opened,
           \A d \in 1..opened : scope'[d].state = "frozen" => scope[d].state = "frozen"
    PROVE  BarrierInv'
<1> SUFFICES ASSUME NEW b \in Barriers PROVE BarrierOk(b)'
  BY DEF BarrierInv
<1>1. BarrierOk(b) /\ (Driving(b))' = Driving(b)
  BY DEF BarrierInv, Driving
<1>2. barrier[b].pc \in Inside => barrier[b].scope \in 1..opened'
  BY <1>1 DEF BarrierOk
<1>3. scope'[barrier[b].scope].state = "frozen" => barrier[b].pc \notin Inside
  BY <1>1 DEF BarrierOk
<1> QED
  BY <1>1, <1>2, <1>3 DEF BarrierOk

LEMMA TreeShapeKept ==
    ASSUME TypeInv, AncestryInv, SameShape PROVE AncestryInv'
<1>1. \A d \in 1..opened : d \in Scopes /\ 1..d \subseteq 1..opened
  BY TypeParts, ScopesFacts DEF LifecycleType
<1> QED
  BY <1>1 DEF AncestryInv, SameShape

-----------------------------------------------------------------------------
\* The invariant is inductive, action by action.

LEMMA InitSafe == TreeInit => TreeInv
<1> SUFFICES ASSUME TreeInit PROVE TreeInv
  OBVIOUS
<1>1. TypeInv
  BY InitType
<1>2. opened = 1 /\ scope[Root] = Lineage(0, {Root}, TRUE, 0) /\ Root = 1
  BY ScopesFacts DEF TreeInit
<1>3. AncestryInv /\ StateInv
  BY <1>2 DEF AncestryInv, StateInv, Lineage
<1>4. CloserInv
  BY DEF CloserInv, CloserOk, TreeInit, Idle, Working
<1>5. BarrierInv
  BY DEF BarrierInv, BarrierOk, TreeInit, Driving, Inside
<1> QED
  BY <1>1, <1>3, <1>4, <1>5 DEF TreeInv

LEMMA NewScopeSafe ==
    ASSUME TreeInv, NEW p \in Scopes, NEW run \in BOOLEAN, Open(p), NewScope(p, run), TypeInv'
    PROVE  TreeInv'
<1>1. /\ opened \in 1..MaxScopes /\ opened' = opened + 1 /\ opened' \in 1..MaxScopes
      /\ p \in 1..opened /\ scope \in [Scopes -> ScopeRecords] /\ Scopes = 1..MaxScopes
  BY TypeParts, ScopesFacts DEF TreeInv, LifecycleType, NewScope, Open, Live
<1>2. /\ scope'[opened'].ancestors = scope[p].ancestors \cup {opened'}
      /\ scope'[opened'].state = "open"
  BY <1>1 DEF NewScope, Lineage
<1>3. \A d \in 1..opened : scope'[d] = scope[d]
  BY <1>1 DEF NewScope
<1>4. \A a \in scope[p].ancestors : a \in 1..opened /\ scope[a].state = "open"
  BY <1>1 DEF TreeInv, AncestryInv, StateInv, Open
<1>5. AncestryInv'
  <2>1. ASSUME NEW d \in 1..opened
        PROVE  /\ d \in scope'[d].ancestors /\ scope'[d].ancestors \subseteq 1..d
               /\ \A s \in scope'[d].ancestors : scope'[s].ancestors \subseteq scope'[d].ancestors
    BY <1>1, <1>3 DEF TreeInv, AncestryInv
  <2>2. /\ opened' \in scope'[opened'].ancestors /\ scope'[opened'].ancestors \subseteq 1..opened'
        /\ \A s \in scope'[opened'].ancestors :
              scope'[s].ancestors \subseteq scope'[opened'].ancestors
    BY <1>1, <1>2, <1>3, <1>4 DEF TreeInv, AncestryInv
  <2> QED
    BY <1>1, <2>1, <2>2 DEF AncestryInv
<1>6. StateInv'
  <2>1. ASSUME NEW d \in 1..opened, NEW s \in scope'[d].ancestors
        PROVE  /\ scope'[s].state # "open" => scope'[d].state # "open"
               /\ scope'[s].state = "frozen" => scope'[d].state = "frozen"
    BY <1>1, <1>3, <2>1 DEF TreeInv, AncestryInv, StateInv
  <2>2. \A s \in scope'[opened'].ancestors : scope'[s].state = "open"
    BY <1>2, <1>3, <1>4
  <2> QED
    BY <1>1, <2>1, <2>2 DEF StateInv
<1>7. CloserInv'
  <2> SUFFICES ASSUME NEW c \in Closers PROVE CloserOk(c)'
    BY DEF CloserInv
  <2>1. closer'[c] = closer[c] /\ barrier' = barrier
    BY DEF NewScope
  <2>2. Forward /\ NotResettled
    BY <1>3, <2>1 DEF Forward, NotResettled, Settling
  <2>3. ASSUME closer[c].pc \in Working
        PROVE  Below(closer[c].scope)' = Below(closer[c].scope)
    <3>1. closer[c].scope \in 1..opened /\ scope[closer[c].scope].state # "open"
      BY <1>1, <2>3, TypeParts DEF TreeInv, CloserInv, CloserOk, CloserType, CloserRecords
    <3>2. \A s \in 1..opened : scope[s].state # "open" => Below(s)' = Below(s)
      BY BelowNew DEF TreeInv
    <3> QED
      BY <2>1, <3>1, <3>2 DEF Below
  <2> QED
    BY <2>1, <2>2, <2>3, CloserKept DEF TreeInv, CloserInv
<1>8. BarrierInv'
  BY <1>1, <1>3, BarriersKept DEF TreeInv, NewScope
<1> QED
  BY <1>5, <1>6, <1>7, <1>8 DEF TreeInv

\* A step that concerns neither scopes nor barriers: only a closer may move.
LEMMA ScopesKept ==
    ASSUME TreeInv, TypeInv', UNCHANGED <<opened, scope, used, barrier>>,
           blockers \subseteq blockers',
           \A c \in Closers : closer'[c] = closer[c] \/ CloserOk(c)'
    PROVE  TreeInv'
<1>1. opened \in Nat
  BY TypeParts, ScopesFacts DEF TreeInv, LifecycleType
<1>2. AncestryInv' /\ StateInv'
  BY DEF TreeInv, AncestryInv, StateInv
<1>3. BarrierInv'
  BY <1>1, BarriersKept DEF TreeInv
<1>4. Forward /\ NotResettled
  BY DEF Forward, NotResettled, Settling
<1>5. CloserInv'
  <2> SUFFICES ASSUME NEW c \in Closers, closer'[c] = closer[c] PROVE CloserOk(c)'
    BY DEF CloserInv
  <2>1. Below(closer[c].scope)' = Below(closer[c].scope)
    BY DEF Below
  <2> QED
    BY <1>4, <2>1, CloserKept DEF TreeInv, CloserInv
<1> QED
  BY <1>2, <1>3, <1>5 DEF TreeInv

\* A step of one barrier, or of whoever enters one in a scope that accepts work.
LEMMA BarrierSafe ==
    ASSUME TreeInv, TypeInv', NEW b \in Barriers,
           UNCHANGED <<opened, scope, used, closer>>, blockers \subseteq blockers',
           \A a \in Barriers : a # b => barrier'[a] = barrier[a],
           BarrierOk(b)',
           barrier'[b].pc \in Inside =>
              \/ barrier[b].pc \in Inside /\ barrier'[b].scope = barrier[b].scope
              \/ Open(barrier'[b].scope)
    PROVE  TreeInv'
<1>1. AncestryInv' /\ StateInv'
  BY DEF TreeInv, AncestryInv, StateInv
<1>2. BarrierInv'
  <2> SUFFICES ASSUME NEW a \in Barriers, a # b PROVE BarrierOk(a)'
    BY DEF BarrierInv
  <2>1. barrier'[a] = barrier[a] /\ BarrierOk(a)
    BY DEF TreeInv, BarrierInv
  <2> QED
    BY <2>1 DEF BarrierOk, Driving
<1>3. Forward /\ NotResettled
  <2>1. ASSUME NEW d \in 1..opened, scope[d].state # "open", ~Settling(d) PROVE ~Settling(d)'
    BY <2>1 DEF Settling, Open
  <2> QED
    BY <2>1 DEF Forward, NotResettled
<1>4. CloserInv'
  <2> SUFFICES ASSUME NEW c \in Closers PROVE CloserOk(c)'
    BY DEF CloserInv
  <2>1. closer'[c] = closer[c] /\ Below(closer[c].scope)' = Below(closer[c].scope)
    BY DEF Below
  <2> QED
    BY <1>3, <2>1, CloserKept DEF TreeInv, CloserInv
<1> QED
  BY <1>1, <1>2, <1>4 DEF TreeInv

LEMMA EnterSettlementSafe ==
    ASSUME TreeInv, NEW b \in Barriers, NEW s \in Scopes, EnterSettlement(b, s) PROVE TreeInv'
<1>1. TypeInv'
  BY EnterSettlementType DEF TreeInv
<1>2. barrier \in [Barriers -> BarrierRecords] /\ BarrierOk(b)
  BY TypeParts DEF TreeInv, BarrierInv
<1>3. /\ barrier'[b] = [barrier[b] EXCEPT !.pc = "body", !.scope = s]
      /\ \A a \in Barriers : a # b => barrier'[a] = barrier[a]
  BY <1>2 DEF EnterSettlement
<1>4. /\ barrier'[b].pc = "body" /\ barrier'[b].scope = s /\ barrier'[b].driver = barrier[b].driver
      /\ barrier[b].pc = "none"
  BY <1>2, <1>3 DEF BarrierRecords, EnterSettlement
<1>5. BarrierOk(b)'
  BY <1>2, <1>4 DEF BarrierOk, Driving, EnterSettlement, Open, Live, lifecycle
<1> QED
  BY <1>1, <1>3, <1>4, <1>5, BarrierSafe DEF EnterSettlement, lifecycle

LEMMA BarrierStepSafe ==
    ASSUME TreeInv, NEW b \in Barriers, BarrierStep(b) \/ CancelCaller(b) PROVE TreeInv'
<1>1. TypeInv'
  BY BarrierStepType DEF TreeInv
<1>2. /\ barrier \in [Barriers -> BarrierRecords] /\ barrier[b] \in BarrierRecords
      /\ BarrierOk(b)
  BY TypeParts DEF TreeInv, BarrierInv
<1>3. /\ UNCHANGED <<opened, scope, used, closer>> /\ blockers \subseteq blockers'
      /\ \A a \in Barriers : a # b => barrier'[a] = barrier[a]
      /\ BarrierOk(b)'
      /\ barrier'[b].scope = barrier[b].scope
      /\ barrier'[b].pc \in Inside => barrier[b].pc \in Inside
  <2>1. CASE BodyEnds(b)
    BY <1>2, <2>1 DEF BodyEnds, lifecycle, BarrierOk, BarrierRecords, Inside, Driving
  <2>2. CASE Settle(b)
    BY <1>2, <2>2 DEF Settle, DriverTo, lifecycle, BarrierOk, BarrierRecords, Inside, Driving
  <2>3. CASE ForceSettle(b)
    BY <1>2, <2>3 DEF ForceSettle, DriverTo, lifecycle, BarrierOk, BarrierRecords, Inside, Driving
  <2>4. CASE LeaveSettlement(b)
    BY <1>2, <2>4 DEF LeaveSettlement, BarrierTo, lifecycle, BarrierOk, BarrierRecords, Inside,
                      Driving
  <2>5. CASE CancelCaller(b)
    BY <1>2, <2>5 DEF CancelCaller, lifecycle, BarrierOk, BarrierRecords, Inside, Driving
  <2> QED
    BY <2>1, <2>2, <2>3, <2>4, <2>5 DEF BarrierStep
<1> QED
  BY <1>1, <1>3, BarrierSafe

\* begin_closing closes what is below, all at once, and lists it.
LEMMA BeginCloseSafe ==
    ASSUME TreeInv, NEW c \in Closers, NEW s \in Scopes, BeginClose(c, s) PROVE TreeInv'
<1> DEFINE k == [pc |-> "settle", scope |-> s, members |-> Below(s), at |-> opened, holds |-> 0]
<1>1. /\ opened \in 1..MaxScopes /\ s \in 1..opened /\ \A d \in 1..opened : d \in Scopes
      /\ closer \in [Closers -> CloserRecords] /\ MaxScopes \in Nat /\ Scopes = 1..MaxScopes
  BY TypeParts, ScopesFacts DEF TreeInv, LifecycleType, CloserType, BeginClose, Live
<1>2. /\ SameShape
      /\ \A d \in Scopes :
           scope'[d].state = IF d \in Below(s) /\ scope[d].state = "open" THEN "closing"
                             ELSE scope[d].state
  BY ClosingShape DEF TreeInv, BeginClose
<1>3. closer' = [closer EXCEPT ![c] = k] /\ UNCHANGED <<barrier, blockers, records, resources>>
  BY DEF BeginClose, facts
<1>4. Below(s) \subseteq 1..opened /\ s \in Below(s)
  BY <1>1 DEF Below, TreeInv, AncestryInv
<1>5. TypeInv'
  <2>1. /\ k \in CloserRecords /\ k.at \in 0..opened /\ k.members \subseteq 1..opened
        /\ k.scope <= opened
    BY <1>1, <1>4 DEF CloserRecords
  <2>3. TypeInv /\ opened' = opened
    BY <1>2 DEF TreeInv, SameShape
  <2> HIDE DEF k
  <2>2. CloserType'
    BY <1>3, <2>1, <2>3, CloserMoves
  <2> QED
    BY <1>2, <1>3, <2>2, ClosesType, TypeParts DEF TreeInv
<1>6. AncestryInv'
  BY <1>2, TreeShapeKept DEF TreeInv
<1>7. StateInv'
  <2> SUFFICES ASSUME NEW d \in 1..opened, NEW a \in scope[d].ancestors
               PROVE  /\ scope'[a].state # "open" => scope'[d].state # "open"
                      /\ scope'[a].state = "frozen" => scope'[d].state = "frozen"
    BY <1>1, <1>2 DEF StateInv, SameShape
  <2>1. a \in 1..opened /\ a \in Scopes /\ d \in Scopes
    BY <1>1 DEF TreeInv, AncestryInv
  <2>2. a \in Below(s) => d \in Below(s)
    BY <2>1 DEF Below, TreeInv, AncestryInv
  <2> QED
    BY <1>2, <2>1, <2>2 DEF TreeInv, StateInv
<1>8. Forward /\ NotResettled
  BY <1>1, <1>2, <1>3 DEF Forward, NotResettled, Settling
<1>9. CloserInv'
  <2>1. ASSUME NEW e \in Closers, e # c PROVE CloserOk(e)'
    <3>1. closer'[e] = closer[e] /\ closer[e].scope \in Scopes
      BY <1>1, <1>3, <2>1 DEF CloserRecords
    <3>2. Below(closer[e].scope)' = Below(closer[e].scope)
      BY <1>2, <3>1, BelowKept DEF TreeInv, Below
    <3> QED
      BY <1>8, <3>1, <3>2, CloserKept DEF TreeInv, CloserInv
  <2>2. CloserOk(c)'
    <3>1. closer'[c] = k
      BY <1>1, <1>3
    <3>2. Below(s)' = Below(s)
      BY <1>2, BelowKept DEF TreeInv
    <3>3. scope'[s].state # "open"
      BY <1>2, <1>4
    <3> QED
      BY <1>1, <1>4, <3>1, <3>2, <3>3 DEF CloserOk, Below
  <2> QED
    BY <2>1, <2>2 DEF CloserInv
<1>10. BarrierInv'
  BY <1>1, <1>2, <1>3, BarriersKept DEF TreeInv, SameShape
<1> QED
  BY <1>5, <1>6, <1>7, <1>9, <1>10 DEF TreeInv

\* A closer that moves on without touching scopes.
LEMMA CloserSafe ==
    ASSUME TreeInv, NEW c \in Closers, NEW k \in CloserRecords,
           closer' = [closer EXCEPT ![c] = k],
           k.at \in 0..opened, k.members \subseteq 1..opened, k.scope <= opened,
           UNCHANGED <<opened, scope, used, barrier, records>>,
           (resources \in [Scopes -> Nat])', blockers \subseteq blockers',
           CloserOk(c)'
    PROVE  TreeInv'
<1>1. SameShape
  BY TypeParts DEF TreeInv, LifecycleType, SameShape
<1>2. CloserType'
  BY CloserMoves DEF TreeInv
<1>3. TypeInv'
  BY <1>1, <1>2, ClosesType DEF TreeInv
<1>4. \A e \in Closers : closer'[e] = closer[e] \/ CloserOk(e)'
  BY TypeParts DEF TreeInv, CloserType
<1> QED
  BY <1>3, <1>4, ScopesKept

LEMMA CloserFacts ==
    ASSUME TreeInv, NEW c \in Closers
    PROVE  /\ closer[c] \in CloserRecords /\ CloserOk(c) /\ closer \in [Closers -> CloserRecords]
           /\ closer[c].at \in 0..opened /\ closer[c].members \subseteq 1..opened
           /\ closer[c].scope <= opened /\ closer[c].scope \in 1..opened
           /\ opened \in 1..MaxScopes /\ MaxScopes \in Nat
           /\ Scopes = 1..MaxScopes
           /\ resources \in [Scopes -> Nat]
  BY TypeParts, ScopesFacts DEF TreeInv, CloserInv, CloserType, CloserRecords, LifecycleType

LEMMA MovedCloser ==
    ASSUME NEW r \in CloserRecords, NEW n \in 0..MaxScopes,
           NEW pc \in {"idle", "settle", "take", "clean", "done"}
    PROVE  /\ [r EXCEPT !.at = n] \in CloserRecords
           /\ [r EXCEPT !.pc = pc, !.at = n] \in CloserRecords
  BY DEF CloserRecords

LEMMA HoldingCloser ==
    ASSUME NEW r \in CloserRecords, NEW h \in Nat PROVE [r EXCEPT !.holds = h] \in CloserRecords
  BY DEF CloserRecords

LEMMA AwaitSettlementSafe ==
    ASSUME TreeInv, NEW c \in Closers, AwaitSettlement(c) PROVE TreeInv'
<1> DEFINE on == [closer[c] EXCEPT !.at = Current(c) - 1]
           over == [closer[c] EXCEPT !.pc = "take", !.at = opened]
<1>1. UNCHANGED <<opened, scope, used, barrier, records, blockers, resources>>
  BY DEF AwaitSettlement, lifecycle, facts
<1>2. closer[c].pc = "settle"
  BY DEF AwaitSettlement
<1>3. CASE Rest(c) # {} /\ ~Settling(Current(c)) /\ closer' = [closer EXCEPT ![c] = on]
  <2>1. /\ Current(c) \in closer[c].members /\ Current(c) \in 1..opened
        /\ \A d \in closer[c].members : d > Current(c) => d > closer[c].at
    BY <1>3, CurrentFacts DEF TreeInv
  <2>2. /\ on \in CloserRecords /\ on.at = Current(c) - 1 /\ on.members = closer[c].members
        /\ on.scope = closer[c].scope /\ on.pc = "settle" /\ on.at \in 0..opened
    <3>1. closer[c] \in CloserRecords /\ Current(c) - 1 \in 0..opened
          /\ Current(c) - 1 \in 0..MaxScopes
      BY <2>1, CloserFacts
    <3>2. on \in CloserRecords
      BY <3>1, MovedCloser
    <3> QED
      BY <1>2, <3>1, <3>2 DEF CloserRecords
  <2>3. ASSUME NEW d \in closer[c].members, d > Current(c) - 1 PROVE ~Settling(d)
    <3>1. d \in 1..opened /\ opened \in Nat
      BY CloserFacts
    <3>2. d = Current(c) \/ d > Current(c)
      BY <2>1, <2>3, <3>1
    <3> QED
      BY <1>2, <1>3, <2>1, <3>2, CloserFacts DEF CloserOk, Working
  <2>4. CloserOk(c)'
    <3>1. closer'[c] = on
      BY <1>3, CloserFacts
    <3> QED
      BY <1>1, <1>2, <2>2, <2>3, <3>1, CloserFacts DEF CloserOk, Below, Settling, Working
  <2> HIDE DEF on
  <2> QED
    BY <1>1, <1>3, <2>1, <2>2, <2>4, CloserFacts, CloserSafe
<1>4. CASE Rest(c) = {} /\ closer' = [closer EXCEPT ![c] = over]
  <2>1. /\ over \in CloserRecords /\ over.at = opened /\ over.members = closer[c].members
        /\ over.scope = closer[c].scope /\ over.pc = "take" /\ over.at \in 0..opened
    <3>1. closer[c] \in CloserRecords /\ opened \in 0..opened /\ opened \in 0..MaxScopes
      BY CloserFacts
    <3>2. over \in CloserRecords
      BY <3>1, MovedCloser
    <3> QED
      BY <3>1, <3>2 DEF CloserRecords
  <2>2. \A d \in closer[c].members : ~(d > opened) /\ d > closer[c].at
    BY <1>4, CloserFacts DEF Rest
  <2>3. CloserOk(c)'
    <3>1. closer'[c] = over
      BY <1>4, CloserFacts
    <3> QED
      BY <1>1, <1>2, <2>1, <2>2, <3>1, CloserFacts DEF CloserOk, Below, Settling, Working
  <2> HIDE DEF over
  <2> QED
    BY <1>1, <1>4, <2>1, <2>3, CloserFacts, CloserSafe
<1> QED
  BY <1>3, <1>4 DEF AwaitSettlement

LEMMA TakeResourcesSafe ==
    ASSUME TreeInv, NEW c \in Closers, TakeResources(c) PROVE TreeInv'
<1> DEFINE k == [closer[c] EXCEPT !.pc = "clean", !.holds = resources[Current(c)]]
<1>1. /\ UNCHANGED <<opened, scope, used, barrier, records, blockers>>
      /\ closer' = [closer EXCEPT ![c] = k] /\ closer[c].pc = "take" /\ Rest(c) # {}
      /\ resources' = [resources EXCEPT ![Current(c)] = 0]
  BY DEF TakeResources, lifecycle, facts
<1>2. Current(c) \in Scopes
  BY <1>1, CurrentFacts, CloserFacts DEF TreeInv
<1>3. /\ k \in CloserRecords /\ k.at = closer[c].at /\ k.members = closer[c].members
      /\ k.scope = closer[c].scope /\ k.pc = "clean"
  BY <1>2, CloserFacts DEF CloserRecords
<1>4. CloserOk(c)'
  <2>1. closer'[c] = k
    BY <1>1, CloserFacts
  <2> QED
    BY <1>1, <1>3, <2>1, CloserFacts DEF CloserOk, Below, Settling, Working, Rest
<1>5. (resources \in [Scopes -> Nat])'
  BY <1>1, CloserFacts
<1> HIDE DEF k
<1> QED
  BY <1>1, <1>3, <1>4, <1>5, CloserFacts, CloserSafe

LEMMA CloseResourceSafe ==
    ASSUME TreeInv, NEW c \in Closers, CloseResource(c) PROVE TreeInv'
<1> DEFINE k == [closer[c] EXCEPT !.holds = @ - 1]
<1>1. /\ UNCHANGED <<opened, scope, used, barrier, records, resources>>
      /\ blockers \subseteq blockers'
      /\ closer' = [closer EXCEPT ![c] = k] /\ closer[c].pc = "clean" /\ closer[c].holds > 0
  BY DEF CloseResource, lifecycle, facts
<1>2. /\ k \in CloserRecords /\ k.at = closer[c].at /\ k.members = closer[c].members
      /\ k.scope = closer[c].scope /\ k.pc = "clean"
  <2>1. closer[c] \in CloserRecords /\ closer[c].holds - 1 \in Nat
    BY <1>1, CloserFacts DEF CloserRecords
  <2>2. k \in CloserRecords
    BY <2>1, HoldingCloser
  <2> QED
    BY <1>1, <2>1, <2>2 DEF CloserRecords
<1>3. CloserOk(c)'
  <2>1. closer'[c] = k
    BY <1>1, CloserFacts
  <2> QED
    BY <1>1, <1>2, <2>1, CloserFacts DEF CloserOk, Below, Settling, Working, Rest
<1> HIDE DEF k
<1> QED
  BY <1>1, <1>2, <1>3, CloserFacts, CloserSafe

LEMMA EndCloseSafe ==
    ASSUME TreeInv, NEW c \in Closers, EndClose(c) \/ CancelClose(c) PROVE TreeInv'
<1>1. UNCHANGED <<opened, scope, used, barrier, records, resources, blockers>>
  BY DEF EndClose, CancelClose, lifecycle, facts
<1>2. Idle \in CloserRecords /\ Idle.pc = "idle" /\ Idle.at = 1 /\ Idle.members = {}
      /\ Idle.scope = 1
  BY ScopesFacts DEF Idle, CloserRecords
<1>3. PICK k \in {Idle, [closer[c] EXCEPT !.pc = "done"]} : closer' = [closer EXCEPT ![c] = k]
  BY DEF EndClose, CancelClose
<1>4. /\ k \in CloserRecords /\ k.pc \notin Working /\ k.at \in 0..opened
      /\ k.members \subseteq 1..opened /\ k.scope <= opened
  <2>1. CASE k = Idle
    BY <1>2, <2>1, CloserFacts DEF Working
  <2>2. CASE k = [closer[c] EXCEPT !.pc = "done"]
    <3>1. k \in CloserRecords
      BY <2>2, CloserFacts DEF CloserRecords
    <3> QED
      BY <2>2, <3>1, CloserFacts DEF CloserRecords, Working
  <2> QED
    BY <2>1, <2>2
<1>5. CloserOk(c)'
  BY <1>3, <1>4, CloserFacts DEF CloserOk
<1> QED
  BY <1>1, <1>3, <1>4, <1>5, CloserFacts, CloserSafe

\* What is frozen next has nothing below it that is not, and nothing to settle.
LEMMA FreezeSafe ==
    ASSUME TreeInv, NEW c \in Closers, Freeze(c) PROVE TreeInv'
<1> DEFINE k == [closer[c] EXCEPT !.pc = "take", !.at = Current(c) - 1]
           f == Current(c)
<1>1. /\ UNCHANGED <<opened, used, barrier, records, resources, blockers>>
      /\ closer' = [closer EXCEPT ![c] = k] /\ closer[c].pc = "clean"
      /\ scope' = [scope EXCEPT ![f].state = "frozen"]
  BY DEF Freeze, facts
<1>2. Rest(c) # {} /\ closer[c].members = Below(closer[c].scope)
  BY <1>1, CloserFacts DEF CloserOk, Working
<1>3. /\ f \in closer[c].members /\ f \in 1..opened /\ f \in Scopes
      /\ \A d \in closer[c].members : d > f => d > closer[c].at
  BY <1>2, CurrentFacts, CloserFacts DEF TreeInv
<1> HIDE DEF f
<1>4. /\ \A d \in closer[c].members : d > f => scope[d].state = "frozen"
      /\ \A d \in closer[c].members : ~Settling(d)
      /\ scope[closer[c].scope].state # "open"
  BY <1>1, <1>3, CloserFacts DEF CloserOk, Working
<1>5. \A d \in Scopes :
         /\ scope'[d].ancestors = scope[d].ancestors
         /\ scope'[d].state = IF d = f THEN "frozen" ELSE scope[d].state
         /\ scope'[d] \in ScopeRecords
  BY <1>1, TypeParts DEF TreeInv, LifecycleType, ScopeRecords, ScopeStates
<1>6. SameShape
  <2>1. scope' \in [Scopes -> ScopeRecords]
    BY <1>1, <1>3, TypeParts DEF TreeInv, LifecycleType, ScopeRecords, ScopeStates
  <2> QED
    BY <1>1, <1>5, <2>1 DEF SameShape
<1>7. /\ k \in CloserRecords /\ k.at = f - 1 /\ k.members = closer[c].members
      /\ k.scope = closer[c].scope /\ k.pc = "take" /\ k.at \in 0..opened
  <2>1. closer[c] \in CloserRecords /\ f - 1 \in 0..opened /\ f - 1 \in 0..MaxScopes
    BY <1>3, CloserFacts
  <2>2. k = [closer[c] EXCEPT !.pc = "take", !.at = f - 1]
    BY DEF f
  <2>3. k \in CloserRecords
    BY <2>1, <2>2, MovedCloser
  <2> HIDE DEF k
  <2> QED
    BY <2>1, <2>2, <2>3 DEF CloserRecords
<1>8. TypeInv'
  <2> HIDE DEF k
  <2>1. TypeInv /\ opened' = opened /\ k.members \subseteq 1..opened /\ k.scope <= opened
    BY <1>1, <1>7, CloserFacts DEF TreeInv
  <2>2. CloserType'
    BY <1>1, <1>7, <2>1, CloserMoves
  <2> QED
    BY <1>1, <1>6, <2>1, <2>2, ClosesType, TypeParts
<1>9. AncestryInv'
  BY <1>6, TreeShapeKept DEF TreeInv
<1>10. \A d \in 1..opened : f \in scope[d].ancestors => d \in closer[c].members
  <2> SUFFICES ASSUME NEW d \in 1..opened, f \in scope[d].ancestors
               PROVE  closer[c].scope \in scope[d].ancestors
    BY <1>2 DEF Below
  <2>1. closer[c].scope \in scope[f].ancestors
    BY <1>2, <1>3 DEF Below
  <2> QED
    BY <1>3, <2>1 DEF TreeInv, AncestryInv
<1>11. StateInv'
  <2> SUFFICES ASSUME NEW d \in 1..opened, NEW a \in scope[d].ancestors
               PROVE  /\ scope'[a].state # "open" => scope'[d].state # "open"
                      /\ scope'[a].state = "frozen" => scope'[d].state = "frozen"
    BY <1>1, <1>5, CloserFacts DEF StateInv
  <2>1. a \in 1..d /\ a \in Scopes /\ d \in Scopes
    BY CloserFacts DEF TreeInv, AncestryInv
  <2>2. CASE a = f
    <3>1. d = f \/ d > f
      BY <2>1, <2>2
    <3>2. scope'[d].state = "frozen"
      BY <1>4, <1>5, <1>10, <2>1, <2>2, <3>1
    <3> QED
      BY <3>2
  <2>3. CASE a # f
    BY <1>5, <2>1, <2>3 DEF TreeInv, StateInv
  <2> QED
    BY <2>2, <2>3
<1>12. Forward /\ NotResettled
  BY <1>1, <1>5, CloserFacts DEF Forward, NotResettled, Settling
<1>13. CloserInv'
  <2>1. ASSUME NEW e \in Closers, e # c PROVE CloserOk(e)'
    <3>1. closer'[e] = closer[e] /\ closer[e].scope \in Scopes
      BY <1>1, <2>1, CloserFacts DEF CloserRecords
    <3>2. Below(closer[e].scope)' = Below(closer[e].scope)
      BY <1>6, <3>1, BelowKept DEF TreeInv, Below
    <3> QED
      BY <1>12, <3>1, <3>2, CloserKept DEF TreeInv, CloserInv
  <2>2. CloserOk(c)'
    <3> HIDE DEF k
    <3>1. closer'[c] = k /\ closer[c].scope \in Scopes
      BY <1>1, CloserFacts
    <3>2. Below(closer[c].scope)' = Below(closer[c].scope)
      <4>1. \A s \in Scopes : Below(s)' = Below(s)
        BY <1>6, BelowKept DEF TreeInv
      <4>2. closer'[c].scope = closer[c].scope
        BY <1>7, <3>1
      <4> QED
        BY <3>1, <4>1, <4>2 DEF Below
    <3>3. scope'[closer[c].scope].state # "open"
      BY <1>4, <1>5, <3>1
    <3>4. \A d \in closer[c].members : d > f - 1 => scope'[d].state = "frozen"
      <4> SUFFICES ASSUME NEW d \in closer[c].members, d > f - 1
                   PROVE  scope'[d].state = "frozen"
        OBVIOUS
      <4>1. d \in Scopes /\ (d = f \/ d > f)
        BY <1>3, CloserFacts
      <4> QED
        BY <1>4, <1>5, <4>1
    <3>5. \A d \in closer[c].members : ~Settling(d)'
      BY <1>1, <1>4 DEF Settling
    <3> QED
      BY <1>2, <1>7, <3>1, <3>2, <3>3, <3>4, <3>5 DEF CloserOk, Working
  <2> QED
    BY <2>1, <2>2 DEF CloserInv
<1>14. BarrierInv'
  <2> SUFFICES ASSUME NEW b \in Barriers PROVE BarrierOk(b)'
    BY DEF BarrierInv
  <2>1. BarrierOk(b) /\ barrier[b].scope \in Scopes
    BY TypeParts DEF TreeInv, BarrierInv, BarrierRecords
  <2>2. scope'[barrier[b].scope].state = "frozen" => barrier[b].pc \notin Inside
    BY <1>3, <1>4, <1>5, <2>1 DEF Settling, BarrierOk
  <2> QED
    BY <1>1, <2>1, <2>2 DEF BarrierOk, Driving
<1> QED
  BY <1>8, <1>9, <1>11, <1>13, <1>14 DEF TreeInv

LEMMA NextSafe ==
    ASSUME TreeInv, TreeNext PROVE TreeInv'
<1>1. ASSUME NEW s \in Scopes, OpenTool(s) PROVE TreeInv'
  BY <1>1, OpenToolType, NewScopeSafe DEF TreeInv, OpenTool
<1>2. ASSUME NEW s \in Scopes, OpenChildRun(s) PROVE TreeInv'
  BY <1>2, OpenChildRunType, NewScopeSafe DEF TreeInv, OpenChildRun
<1>3. ASSUME NEW s \in Scopes, RegisterResource(s) PROVE TreeInv'
  <2>1. TypeInv'
    BY <1>3, RegisterResourceType DEF TreeInv
  <2> QED
    BY <1>3, <2>1, ScopesKept DEF RegisterResource, lifecycle
<1>4. ASSUME NEW s \in Scopes, NEW n \in 0..1, Contribute(s, n) PROVE TreeInv'
  <2>1. TypeInv'
    BY <1>4, ContributeType DEF TreeInv
  <2> QED
    BY <1>4, <2>1, ScopesKept DEF Contribute, lifecycle
<1>5. ASSUME NEW s \in Scopes, AddRecord(s) PROVE TreeInv'
  <2>1. TypeInv'
    BY <1>5, AddRecordType DEF TreeInv
  <2> QED
    BY <1>5, <2>1, ScopesKept DEF AddRecord, lifecycle
<1> QED
  BY <1>1, <1>2, <1>3, <1>4, <1>5, EnterSettlementSafe, BarrierStepSafe, BeginCloseSafe,
     AwaitSettlementSafe, TakeResourcesSafe, CloseResourceSafe, EndCloseSafe, FreezeSafe
     DEF TreeNext, CloseStep

LEMMA StutterSafe ==
    ASSUME TreeInv, UNCHANGED treeVars PROVE TreeInv'
<1>1. TypeInv'
  BY TypeParts, TypePartsNext
     DEF TreeInv, treeVars, lifecycle, facts, LifecycleType, CloserType, RecordsType, Complete
<1> QED
  BY <1>1, ScopesKept DEF treeVars, lifecycle

\* execution.py: whatever closers, tasks and barriers do, and in whatever order, every scope
\* below a frozen one is known to the closer that froze it: the inductive invariant.
THEOREM Invariance == TreeSpec => []TreeInv
<1>1. TreeInv /\ [TreeNext]_treeVars => TreeInv'
  BY NextSafe, StutterSafe
<1> QED
  BY InitSafe, <1>1, PTL DEF TreeSpec

\* execution.py:568-588, 695-731: however many tasks close overlapping parts of the tree
\* while others open scopes, none is opened below one that was closed, and none is frozen
\* before what is below it.
THEOREM ClosingIsSound == TreeSpec => []SubtreeCloses
<1>1. TreeInv => SubtreeCloses
  <2> SUFFICES ASSUME TreeInv PROVE SubtreeCloses
    OBVIOUS
  <2>1. TreeTypeOK
    BY DEF TreeInv, TypeInv
  <2> QED
    BY <2>1 DEF TreeInv, StateInv, SubtreeCloses
<1> QED
  BY <1>1, Invariance, PTL

\* execution.py:1055-1106: a scope that is frozen has no settlement under way, and every
\* settlement that could not be confirmed has left its blocker.
THEOREM SettlementIsAwaited == TreeSpec => []SettledBeforeFrozen
<1>1. TreeInv => SettledBeforeFrozen
  BY DEF TreeInv, BarrierInv, BarrierOk, SettledBeforeFrozen, Inside
<1> QED
  BY <1>1, Invariance, PTL

-----------------------------------------------------------------------------
\* The usage.  A total that is computed in rounds is reasoned about round by round, and the
\* lemmas for that come first.

\* Induction: if something fails, something fails first.
LEMMA HasLeast ==
    ASSUME NEW S, S \subseteq Nat, S # {}
    PROVE  \E x \in S : \A y \in S : x <= y
<1> DEFINE R == {ss \in Nat \X Nat : ss[1] < ss[2]}
<1>1. IsWellFoundedOn(R, Nat)
  BY NatLessThanWellFounded DEF OpToRel
<1>2. PICK x \in S : \A y \in S : ~ (<<y, x>> \in R)
  <2> HIDE DEF R
  <2> QED
    BY <1>1, WFMin
<1>3. ASSUME NEW y \in S PROVE x <= y
  <2>1. ~(y < x) /\ x \in Nat /\ y \in Nat
    BY <1>2, <1>3
  <2> QED
    BY <2>1
<1> QED
  BY <1>2, <1>3

Iterates(F, g, N, x) == g[0] = x /\ \A n \in 1..N : g[n] = F[n][g[n - 1]]

\* A step that is defined everywhere can be taken any number of times.
LEMMA Iterated ==
    ASSUME NEW S, NEW x \in S, NEW N \in Nat, NEW F \in [1..N -> [S -> S]]
    PROVE  \E g \in [0..N -> S] : Iterates(F, g, N, x)
<1> USE DEF Iterates
<1> DEFINE Reaches(m, g) == g[0] = x /\ \A n \in 1..m : g[n] = F[n][g[n - 1]]
           Bad == {m \in 0..N : ~ \E g \in [0..m -> S] : Reaches(m, g)}
<1>1. SUFFICES ASSUME Bad # {} PROVE FALSE
  <2>1. N \notin Bad
    BY <1>1
  <2> QED
    BY <2>1
<1>2. PICK m \in Bad : \A k \in Bad : m <= k
  <2>1. Bad \subseteq Nat
    OBVIOUS
  <2> HIDE DEF Bad
  <2> QED
    BY <1>1, <2>1, HasLeast
<1>3. CASE m = 0
  <2> DEFINE g == [n \in 0..0 |-> x]
  <2>1. g \in [0..0 -> S] /\ g[0] = x /\ \A n \in 1..0 : FALSE
    OBVIOUS
  <2>2. Reaches(0, g)
    BY <2>1
  <2> QED
    BY <1>2, <1>3, <2>1, <2>2
<1>4. CASE m # 0
  <2>1. m \in 1..N /\ m - 1 \in 0..N /\ ~(m <= m - 1)
    BY <1>2, <1>4
  <2>2. PICK g \in [0..(m - 1) -> S] : Reaches(m - 1, g)
    BY <1>2, <2>1
  <2> DEFINE h == [n \in 0..m |-> IF n = m THEN F[m][g[m - 1]] ELSE g[n]]
  <2>3. m - 1 \in 0..(m - 1) /\ F[m] \in [S -> S]
    BY <2>1
  <2>4. h \in [0..m -> S]
    BY <2>1, <2>3
  <2>5. h[0] = x
    BY <2>1, <2>2
  <2>6. ASSUME NEW n \in 1..m PROVE h[n] = F[n][h[n - 1]]
    <3>1. n \in 0..m /\ n - 1 \in 0..m /\ n - 1 # m
      BY <2>1, <2>6
    <3>2. h[n - 1] = g[n - 1]
      BY <3>1
    <3>3. CASE n = m
      BY <2>1, <3>1, <3>2, <3>3
    <3>4. CASE n # m
      <4>1. n \in 1..(m - 1)
        BY <2>1, <2>6, <3>4
      <4> QED
        BY <2>2, <3>1, <3>2, <3>4, <4>1
    <3> QED
      BY <3>3, <3>4
  <2> HIDE DEF h
  <2>7. Reaches(m, h)
    BY <2>5, <2>6
  <2> QED
    BY <1>2, <2>4, <2>7
<1> QED
  BY <1>3, <1>4

\* What starts the same and goes on the same is the same.
GoesAlike(N, g, h) == g[0] = h[0] /\ \A n \in 1..N : g[n - 1] = h[n - 1] => g[n] = h[n]
Alike(N, g, h) == \A n \in 0..N : g[n] = h[n]

LEMMA SameStages ==
    ASSUME NEW N \in Nat, NEW g, NEW h, GoesAlike(N, g, h)
    PROVE  Alike(N, g, h)
<1> USE DEF GoesAlike, Alike
<1> DEFINE Bad == {n \in 0..N : g[n] # h[n]}
<1>1. SUFFICES ASSUME Bad # {} PROVE FALSE
  OBVIOUS
<1>2. PICK m \in Bad : \A k \in Bad : m <= k
  <2>1. Bad \subseteq Nat
    OBVIOUS
  <2> HIDE DEF Bad
  <2> QED
    BY <1>1, <2>1, HasLeast
<1>3. m \in 1..N /\ m - 1 \in 0..N /\ ~(m <= m - 1)
  BY <1>2
<1>4. g[m - 1] = h[m - 1]
  BY <1>2, <1>3
<1> QED
  BY <1>2, <1>3, <1>4


-----------------------------------------------------------------------------
\* What is contributed comes from scopes there are, and all of them are below the root.
UsageShape ==
    /\ given \in Seq([scope : Scopes, amount : 0..1])
    /\ \A i \in 1..Len(given) : given[i].scope \in 1..opened
    /\ \A d \in 1..opened : Root \in scope[d].ancestors

UsageInv == UsageShape /\ UsageAgrees

\* The running totals of contributions q.
Merges(q, m) == m[0] = NoUsage /\ \A i \in 1..Len(q) : m[i] = MergeUsage(m[i - 1], q[i].amount)

\* The root's usage leaves no contribution out.
UsageTotals == \E m : Merges(given, m) /\ UsageFor(Root) = m[Len(given)]
LEMMA UsageIs == UsageShape => UsageTotals
<1> SUFFICES ASSUME UsageShape PROVE UsageTotals
  OBVIOUS
<1> DEFINE Usages == [state : {"none", "known", "unknown"}, amount : Nat]
           N == Len(given)
           F == [n \in 1..N |-> [u \in Usages |-> MergeUsage(u, given[n].amount)]]
<1>1. /\ N \in Nat
      /\ \A n \in 1..N : given[n].amount \in 0..1 /\ Root \in scope[given[n].scope].ancestors
  <2>1. given \in Seq([scope : Scopes, amount : 0..1])
    BY DEF UsageShape
  <2>2. N \in Nat /\ \A n \in 1..N : given[n] \in [scope : Scopes, amount : 0..1]
    BY <2>1, LenProperties, ElementOfSeq
  <2>3. \A n \in 1..N : given[n].amount \in 0..1
    BY <2>2
  <2> QED
    BY <2>2, <2>3 DEF UsageShape
<1>2. \A u \in Usages, n \in 0..1 : MergeUsage(u, n) \in Usages
  BY DEF MergeUsage, UnknownUsage, Known
<1>3. NoUsage \in Usages
  BY DEF NoUsage
<1>4. PICK g \in [0..N -> Usages] : Iterates(F, g, N, NoUsage)
  <2>1. F \in [1..N -> [Usages -> Usages]]
    BY <1>1, <1>2
  <2> HIDE DEF F, Usages, N
  <2> QED
    BY <1>1, <1>3, <2>1, Iterated
<1>5. g[0] = NoUsage /\ \A n \in 1..N : g[n] = MergeUsage(g[n - 1], given[n].amount)
  <2>1. \A n \in 1..N : n - 1 \in 0..N
    BY <1>1
  <2> QED
    BY <1>4, <2>1 DEF Iterates
<1>6. g = [i \in 0..Len(given) |->
             IF i = 0 THEN NoUsage
             ELSE IF Root \notin scope[given[i].scope].ancestors THEN g[i - 1]
             ELSE IF g[i - 1].state = "unknown" \/ given[i].amount = 0 THEN UnknownUsage
             ELSE Known(g[i - 1].amount + given[i].amount)]
  <2>1. g = [i \in 0..N |-> g[i]]
    BY <1>4
  <2>2. ASSUME NEW i \in 0..N
        PROVE  g[i] = IF i = 0 THEN NoUsage
             ELSE IF Root \notin scope[given[i].scope].ancestors THEN g[i - 1]
             ELSE IF g[i - 1].state = "unknown" \/ given[i].amount = 0 THEN UnknownUsage
             ELSE Known(g[i - 1].amount + given[i].amount)
    <3>1. CASE i = 0
      BY <1>5, <3>1
    <3>2. CASE i # 0
      <4>1. i \in 1..N
        BY <1>1, <2>2, <3>2
      <4> QED
        BY <1>1, <1>5, <3>2, <4>1 DEF MergeUsage
    <3> QED
      BY <3>1, <3>2
  <2> QED
    BY <2>1, <2>2
<1> DEFINE fin == CHOOSE merged : merged = [i \in 0..Len(given) |->
             IF i = 0 THEN NoUsage
             ELSE IF Root \notin scope[given[i].scope].ancestors THEN merged[i - 1]
             ELSE IF merged[i - 1].state = "unknown" \/ given[i].amount = 0 THEN UnknownUsage
             ELSE Known(merged[i - 1].amount + given[i].amount)]
<1>7. fin = [i \in 0..Len(given) |->
             IF i = 0 THEN NoUsage
             ELSE IF Root \notin scope[given[i].scope].ancestors THEN fin[i - 1]
             ELSE IF fin[i - 1].state = "unknown" \/ given[i].amount = 0 THEN UnknownUsage
             ELSE Known(fin[i - 1].amount + given[i].amount)]
  BY ONLY <1>6, ZenonT(60) DEF fin
<1>8. UsageFor(Root) = fin[N]
  BY DEF UsageFor
<1> HIDE DEF fin
<1>9. fin[0] = NoUsage /\ \A n \in 1..N : fin[n] = MergeUsage(fin[n - 1], given[n].amount)
  <2>1. 0 \in 0..N /\ \A n \in 1..N : n \in 0..N /\ n # 0
    BY <1>1
  <2> QED
    BY <1>1, <1>7, <2>1 DEF MergeUsage
<1>10. Merges(given, fin)
  BY <1>9 DEF Merges
<1> QED
  BY <1>8, <1>10 DEF UsageTotals

LEMMA UsageIsNext == UsageShape' => UsageTotals'
  BY UsageIs, PTL

\* The same contributions from the same root come to the same.
LEMMA UsageSame ==
    ASSUME UsageInv, UsageShape', \/ UNCHANGED <<given, usage>>
                                  \/ \E s \in Scopes, n \in 0..1 : Contribute(s, n)
    PROVE  UsageInv'
<1>1. PICK m : Merges(given, m) /\ UsageFor(Root) = m[Len(given)]
  BY UsageIs DEF UsageInv, UsageTotals
<1>2. UsageTotals'
  BY UsageIsNext
<1>3. PICK k : Merges(given', k) /\ UsageFor(Root)' = k[Len(given')]
  BY <1>2 DEF UsageTotals, Merges
<1>4. Len(given) \in Nat /\ given \in Seq([scope : Scopes, amount : 0..1])
  BY DEF UsageInv, UsageShape
<1>5. ASSUME Len(given) <= Len(given'), \A i \in 1..Len(given) : given'[i] = given[i],
             Len(given') \in Nat
      PROVE  k[Len(given)] = usage
  <2>1. GoesAlike(Len(given), m, k)
    BY <1>1, <1>3, <1>4, <1>5 DEF GoesAlike, Merges
  <2>2. Alike(Len(given), m, k)
    BY <1>4, <2>1, SameStages
  <2> QED
    BY <1>1, <1>4, <2>2 DEF Alike, UsageInv, UsageAgrees
<1>6. CASE UNCHANGED <<given, usage>>
  BY <1>3, <1>4, <1>5, <1>6 DEF UsageInv, UsageAgrees
<1>7. CASE \E s \in Scopes, n \in 0..1 : Contribute(s, n)
  <2>1. PICK s \in Scopes, n \in 0..1 : Contribute(s, n)
    BY <1>7
  <2> DEFINE c == [scope |-> s, amount |-> n]
  <2>2. given' = Append(given, c) /\ usage' = MergeUsage(usage, n) /\ c.amount = n
    BY <2>1 DEF Contribute
  <2>3. c \in [scope : Scopes, amount : 0..1]
    OBVIOUS
  <2> HIDE DEF c
  <2>4. /\ Len(given') = Len(given) + 1 /\ given'[Len(given) + 1] = c
        /\ \A i \in 1..Len(given) : given'[i] = given[i]
    BY <1>4, <2>2, <2>3
  <2>5. k[Len(given)] = usage
    BY <1>4, <1>5, <2>4
  <2>6. k[Len(given) + 1] = MergeUsage(k[Len(given) + 1 - 1], given'[Len(given) + 1].amount)
    <3>1. Len(given) + 1 \in 1..Len(given')
      BY <1>4, <2>4
    <3> QED
      BY <1>3, <3>1 DEF Merges
  <2>7. Len(given) + 1 - 1 = Len(given)
    BY <1>4
  <2>8. k[Len(given')] = usage'
    BY ONLY <2>2, <2>4, <2>5, <2>6, <2>7, Zenon
  <2> QED
    BY <1>3, <2>8 DEF UsageInv, UsageAgrees
<1> QED
  BY <1>6, <1>7

LEMMA UsageInitSafe == TreeInit => UsageInv
<1> SUFFICES ASSUME TreeInit PROVE UsageInv
  OBVIOUS
<1>1. opened = 1 /\ scope[Root].ancestors = {Root} /\ Root = 1 /\ given = <<>> /\ usage = NoUsage
  BY ScopesFacts DEF TreeInit, Lineage
<1>2. UsageShape
  BY <1>1 DEF UsageShape
<1>3. PICK m : Merges(given, m) /\ UsageFor(Root) = m[Len(given)]
  BY <1>2, UsageIs DEF UsageTotals
<1> QED
  BY <1>1, <1>2, <1>3 DEF UsageInv, UsageAgrees, Merges

\* Ancestors are given when a scope is opened and stay.
LEMMA RootStays ==
    ASSUME TreeInv, UsageInv, TreeNext
    PROVE  /\ opened \in Nat /\ opened' \in Nat /\ opened <= opened'
           /\ \A d \in 1..opened' : Root \in scope'[d].ancestors
<1>1. /\ opened \in 1..MaxScopes /\ Scopes = 1..MaxScopes /\ scope \in [Scopes -> ScopeRecords]
      /\ \A d \in 1..opened : Root \in scope[d].ancestors /\ d \in Scopes
  BY TypeParts, ScopesFacts DEF TreeInv, LifecycleType, UsageInv, UsageShape
<1>2. CASE UNCHANGED <<opened, scope>>
  BY <1>1, <1>2
<1>3. ASSUME NEW p \in Scopes, NEW run \in BOOLEAN, Open(p), NewScope(p, run)
      PROVE  /\ opened' \in Nat /\ opened <= opened'
             /\ \A d \in 1..opened' : Root \in scope'[d].ancestors
  <2>1. opened' = opened + 1 /\ opened' \in Scopes /\ p \in 1..opened
    BY <1>3 DEF NewScope, Open, Live
  <2>2. scope'[opened'].ancestors = scope[p].ancestors \cup {opened'}
    BY <1>1, <1>3, <2>1 DEF NewScope, Lineage
  <2>3. \A d \in 1..opened : scope'[d] = scope[d]
    BY <1>1, <1>3 DEF NewScope
  <2> QED
    BY <1>1, <2>1, <2>2, <2>3
<1>4. ASSUME NEW c \in Closers, NEW s \in Scopes, BeginClose(c, s)
      PROVE  opened' = opened /\ \A d \in 1..opened' : Root \in scope'[d].ancestors
  <2>1. UNCHANGED <<opened, used>> /\ scope' = Closing(s)
    BY <1>4 DEF BeginClose
  <2>2. SameShape
    BY <2>1, ClosingShape DEF TreeInv
  <2> QED
    BY <1>1, <2>1, <2>2 DEF SameShape
<1>5. ASSUME NEW c \in Closers, Freeze(c)
      PROVE  opened' = opened /\ \A d \in 1..opened' : Root \in scope'[d].ancestors
  <2>1. opened' = opened /\ scope' = [scope EXCEPT ![Current(c)].state = "frozen"]
    BY <1>5 DEF Freeze
  <2>2. \A d \in Scopes : scope'[d].ancestors = scope[d].ancestors
    BY <1>1, <2>1 DEF ScopeRecords
  <2> QED
    BY <1>1, <2>1, <2>2
<1>6. \/ UNCHANGED <<opened, scope>>
      \/ \E p \in Scopes, run \in BOOLEAN : Open(p) /\ NewScope(p, run)
      \/ \E c \in Closers : Freeze(c) \/ \E s \in Scopes : BeginClose(c, s)
  BY DEF TreeNext, OpenTool, OpenChildRun, RegisterResource, Contribute, AddRecord,
         EnterSettlement, BarrierStep, BodyEnds, Settle, ForceSettle, LeaveSettlement,
         CancelCaller, CloseStep, AwaitSettlement, TakeResources, CloseResource, EndClose,
         CancelClose, lifecycle
<1> QED
  BY <1>1, <1>2, <1>3, <1>4, <1>5, <1>6

LEMMA UsageNextSafe ==
    ASSUME TreeInv, UsageInv, TreeNext PROVE UsageInv'
<1>1. \/ UNCHANGED <<given, usage>>
      \/ \E s \in Scopes, n \in 0..1 : Contribute(s, n)
  BY DEF TreeNext, OpenTool, OpenChildRun, NewScope, RegisterResource, AddRecord,
         EnterSettlement, BarrierStep, BodyEnds, Settle, ForceSettle, LeaveSettlement,
         CancelCaller, CloseStep, AwaitSettlement, TakeResources, CloseResource, EndClose,
         CancelClose, Freeze, BeginClose, facts
<1>2. /\ opened \in Nat /\ opened' \in Nat /\ opened <= opened'
      /\ \A d \in 1..opened' : Root \in scope'[d].ancestors
  BY RootStays
<1>3. given \in Seq([scope : Scopes, amount : 0..1]) /\ \A i \in 1..Len(given) : given[i].scope \in 1..opened
  BY DEF UsageInv, UsageShape
<1>4. UsageShape'
  <2>1. CASE UNCHANGED <<given, usage>>
    BY <1>2, <1>3, <2>1 DEF UsageShape
  <2>2. CASE \E s \in Scopes, n \in 0..1 : Contribute(s, n)
    <3>1. PICK s \in Scopes, n \in 0..1 : Contribute(s, n)
      BY <2>2
    <3> DEFINE c == [scope |-> s, amount |-> n]
    <3>2. given' = Append(given, c) /\ s \in 1..opened /\ c.scope = s
      BY <3>1 DEF Contribute, Open, Live
    <3>3. c \in [scope : Scopes, amount : 0..1]
      OBVIOUS
    <3> HIDE DEF c
    <3>4. /\ given' \in Seq([scope : Scopes, amount : 0..1])
          /\ Len(given') = Len(given) + 1 /\ given'[Len(given) + 1] = c
          /\ \A i \in 1..Len(given) : given'[i] = given[i]
      BY <1>3, <3>2, <3>3
    <3>5. ASSUME NEW i \in 1..Len(given') PROVE given'[i].scope \in 1..opened'
      <4>1. i \in 1..Len(given) \/ i = Len(given) + 1
        BY <1>3, <3>4
      <4> QED
        BY <1>2, <1>3, <3>2, <3>4, <4>1
    <3> QED
      BY <1>2, <3>4, <3>5 DEF UsageShape
  <2> QED
    BY <1>1, <2>1, <2>2
<1> QED
  BY <1>1, <1>4, UsageSame

\* execution.py:321-345, 500-527: for any number of scopes and contributions, in whatever
\* order they come and whatever is closed meanwhile, the running total of the Run is what
\* its root scope adds up, and one unknown contribution makes both unknown.
THEOREM UsageIsOne == TreeSpec => []UsageAgrees
<1>1. TreeInit => TreeInv /\ UsageInv
  BY InitSafe, UsageInitSafe
<1>2. (TreeInv /\ UsageInv) /\ [TreeNext]_treeVars => (TreeInv /\ UsageInv)'
  <2>1. ASSUME TreeInv, UsageInv, UNCHANGED treeVars PROVE (TreeInv /\ UsageInv)'
    <3>1. UsageShape'
      BY <2>1 DEF UsageInv, UsageShape, treeVars, lifecycle, facts
    <3>2. UNCHANGED <<given, usage>>
      BY <2>1 DEF treeVars, facts
    <3> QED
      BY <2>1, <3>1, <3>2, StutterSafe, UsageSame
  <2> QED
    BY <2>1, NextSafe, UsageNextSafe
<1>3. UsageInv => UsageAgrees
  BY DEF UsageInv
<1> QED
  BY <1>1, <1>2, <1>3, PTL DEF TreeSpec

-----------------------------------------------------------------------------
\* The events.

\* q is the k events before and with e, in the order of their numbers.
Latest(q, k, e) == k <= e /\ \A i \in 1..k : q[i] = e - k + i

Marked(q) == q # <<>> /\ q[Len(q)] = End
Rising(g) == \A i \in 1..Len(g) - 1 : g[i] < g[i + 1]
Missing(g) == g[Len(g)] - g[1] + 1 - Len(g)

\* How many events wait in a queue.
Held(q) == IF Marked(q) THEN Len(q) - 1 ELSE Len(q)

SubTypes(r) ==
    /\ r = Subscription(r.registered, r.queue, r.reader, r.got)
    /\ r.registered \in BOOLEAN /\ r.reader \in {"none", "reading", "closed", "ended"}
    /\ r.queue \in Seq(Nat) /\ r.got \in Seq(Nat)

\* A queue holds the latest of e events, then the end if that has come: fin says when.
QueueInv(r, e, fin) ==
    /\ Held(r.queue) <= QueueSize /\ Latest(r.queue, Held(r.queue), e)
    /\ r.queue # <<>> => (Marked(r.queue) <=> fin # NotYet)
    /\ r.reader = "reading" => IF fin = NotYet THEN r.registered ELSE r.queue # <<>>
    /\ r.registered => r.reader = "reading"
    /\ ~r.registered /\ fin = NotYet => r.queue = <<>>
    /\ r.reader = "none" \/ r.reader = "ended" => r.queue = <<>>

\* Whether a reader still has something to wait for.
Awaits(r) == r.reader = "reading" \/ r.queue # <<>>

\* What a reader received is older than the k events that wait for it, and what is missing
\* in it is among the d that were counted.
GotInv(reader, live, g, k, e, fin, d) ==
    /\ reader = "none" => g = <<>>
    /\ reader = "ended" => fin # NotYet /\ g # <<>> /\ g[Len(g)] = e
    /\ live /\ k = 0 => (g = <<>> /\ fin = NotYet) \/ (g # <<>> /\ g[Len(g)] = e)
    /\ Rising(g)
    /\ g # <<>> => g[1] >= 1 /\ g[Len(g)] <= e - k /\ Missing(g) <= d
    /\ g # <<>> /\ k > 0 => e - g[1] + 1 - Len(g) - k <= d

SubInv(r, e, fin, d) ==
    /\ SubTypes(r) /\ QueueInv(r, e, fin)
    /\ GotInv(r.reader, Awaits(r), r.got, Held(r.queue), e, fin, d)

EventsInv ==
    /\ emitted \in Nat /\ emitted <= MaxEvents + 1 /\ ended \in {NotYet, emitted}
    /\ ended = NotYet => emitted <= MaxEvents
    /\ dropped \in Nat
    /\ history \in Seq(Nat) /\ Len(history) <= ReplayLimit
    /\ Latest(history, Len(history), emitted) /\ (emitted > 0 => history # <<>>)
    /\ DOMAIN sub = Subscribers
    /\ \A s \in Subscribers : SubInv(sub[s], emitted, ended, dropped)

-----------------------------------------------------------------------------
\* Of ordinary events the first one goes.
LEMMA FirstGoes ==
    ASSUME NEW q \in Seq(Nat), NEW last, q # <<>>, \A i \in 1..Len(q) : q[i] # last
    PROVE  WithoutOne(q, last) = Tail(q)
<1> DEFINE I == {i \in 1..Len(q) : q[i] # last}
<1>1. I = 1..Len(q) /\ 1 \in I /\ Len(q) \in Nat
  <2>1. Len(q) \in Nat \ {0}
    BY EmptySeq
  <2> QED
    BY <2>1
<1>2. Min(I) = 1
  <2>1. Min(I) = CHOOSE x \in 1..Len(q) : \A y \in 1..Len(q) : x <= y
    BY <1>1 DEF Min
  <2>2. \A x \in 1..Len(q) : (\A y \in 1..Len(q) : x <= y) => x = 1
    BY <1>1
  <2>3. \A y \in 1..Len(q) : 1 <= y
    OBVIOUS
  <2> QED
    BY <1>1, <2>1, <2>2, <2>3
<1>3. SelectInSeq(q, LAMBDA e : e # last) = 1
  BY <1>1, <1>2 DEF SelectInSeq
<1>4. RemoveAt(q, 1) = Tail(q)
  <2>1. SubSeq(q, 1, 0) = <<>> /\ SubSeq(q, 2, Len(q)) = Tail(q) /\ Tail(q) \in Seq(Nat)
    BY SubSeqEmpty, TailIsSubSeq, HeadTailProperties
  <2>2. <<>> \o Tail(q) = Tail(q)
    BY <2>1, ConcatEmptySeq
  <2> QED
    BY <2>1, <2>2 DEF RemoveAt
<1> QED
  BY <1>3, <1>4 DEF WithoutOne

\* What a bounded list of ordinary events is after one more.
Pushed(q, full, e) == Append(IF full THEN Tail(q) ELSE q, e)

LEMMA PushedFields ==
    ASSUME NEW q \in Seq(Nat), NEW full \in BOOLEAN, full => q # <<>>, NEW e \in Nat,
           Latest(q, Len(q), e)
    PROVE  LET p == Pushed(q, full, e + 1)  m == IF full THEN Len(q) ELSE Len(q) + 1 IN
           /\ p \in Seq(Nat) /\ p # <<>> /\ Len(p) = m /\ Latest(p, m, e + 1) /\ p[m] = e + 1
<1>1. CASE full
  <2> DEFINE t == Tail(q)
  <2>1. t \in Seq(Nat) /\ Len(t) = Len(q) - 1 /\ \A i \in 1..Len(q) - 1 : t[i] = q[i + 1]
    BY <1>1, HeadTailProperties
  <2>2. Len(q) \in Nat \ {0}
    BY <1>1, EmptySeq
  <2> HIDE DEF t
  <2>3. Append(t, e + 1) \in Seq(Nat) /\ Len(Append(t, e + 1)) = Len(q)
        /\ Append(t, e + 1)[Len(q)] = e + 1
        /\ \A i \in 1..Len(q) - 1 : Append(t, e + 1)[i] = t[i]
    BY <2>1, <2>2
  <2>4. Latest(Append(t, e + 1), Len(q), e + 1)
    <3>1. Len(q) <= e
      BY DEF Latest
    <3>2. ASSUME NEW i \in 1..Len(q) PROVE Append(t, e + 1)[i] = ((e + 1) - Len(q)) + i
      <4>1. CASE i = Len(q)
        BY <2>2, <2>3, <4>1
      <4>2. CASE i # Len(q)
        <5>1. i \in 1..Len(q) - 1 /\ i + 1 \in 1..Len(q)
          BY <2>2, <4>2
        <5>2. Append(t, e + 1)[i] = q[i + 1]
          BY <2>1, <2>3, <5>1
        <5>3. q[i + 1] = e - Len(q) + (i + 1)
          <6>1. \A j \in 1..Len(q) : q[j] = e - Len(q) + j
            BY DEF Latest
          <6> QED
            BY <5>1, <6>1
        <5>4. e - Len(q) + (i + 1) = ((e + 1) - Len(q)) + i
          BY <2>2
        <5> QED
          BY <5>2, <5>3, <5>4
      <4> QED
        BY <4>1, <4>2
    <3>3. Len(q) <= e + 1
      BY <2>2, <3>1
    <3> QED
      BY <3>2, <3>3, Zenon DEF Latest
  <2> QED
    BY <1>1, <2>2, <2>3, <2>4 DEF Pushed, t
<1>2. CASE ~full
  <2>1. Append(q, e + 1) \in Seq(Nat) /\ Len(Append(q, e + 1)) = Len(q) + 1
        /\ Append(q, e + 1)[Len(q) + 1] = e + 1 /\ Len(q) \in Nat
        /\ \A i \in 1..Len(q) : Append(q, e + 1)[i] = q[i]
    OBVIOUS
  <2>2. Latest(Append(q, e + 1), Len(q) + 1, e + 1)
    BY <2>1 DEF Latest
  <2> QED
    BY <1>2, <2>1, <2>2 DEF Pushed
<1> QED
  BY <1>1, <1>2

\* No event before the terminal one is the terminal one.
LEMMA EnqueueFields ==
    ASSUME NEW q \in Seq(Nat), NEW e \in Nat, NEW last \in Nat, Latest(q, Len(q), e),
           last = 0 \/ last > e, Len(q) <= QueueSize
    PROVE  LET p == Enqueue(q, e + 1, last)
               m == IF Crowded(q) THEN Len(q) ELSE Len(q) + 1 IN
           /\ p = Pushed(q, Crowded(q), e + 1)
           /\ p \in Seq(Nat) /\ p # <<>> /\ Len(p) = m /\ Latest(p, m, e + 1) /\ p[m] = e + 1
           /\ m <= QueueSize
<1>1. \A i \in 1..Len(q) : q[i] # last
  BY DEF Latest
<1>2. Crowded(q) => q # <<>> /\ WithoutOne(q, last) = Tail(q)
  <2>1. Crowded(q) => q # <<>>
    BY RunEventsAssumption, EmptySeq DEF Crowded
  <2> QED
    BY <1>1, <2>1, FirstGoes
<1>3. Enqueue(q, e + 1, last) = Pushed(q, Crowded(q), e + 1)
  BY <1>2 DEF Enqueue, Pushed
<1>4. Crowded(q) \in BOOLEAN /\ (Crowded(q) <=> Len(q) >= QueueSize)
  BY DEF Crowded
<1> QED
  BY <1>2, <1>3, <1>4, PushedFields, RunEventsAssumption

LEMMA LatestEqual ==
    ASSUME NEW p \in Seq(Nat), NEW q \in Seq(Nat), NEW e \in Nat, Len(p) = Len(q),
           Latest(p, Len(p), e), Latest(q, Len(q), e)
    PROVE  p = q
<1>1. \A i \in 1..Len(p) : p[i] = q[i]
  BY DEF Latest
<1> QED
  BY <1>1, SeqEqual

\* The events of a replay, the first i of which were enqueued: the last of them are left.
LEMMA ReplayedFields ==
    ASSUME EventsInv, NEW events \in Seq(Nat), Latest(events, Len(events), emitted)
    PROVE  LET p == Replayed(events)
               m == IF Len(events) > QueueSize THEN QueueSize ELSE Len(events) IN
           p \in Seq(Nat) /\ Len(p) = m /\ Latest(p, m, emitted)
<1> DEFINE n == Len(events)
           Size(i) == IF i > QueueSize THEN QueueSize ELSE i
           c == [i \in 0..n |-> SubSeq(events, (i - Size(i)) + 1, i)]
           queue[i \in 0..n] == IF i = 0 THEN <<>> ELSE Enqueue(queue[i - 1], events[i], ended)
<1>1. n \in Nat /\ emitted \in Nat /\ n <= emitted /\ ended \in {0, emitted}
      /\ \A i \in 1..n : events[i] = (emitted - n) + i
  BY DEF EventsInv, Latest, NotYet
<1>2. \A i \in 0..n : Size(i) \in 0..i /\ Size(i) <= QueueSize
  BY <1>1, RunEventsAssumption
<1>3. ASSUME NEW i \in 0..n
      PROVE  c[i] \in Seq(Nat) /\ Len(c[i]) = Size(i)
             /\ Latest(c[i], Size(i), (emitted - n) + i)
  <2> DEFINE a == (i - Size(i)) + 1
  <2>1. a \in 1..(i + 1) /\ i \in Int /\ a \in Int /\ (i - a) + 1 = Size(i)
    BY <1>1, <1>2
  <2>2. \A j \in a..i : events[j] \in Nat
    BY <1>1, <2>1
  <2> HIDE DEF Size
  <2>3. SubSeq(events, a, i) \in Seq(Nat)
        /\ Len(SubSeq(events, a, i)) = (IF a <= i THEN (i - a) + 1 ELSE 0)
        /\ \A j \in 1..(i - a) + 1 : SubSeq(events, a, i)[j] = events[(a + j) - 1]
    <3> HIDE DEF a
    <3> QED
      BY <2>1, <2>2, SubSeqProperties
  <2>4. c[i] = SubSeq(events, a, i) /\ Len(c[i]) = Size(i)
    <3>1. c[i] = SubSeq(events, a, i)
      OBVIOUS
    <3> HIDE DEF a, c
    <3> QED
      BY <1>2, <2>1, <2>3, <3>1
  <2>5. ASSUME NEW j \in 1..Size(i) PROVE c[i][j] = (((emitted - n) + i) - Size(i)) + j
    <3> DEFINE k == Size(i)
    <3>0. k \in Nat /\ j \in 1..k /\ (i - a) + 1 = k /\ i \in 0..n /\ a \in 1..(i + 1)
      BY <1>2, <2>1
    <3> HIDE DEF a, c, k
    <3>1. (a + j) - 1 \in 1..n /\ j \in 1..(i - a) + 1
      BY <1>1, <3>0
    <3>2. (emitted - n) + ((a + j) - 1) = (((emitted - n) + i) - k) + j
      BY <1>1, <3>0
    <3>3. c[i][j] = events[(a + j) - 1]
      BY <2>3, <2>4, <3>1
    <3> QED
      BY <1>1, <3>1, <3>2, <3>3 DEF k
  <2>6. Size(i) <= (emitted - n) + i
    BY <1>1, <1>2
  <2> QED
    BY <2>3, <2>4, <2>5, <2>6 DEF Latest
<1>4. c[0] = <<>>
  <2>1. Len(c[0]) = 0 /\ c[0] \in Seq(Nat)
    BY <1>1, <1>2, <1>3
  <2> QED
    BY <2>1, EmptySeq
<1>5. ASSUME NEW i \in 1..n PROVE Enqueue(c[i - 1], events[i], ended) = c[i]
  <2> DEFINE q == c[i - 1]
             e == ((emitted - n) + i) - 1
  <2>1. i - 1 \in 0..n /\ i \in 0..n /\ e \in Nat /\ e + 1 = (emitted - n) + i
        /\ (emitted - n) + (i - 1) = e /\ events[i] = e + 1 /\ (ended = 0 \/ ended > e)
        /\ ended \in Nat
    BY <1>1
  <2>2. q \in Seq(Nat) /\ Len(q) = Size(i - 1) /\ Latest(q, Len(q), e) /\ Len(q) <= QueueSize
    BY <1>2, <1>3, <2>1
  <2>3. c[i] \in Seq(Nat) /\ Len(c[i]) = Size(i) /\ Latest(c[i], Len(c[i]), e + 1)
    BY <1>3, <2>1
  <2>4. (IF Crowded(q) THEN Len(q) ELSE Len(q) + 1) = Size(i)
    <3>1. Len(q) = (IF i - 1 > QueueSize THEN QueueSize ELSE i - 1)
      BY <2>2
    <3> HIDE DEF q, c
    <3> QED
      BY <3>1, RunEventsAssumption DEF Crowded
  <2> HIDE DEF q, c, e, Size
  <2>5. LET p == Enqueue(q, e + 1, ended) IN
        p \in Seq(Nat) /\ Len(p) = Size(i) /\ Latest(p, Size(i), e + 1)
    BY SMTT(30), <2>1, <2>2, <2>4, EnqueueFields
  <2>6. Enqueue(q, e + 1, ended) = c[i]
    <3> DEFINE p == Enqueue(q, e + 1, ended)
    <3>1. p \in Seq(Nat) /\ Len(p) = Len(c[i]) /\ Latest(p, Len(p), e + 1)
      BY <2>3, <2>5
    <3> HIDE DEF p
    <3>2. p = c[i]
      BY <2>1, <2>3, <3>1, LatestEqual
    <3> QED
      BY <3>2 DEF p
  <2> QED
    BY <2>1, <2>6 DEF q
<1>6. c = [i \in 0..n |-> IF i = 0 THEN <<>> ELSE Enqueue(c[i - 1], events[i], ended)]
  <2>1. \A i \in 0..n : c[i] = IF i = 0 THEN <<>> ELSE Enqueue(c[i - 1], events[i], ended)
    <3> HIDE DEF c
    <3>1. \A i \in 0..n : i # 0 => i \in 1..n
      BY <1>1
    <3> QED
      BY <1>4, <1>5, <3>1
  <2>2. c = [i \in 0..n |-> c[i]]
    OBVIOUS
  <2> QED
    BY <2>1, <2>2
<1> HIDE DEF c
<1>7. queue = [i \in 0..n |-> IF i = 0 THEN <<>> ELSE Enqueue(queue[i - 1], events[i], ended)]
  <2>1. \E f : f = [i \in 0..n |-> IF i = 0 THEN <<>> ELSE Enqueue(f[i - 1], events[i], ended)]
    BY <1>6
  <2> QED
    BY <2>1, Zenon
<1>8. Replayed(events) = queue[n]
  BY DEF Replayed
<1> HIDE DEF queue
<1>9. queue[n] = c[n]
  <2> DEFINE R == {ss \in Nat \X Nat : ss[1] < ss[2]}
             T == {i \in 0..n : queue[i] # c[i]}
  <2>1. SUFFICES ASSUME T # {} PROVE FALSE
    BY <1>1
  <2>2. PICK i \in T : \A j \in T : ~ (<<j, i>> \in R)
    <3>1. IsWellFoundedOn(R, Nat) /\ T \subseteq Nat
      BY <1>1, NatLessThanWellFounded DEF OpToRel
    <3> HIDE DEF R, T
    <3> QED
      BY <2>1, <3>1, WFMin
  <2>3. i \in 0..n /\ queue[i] # c[i]
    BY <2>2
  <2>4. i # 0
    BY <1>1, <1>4, <1>7, <2>3
  <2>5. i \in 1..n /\ i - 1 \in 0..n /\ i - 1 < i /\ i - 1 \in Nat /\ i \in Nat
    BY <1>1, <2>3, <2>4
  <2>6. queue[i - 1] = c[i - 1]
    BY <2>2, <2>5
  <2> QED
    BY <1>5, <1>7, <2>3, <2>4, <2>5, <2>6
<1>10. n \in 0..n /\ (emitted - n) + n = emitted
  BY <1>1
<1> QED
  BY <1>3, <1>8, <1>9, <1>10

-----------------------------------------------------------------------------
LEMMA EventsInitSafe == EventsInit => EventsInv
<1> SUFFICES ASSUME EventsInit PROVE EventsInv
  OBVIOUS
<1>1. <<>> \in Seq(Nat) /\ Len(<<>>) = 0
  BY EmptySeq
<1>0. Latest(<<>>, 0, 0)
  BY DEF Latest
<1>2. ASSUME NEW s \in Subscribers PROVE SubInv(sub[s], emitted, ended, dropped)
  <2>1. sub[s] = Subscription(FALSE, <<>>, "none", <<>>)
    BY <1>2 DEF EventsInit
  <2>2. sub[s] = [registered |-> FALSE, queue |-> <<>>, reader |-> "none", got |-> <<>>]
    BY <2>1 DEF Subscription
  <2>3. /\ sub[s].queue = <<>> /\ sub[s].got = <<>> /\ sub[s].registered = FALSE
        /\ sub[s].reader = "none"
    BY <2>2
  <2>4. SubTypes(sub[s])
    BY <1>1, <2>1, <2>3 DEF SubTypes
  <2>5. Held(<<>>) = 0 /\ ~Marked(<<>>)
    BY <1>1 DEF Held, Marked
  <2>6. QueueInv(sub[s], emitted, ended)
    <3>1. emitted = 0 /\ ended = NotYet /\ 0 <= QueueSize
      BY RunEventsAssumption DEF EventsInit
    <3> QED
      BY <1>0, <2>3, <2>5, <3>1 DEF QueueInv
  <2>7. GotInv("none", FALSE, <<>>, 0, 0, NotYet, 0)
    BY <1>1 DEF GotInv, Rising
  <2> QED
    BY <2>3, <2>4, <2>5, <2>6, <2>7 DEF EventsInit, SubInv, Awaits
<1>3. emitted = 0 /\ ended = 0 /\ history = <<>> /\ dropped = 0 /\ DOMAIN sub = Subscribers
  BY DEF EventsInit, NotYet
<1> QED
  BY <1>0, <1>1, <1>2, <1>3, RunEventsAssumption DEF EventsInv, NotYet

LEMMA GotFields ==
    ASSUME NEW g \in Seq(Nat), g # <<>>
    PROVE  Len(g) \in Nat \ {0} /\ g[1] \in Nat /\ g[Len(g)] \in Nat
<1>1. Len(g) \in Nat \ {0}
  BY EmptySeq
<1> QED
  BY <1>1

LEMMA HeldFields ==
    ASSUME NEW q \in Seq(Nat)
    PROVE  Held(q) \in Nat /\ Len(q) \in Nat /\ Held(q) <= Len(q) /\ Held(<<>>) = 0
<1>1. q # <<>> => Len(q) \in Nat \ {0}
  BY EmptySeq
<1>2. ~Marked(<<>>) /\ Len(<<>>) = 0
  BY EmptySeq DEF Marked
<1> QED
  BY <1>1, <1>2 DEF Held, Marked

\* Where no event has come since.
LEMMA OtherSafe ==
    ASSUME NEW r, NEW e \in Nat, NEW fin, NEW d \in Nat, NEW d1 \in Nat, d1 >= d,
           SubInv(r, e, fin, d)
    PROVE  SubInv(r, e, fin, d1)
<1> DEFINE g == r.got
           k == Held(r.queue)
<1>1. GotInv(r.reader, Awaits(r), g, k, e, fin, d)
  BY DEF SubInv
<1>2. k \in Nat /\ g \in Seq(Nat)
  BY HeldFields DEF SubInv, SubTypes
<1> HIDE DEF g, k
<1>3. GotInv(r.reader, Awaits(r), g, k, e, fin, d1)
  BY SMTT(30), <1>1, <1>2, GotFields DEF GotInv, Missing
<1> QED
  BY <1>3 DEF SubInv, g, k

\* The mark of the end goes behind the events.
LEMMA EndFields ==
    ASSUME NEW p \in Seq(Nat), p # <<>>, NEW e \in Nat, Latest(p, Len(p), e), p[Len(p)] = e,
           e # 0, Len(p) <= QueueSize, NEW terminal \in BOOLEAN
    PROVE  LET q == IF terminal THEN EnqueueEnd(p) ELSE p IN
           /\ q \in Seq(Nat) /\ q # <<>> /\ Held(q) = Len(p) /\ (Marked(q) <=> terminal)
           /\ Latest(q, Len(p), e)
<1>1. CASE terminal
  <2>1. EnqueueEnd(p) = Append(p, End)
    BY RunEventsAssumption DEF EnqueueEnd
  <2> DEFINE q == Append(p, End)
  <2>2. /\ q \in Seq(Nat) /\ Len(q) = Len(p) + 1 /\ q[Len(p) + 1] = End
        /\ \A i \in 1..Len(p) : q[i] = p[i]
    BY DEF End
  <2>3. Len(p) \in Nat
    OBVIOUS
  <2> HIDE DEF q
  <2>4. q # <<>>
    BY <2>2, <2>3, EmptySeq
  <2>5. Marked(q) /\ Held(q) = Len(p)
    BY <2>2, <2>3, <2>4 DEF Marked, Held
  <2>6. Latest(q, Len(p), e)
    BY <2>2 DEF Latest
  <2> QED
    BY <1>1, <2>1, <2>2, <2>4, <2>5, <2>6 DEF q
<1>2. CASE ~terminal
  BY <1>2 DEF Held, Marked, End
<1> QED
  BY <1>1, <1>2

\* What one subscription has when an event was emitted, with the latest event dropped for
\* it counted.
LEMMA DeliverSafe ==
    ASSUME NEW r, NEW e \in Nat, NEW d \in Nat, NEW d1 \in Nat, d1 >= d,
           SubInv(r, e, NotYet, d), NEW terminal \in BOOLEAN, NEW fin,
           fin = IF terminal THEN e + 1 ELSE NotYet,
           r.registered /\ Crowded(r.queue) => d1 >= d + 1
    PROVE  LET p == Enqueue(r.queue, e + 1, fin) IN
           SubInv(IF r.registered THEN [r EXCEPT !.queue = IF terminal THEN EnqueueEnd(p) ELSE p]
                  ELSE r, e + 1, fin, d1)
<1> DEFINE q == r.queue
           g == r.got
           p == Enqueue(q, e + 1, fin)
           q1 == IF terminal THEN EnqueueEnd(p) ELSE p
           r1 == [r EXCEPT !.queue = q1]
<1>1. /\ q \in Seq(Nat) /\ g \in Seq(Nat) /\ ~Marked(q) /\ Held(q) = Len(q)
      /\ Len(q) <= QueueSize /\ Latest(q, Len(q), e) /\ Len(q) \in Nat
  <2>1. ~Marked(q)
    <3>1. q = <<>> => ~Marked(q)
      BY DEF Marked
    <3> QED
      BY <3>1 DEF SubInv, QueueInv
  <2> QED
    BY <2>1 DEF SubInv, SubTypes, QueueInv, Held
<1>2. fin \in Nat /\ (fin = 0 \/ fin > e) /\ (fin # NotYet <=> terminal)
  BY DEF NotYet
<1>3. GotInv(r.reader, Awaits(r), g, Len(q), e, NotYet, d)
  BY <1>1 DEF SubInv
<1>4. g # <<>> => Len(g) \in Nat \ {0} /\ g[1] \in Nat /\ g[Len(g)] \in Nat
  BY <1>1, GotFields
<1>5. CASE r.registered
  <2>1. r.reader = "reading"
    BY <1>5 DEF SubInv, QueueInv
  <2> DEFINE m == IF Crowded(q) THEN Len(q) ELSE Len(q) + 1
  <2>2. /\ p \in Seq(Nat) /\ p # <<>> /\ Len(p) = m /\ Latest(p, m, e + 1)
        /\ p[m] = e + 1 /\ m <= QueueSize
    <3> HIDE DEF q
    <3> QED
      BY SMTT(30), <1>1, <1>2, EnqueueFields
  <2>3. m \in Nat \ {0}
    BY <2>2, EmptySeq
  <2>4. /\ q1 \in Seq(Nat) /\ q1 # <<>> /\ Held(q1) = m /\ (Marked(q1) <=> terminal)
        /\ Latest(q1, m, e + 1)
    <3> HIDE DEF p, m, q
    <3> QED
      BY <2>2, <2>3, EndFields
  <2>5. r = Subscription(r.registered, q, r.reader, g)
    BY DEF SubInv, SubTypes
  <2>6. /\ r1 = Subscription(r.registered, q1, r.reader, g) /\ r1.queue = q1 /\ r1.got = g
        /\ r1.registered = r.registered /\ r1.reader = r.reader
    <3> HIDE DEF q1
    <3> QED
      BY <2>5 DEF Subscription
  <2>7. SubTypes(r1)
    <3> HIDE DEF q1, r1
    <3> QED
      BY <1>1, <2>4, <2>6 DEF SubInv, SubTypes
  <2>8. QueueInv(r1, e + 1, fin)
    <3> HIDE DEF q1, r1, m, q
    <3> QED
      BY <1>2, <1>5, <2>1, <2>2, <2>4, <2>6 DEF QueueInv
  <2>9. GotInv("reading", TRUE, g, m, e + 1, fin, d1)
    <3>1. Crowded(q) => Len(q) > 0 /\ d1 >= d + 1
      BY <1>1, <1>5, RunEventsAssumption DEF Crowded
    <3>2. Rising(g)
      BY <1>3 DEF GotInv
    <3>3. ASSUME g # <<>>
          PROVE  /\ g[1] >= 1 /\ g[Len(g)] <= (e + 1) - m /\ Missing(g) <= d1
                 /\ (e + 1) - g[1] + 1 - Len(g) - m <= d1
      <4> DEFINE l == Len(g)
                 first == g[1]
                 final == g[Len(g)]
                 k == Len(q)
      <4>0. Awaits(r)
        BY <2>1 DEF Awaits
      <4>1. /\ first >= 1 /\ final <= e - k /\ final - first + 1 - l <= d
            /\ k > 0 => e - first + 1 - l - k <= d
            /\ k = 0 => final = e
        BY <1>3, <3>3, <4>0 DEF GotInv, Missing
      <4>2. first \in Nat /\ final \in Nat /\ l \in Nat /\ k \in Nat /\ (m = k \/ m = k + 1)
            /\ (m = k => k > 0 /\ d1 >= d + 1)
        BY <1>1, <1>4, <3>1, <3>3
      <4> HIDE DEF l, first, final, k, m, g, q
      <4>3. final - first + 1 - l <= d1 /\ final <= (e + 1) - m
            /\ (e + 1) - first + 1 - l - m <= d1
        BY <4>1, <4>2
      <4> QED
        BY <4>1, <4>3 DEF Missing, l, first, final
    <3> HIDE DEF m, g, q
    <3> QED
      BY <2>3, <3>2, <3>3 DEF GotInv
  <2> HIDE DEF r1, m
  <2>10. SubInv(r1, e + 1, fin, d1)
    BY <2>1, <2>4, <2>6, <2>7, <2>8, <2>9 DEF SubInv, Awaits
  <2> QED
    BY <1>5, <2>10 DEF r1
<1>6. CASE ~r.registered
  <2>1. q = <<>> /\ Len(q) = 0 /\ r.reader # "reading" /\ r.reader # "ended"
    <3>1. q = <<>>
      BY <1>6 DEF SubInv, QueueInv
    <3>2. r.reader # "reading" /\ r.reader # "ended"
      BY <1>3, <1>6 DEF SubInv, QueueInv, GotInv
    <3> QED
      BY <3>1, <3>2, EmptySeq
  <2>2. QueueInv(r, e + 1, fin)
    BY <1>1, <1>6, <2>1 DEF SubInv, QueueInv, Latest
  <2>0. ~Awaits(r)
    BY <2>1 DEF Awaits
  <2>3. GotInv(r.reader, Awaits(r), g, 0, e + 1, fin, d1)
    <3> HIDE DEF g, q
    <3> QED
      BY <1>3, <1>4, <2>0, <2>1 DEF GotInv, Missing
  <2> QED
    BY <1>1, <1>6, <2>1, <2>2, <2>3 DEF SubInv
<1> QED
  BY <1>5, <1>6

LEMMA EmitSafe == ASSUME EventsInv, NEW terminal \in BOOLEAN, Emit(terminal) PROVE EventsInv'
<1> DEFINE e == emitted
           fin == IF terminal THEN emitted + 1 ELSE NotYet
           full == {s \in Subscribers : sub[s].registered /\ Crowded(sub[s].queue)}
<1>1. /\ emitted \in Nat /\ ended = NotYet /\ dropped \in Nat /\ emitted <= MaxEvents
      /\ emitted' = emitted + 1 /\ ended' = fin /\ dropped' = dropped + Cardinality(full)
      /\ history' = Retain(history, emitted + 1, fin)
  BY DEF Emit, EventsInv, NotYet
<1>2. Cardinality(full) \in Nat /\ \A s \in full : Cardinality(full) >= 1
  <2>1. IsFiniteSet(full)
    <3>1. full \subseteq Subscribers
      OBVIOUS
    <3> QED
      BY <3>1, RunEventsAssumption, FS_Subset
  <2>2. Cardinality(full) \in Nat /\ (full # {} => Cardinality(full) # 0)
    <3> HIDE DEF full
    <3> QED
      BY <2>1, FS_CardinalityType, FS_EmptySet
  <2> HIDE DEF full
  <2> QED
    BY <2>2
<1>3. ASSUME NEW s \in Subscribers PROVE SubInv(sub[s], emitted, ended, dropped)'
  <2> DEFINE r == sub[s]
             p == Enqueue(r.queue, e + 1, fin)
  <2>1. SubInv(r, e, NotYet, dropped)
    BY <1>1 DEF EventsInv
  <2>2. sub'[s] = IF r.registered THEN [r EXCEPT !.queue = IF terminal THEN EnqueueEnd(p) ELSE p]
                  ELSE r
    BY <1>1 DEF Emit
  <2>3. dropped' \in Nat /\ dropped' >= dropped
        /\ (r.registered /\ Crowded(r.queue) => dropped' >= dropped + 1)
    <3>1. r.registered /\ Crowded(r.queue) => s \in full
      OBVIOUS
    <3> HIDE DEF full, r
    <3> QED
      BY <1>1, <1>2, <3>1
  <2>4. SubInv(sub'[s], e + 1, fin, dropped')
    <3> HIDE DEF r
    <3> QED
      BY <1>1, <2>1, <2>2, <2>3, DeliverSafe
  <2> QED
    BY <1>1, <2>4
<1>4. history' \in Seq(Nat) /\ Len(history') <= ReplayLimit /\ history' # <<>>
      /\ Latest(history', Len(history'), emitted + 1)
  <2> DEFINE h == history
             most == Len(h) >= ReplayLimit
  <2>1. h \in Seq(Nat) /\ Len(h) <= ReplayLimit /\ Latest(h, Len(h), emitted) /\ most \in BOOLEAN
    BY DEF EventsInv
  <2>2. most => h # <<>>
    BY RunEventsAssumption, EmptySeq
  <2>3. \A i \in 1..Len(h) : h[i] # fin
    BY <1>1, <2>1 DEF Latest, NotYet
  <2>4. most => WithoutOne(h, fin) = Tail(h)
    <3> HIDE DEF h, fin, most
    <3> QED
      BY <2>1, <2>2, <2>3, FirstGoes
  <2>5. history' = Pushed(h, most, emitted + 1)
    BY <1>1, <2>4 DEF Retain, Pushed
  <2>6. LET m == IF most THEN Len(h) ELSE Len(h) + 1 IN
        /\ history' \in Seq(Nat) /\ history' # <<>> /\ Len(history') = m
        /\ Latest(history', m, emitted + 1)
    <3> HIDE DEF h, most
    <3> QED
      BY <1>1, <2>1, <2>2, <2>5, PushedFields
  <2>7. Len(h) \in Nat /\ (~most => Len(h) + 1 <= ReplayLimit)
    BY <2>1, RunEventsAssumption
  <2> QED
    BY <2>1, <2>6, <2>7
<1>5. DOMAIN sub' = Subscribers
  BY DEF Emit
<1>6. emitted' \in Nat /\ emitted' <= MaxEvents + 1 /\ ended' \in {NotYet, emitted'}
  BY <1>1, RunEventsAssumption
<1>7. ended' = NotYet => emitted' <= MaxEvents
  BY <1>1, RunEventsAssumption DEF Emit, NotYet
<1>8. dropped' \in Nat
  BY <1>1, <1>2
<1> QED
  BY <1>1, <1>3, <1>4, <1>5, <1>6, <1>7, <1>8 DEF EventsInv

\* A step of one subscription that no event comes with.
LEMMA OneSafe ==
    ASSUME EventsInv, NEW s \in Subscribers, NEW x, sub' = [sub EXCEPT ![s] = x],
           UNCHANGED <<emitted, ended, history>>, dropped' \in Nat, dropped' >= dropped,
           SubInv(x, emitted, ended, dropped')
    PROVE  EventsInv'
<1>1. emitted \in Nat /\ dropped \in Nat
  BY DEF EventsInv
<1>2. ASSUME NEW t \in Subscribers PROVE SubInv(sub[t], emitted, ended, dropped)'
  <2>1. SubInv(sub[t], emitted, ended, dropped) /\ DOMAIN sub = Subscribers
    BY DEF EventsInv
  <2>2. SubInv(sub[t], emitted, ended, dropped')
    BY <1>1, <2>1, OtherSafe
  <2>3. sub'[t] = IF t = s THEN x ELSE sub[t]
    BY <2>1
  <2>4. SubInv(sub'[t], emitted, ended, dropped')
    BY <2>2, <2>3
  <2> QED
    BY <2>4
<1> QED
  BY <1>2 DEF EventsInv

LEMMA SubscribeSafe ==
    ASSUME EventsInv, NEW s \in Subscribers, NEW replay \in 1..ReplayLimit, Subscribe(s, replay)
    PROVE  EventsInv'
<1> DEFINE h == history
           first == IF replay < Len(h) THEN Len(h) - replay + 1 ELSE 1
           retained == SubSeq(h, first, Len(h))
           q == Replayed(retained)
           terminal == ended # NotYet
           q1 == IF terminal THEN EnqueueEnd(q) ELSE q
           x == Subscription(ended = NotYet, q1, "reading", <<>>)
<1>1. /\ emitted \in Nat /\ ended \in {NotYet, emitted} /\ dropped \in Nat /\ h \in Seq(Nat)
      /\ Latest(h, Len(h), emitted) /\ (emitted > 0 => h # <<>>) /\ Len(h) \in Nat
  BY DEF EventsInv
<1>2. first \in Nat \ {0} /\ first \in Int /\ first <= Len(h) + 1 /\ (h # <<>> => first <= Len(h))
  <2>1. h # <<>> => Len(h) \in Nat \ {0}
    BY <1>1, EmptySeq
  <2> QED
    BY <1>1, <2>1
<1>3. /\ retained \in Seq(Nat) /\ Latest(retained, Len(retained), emitted)
      /\ Len(retained) \in Nat /\ (h # <<>> => Len(retained) > 0)
  <2>1. \A i \in first..Len(h) : h[i] \in Nat
    BY <1>1, <1>2
  <2> HIDE DEF first, h
  <2>2. /\ retained \in Seq(Nat)
        /\ Len(retained) = (IF first <= Len(h) THEN (Len(h) - first) + 1 ELSE 0)
        /\ \A i \in 1..(Len(h) - first) + 1 : retained[i] = h[(first + i) - 1]
    BY <1>1, <1>2, <2>1, SubSeqProperties
  <2> DEFINE n == Len(retained)
  <2>3. n = (Len(h) - first) + 1 /\ n \in Nat /\ n <= Len(h)
    BY <1>1, <1>2, <2>2
  <2> HIDE DEF retained, n
  <2>4. n <= emitted
    BY <1>1, <2>3 DEF Latest
  <2>5. ASSUME NEW i \in 1..n PROVE retained[i] = (emitted - n) + i
    <3>1. (first + i) - 1 \in 1..Len(h) /\ i \in 1..(Len(h) - first) + 1
      BY <1>1, <1>2, <2>3
    <3>2. retained[i] = (emitted - Len(h)) + ((first + i) - 1)
      BY <1>1, <2>2, <3>1 DEF Latest
    <3> QED
      BY <1>1, <1>2, <2>3, <3>2
  <2> QED
    BY <1>2, <2>2, <2>3, <2>4, <2>5 DEF Latest, n
<1>4. /\ q \in Seq(Nat) /\ Len(q) \in Nat /\ Len(q) <= QueueSize /\ Len(q) <= Len(retained)
      /\ Latest(q, Len(q), emitted) /\ (h # <<>> => Len(q) > 0)
  <2> HIDE DEF retained, h
  <2>1. q \in Seq(Nat) /\ Len(q) = (IF Len(retained) > QueueSize THEN QueueSize ELSE Len(retained))
        /\ Latest(q, Len(q), emitted)
    BY <1>3, ReplayedFields
  <2> HIDE DEF q
  <2> QED
    BY <1>3, <2>1, RunEventsAssumption
<1>5. q # <<>> => Len(q) \in Nat \ {0} /\ q[Len(q)] = emitted /\ emitted # 0
  <2> HIDE DEF q
  <2>1. q # <<>> => Len(q) \in Nat \ {0}
    BY <1>4, EmptySeq
  <2> QED
    BY SMTT(30), <1>1, <1>4, <2>1 DEF Latest
<1>6. terminal => q # <<>>
  <2>1. terminal => emitted > 0
    BY <1>1 DEF NotYet
  <2> HIDE DEF q
  <2> QED
    BY <1>1, <1>4, <2>1, EmptySeq
<1>7. /\ q1 \in Seq(Nat) /\ Held(q1) = Len(q) /\ Latest(q1, Len(q), emitted)
      /\ (terminal => q1 # <<>>) /\ (q1 # <<>> => (Marked(q1) <=> terminal))
  <2>1. CASE q # <<>>
    <3>1. terminal \in BOOLEAN
      OBVIOUS
    <3> HIDE DEF q, terminal
    <3> QED
      BY <1>1, <1>4, <1>5, <2>1, <3>1, EndFields
  <2>2. CASE q = <<>>
    <3>1. q1 = <<>> /\ ~terminal
      BY <1>6, <2>2
    <3> HIDE DEF q, q1, terminal
    <3> QED
      BY <1>4, <2>2, <3>1, HeldFields
  <2> QED
    BY <2>1, <2>2
<1>8. SubTypes(x) /\ x.registered = (ended = NotYet) /\ x.queue = q1 /\ x.reader = "reading"
      /\ x.got = <<>>
  <2> HIDE DEF q1
  <2> QED
    BY <1>7 DEF SubTypes, Subscription
<1>9. dropped' = dropped + Len(retained) - Len(q) /\ UNCHANGED <<emitted, ended, history>>
      /\ sub' = [sub EXCEPT ![s] = x]
  BY DEF Subscribe
<1>10. dropped' \in Nat /\ dropped' >= dropped
  <2> HIDE DEF q, retained, x
  <2> QED
    BY <1>1, <1>3, <1>4, <1>9
<1>11. SubInv(x, emitted, ended, dropped')
  <2>1. terminal <=> ended # NotYet
    OBVIOUS
  <2>2. h # <<>> \/ ~terminal
    BY <1>1 DEF NotYet
  <2> HIDE DEF q, q1, x, terminal, h, retained
  <2>3. QueueInv(x, emitted, ended)
    BY <1>4, <1>7, <1>8, <2>1 DEF QueueInv
  <2>4. GotInv("reading", TRUE, <<>>, Len(q), emitted, ended, dropped')
    <3>1. Rising(<<>>)
      BY EmptySeq DEF Rising
    <3> QED
      BY <1>4, <2>1, <2>2, <3>1 DEF GotInv
  <2> QED
    BY <1>7, <1>8, <2>3, <2>4 DEF SubInv, Awaits
<1> HIDE DEF x
<1> QED
  BY <1>9, <1>10, <1>11, OneSafe

LEMMA EmptyIff ==
    ASSUME NEW q \in Seq(Nat) PROVE Len(q) \in Nat /\ (q = <<>> <=> Len(q) = 0)
  BY EmptySeq

LEMMA TailFields ==
    ASSUME NEW q \in Seq(Nat), q # <<>>
    PROVE  Tail(q) \in Seq(Nat) /\ Len(Tail(q)) = Len(q) - 1 /\ (Tail(q) = <<>> <=> Len(q) = 1)
<1>1. Tail(q) \in Seq(Nat) /\ Len(Tail(q)) = Len(q) - 1 /\ Len(q) \in Nat
  BY HeadTailProperties, EmptyIff
<1>2. Tail(q) = <<>> <=> Len(Tail(q)) = 0
  BY <1>1, EmptyIff
<1> QED
  BY SMTT(30), <1>1, <1>2

LEMMA AppendFields ==
    ASSUME NEW g \in Seq(Nat), NEW h \in Nat
    PROVE  /\ Append(g, h) \in Seq(Nat) /\ Len(Append(g, h)) = Len(g) + 1 /\ Len(g) \in Nat
           /\ Append(g, h)[Len(g) + 1] = h /\ \A i \in 1..Len(g) : Append(g, h)[i] = g[i]
           /\ Append(g, h) # <<>> /\ (g = <<>> <=> Len(g) = 0)
<1>1. /\ Append(g, h) \in Seq(Nat) /\ Len(Append(g, h)) = Len(g) + 1 /\ Len(g) \in Nat
      /\ Append(g, h)[Len(g) + 1] = h /\ \A i \in 1..Len(g) : Append(g, h)[i] = g[i]
  OBVIOUS
<1>2. Append(g, h) # <<>>
  BY <1>1, EmptyIff
<1> QED
  BY <1>1, <1>2, EmptyIff

\* Receiving one of the k waiting events changes nothing in what is missing.
LEMMA OneReceived ==
    ASSUME NEW e \in Nat, NEW k \in Nat, NEW l \in Nat, NEW f \in Nat
    PROVE  /\ (e - (k - 1)) - f + 1 - (l + 1) = e - f + 1 - l - k
           /\ e - f + 1 - (l + 1) - (k - 1) = e - f + 1 - l - k
  OBVIOUS

LEMMA ReadSafe == ASSUME EventsInv, NEW s \in Subscribers, Read(s) PROVE EventsInv'
<1> DEFINE r == sub[s]
           q == r.queue
           g == r.got
           k == Held(q)
           e == emitted
<1>1. /\ r.reader \in {"reading", "closed"} /\ q # <<>> /\ dropped' = dropped
      /\ UNCHANGED <<emitted, ended, history>> /\ e \in Nat /\ dropped \in Nat
      /\ ended \in {NotYet, e} /\ DOMAIN sub = Subscribers
  BY DEF Read, EventsInv
<1>2. SubTypes(r) /\ QueueInv(r, e, ended) /\ GotInv(r.reader, Awaits(r), g, k, e, ended, dropped)
  BY DEF EventsInv, SubInv
<1>3. /\ q \in Seq(Nat) /\ g \in Seq(Nat) /\ Latest(q, k, e) /\ k <= QueueSize
      /\ (Marked(q) <=> ended # NotYet) /\ Awaits(r)
      /\ Len(q) \in Nat \ {0} /\ k \in Nat /\ k <= Len(q)
  <2>1. q \in Seq(Nat) /\ g \in Seq(Nat) /\ Latest(q, k, e) /\ k <= QueueSize
        /\ (Marked(q) <=> ended # NotYet)
    BY <1>1, <1>2 DEF SubTypes, QueueInv
  <2>2. Awaits(r)
    BY <1>1 DEF Awaits
  <2> HIDE DEF q, g
  <2> QED
    BY <1>1, <2>1, <2>2, EmptySeq, HeldFields
<1>4. /\ Head(q) = q[1] /\ Tail(q) \in Seq(Nat) /\ Len(Tail(q)) = Len(q) - 1
      /\ \A i \in 1..Len(q) - 1 : Tail(q)[i] = q[i + 1]
  <2> HIDE DEF q
  <2> QED
    BY <1>1, <1>3, HeadTailProperties
<1>5. r = Subscription(r.registered, q, r.reader, g) /\ r.registered \in BOOLEAN
  BY <1>2 DEF SubTypes
<1>6. g # <<>> => Len(g) \in Nat \ {0} /\ g[1] \in Nat /\ g[Len(g)] \in Nat
  BY <1>3, GotFields
<1>7. CASE Head(q) = End
  <2> DEFINE x == Subscription(FALSE, <<>>, "ended", g)
  <2>1. k = 0 /\ Marked(q) /\ Len(q) = 1
    <3> HIDE DEF q
    <3>1. k = 0
      <4>1. k >= 1 => q[1] = (e - k) + 1 /\ k <= e
        BY <1>3 DEF Latest
      <4> HIDE DEF k
      <4> QED
        BY <1>1, <1>3, <1>4, <1>7, <4>1 DEF End
    <3> QED
      BY <1>3, <3>1 DEF Held
  <2>2. Tail(q) = <<>>
    <3> HIDE DEF q
    <3> QED
      BY <1>1, <1>3, <2>1, TailFields
  <2>3. sub' = [sub EXCEPT ![s] = x]
    <3>1. sub' = [sub EXCEPT ![s] = Removed(r, Tail(q), "ended")]
      BY <1>7 DEF Read
    <3>2. Removed(r, Tail(q), "ended") = x
      BY <2>2 DEF Removed
    <3> QED
      BY <3>1, <3>2
  <2>4. SubInv(x, emitted, ended, dropped')
    <3>1. x.registered = FALSE /\ x.queue = <<>> /\ x.reader = "ended" /\ x.got = g
      BY DEF Subscription
    <3>2. SubTypes(x)
      <4> HIDE DEF x, g
      <4>1. x = Subscription(FALSE, <<>>, "ended", g)
        BY DEF x
      <4> QED
        BY <1>3, <3>1, <4>1, EmptySeq DEF SubTypes
    <3>3. Held(<<>>) = 0 /\ Latest(<<>>, 0, e) /\ 0 <= QueueSize /\ ended # NotYet
      BY <1>1, <1>3, <2>1, HeldFields, RunEventsAssumption DEF Latest
    <3> HIDE DEF x
    <3>4. QueueInv(x, e, ended)
      BY <3>1, <3>3 DEF QueueInv
    <3>5. GotInv("ended", FALSE, g, 0, e, ended, dropped)
      <4> HIDE DEF g, k
      <4> QED
        BY <1>1, <1>2, <1>3, <1>6, <2>1, <3>3 DEF GotInv
    <3>6. Awaits(x) = FALSE
      BY <3>1 DEF Awaits
    <3> HIDE DEF g
    <3> QED
      BY <1>1, <3>1, <3>2, <3>3, <3>4, <3>5, <3>6 DEF SubInv
  <2> HIDE DEF x
  <2>9. dropped' \in Nat /\ dropped' >= dropped
    BY <1>1
  <2> QED
    BY <1>1, <2>3, <2>4, <2>9, OneSafe
<1>8. CASE Head(q) # End
  <2> DEFINE h == q[1]
             t == Tail(q)
             g1 == Append(g, h)
             x == Subscription(r.registered, t, r.reader, g1)
  <2>1. k >= 1 /\ h = (e - k) + 1 /\ h \in Nat \ {0} /\ k <= e
    <3> HIDE DEF q
    <3>1. k >= 1
      BY <1>3, <1>4, <1>8 DEF Held, Marked
    <3>2. h = (e - k) + 1 /\ k <= e
      BY <1>3, <3>1 DEF Latest
    <3> HIDE DEF k, h
    <3> QED
      BY <1>1, <1>3, <3>1, <3>2
  <2>2. /\ t \in Seq(Nat) /\ Held(t) = k - 1 /\ (t # <<>> => (Marked(t) <=> Marked(q)))
        /\ (Marked(q) => t # <<>>)
    <3>1. Len(t) = Len(q) - 1 /\ t \in Seq(Nat) /\ (t = <<>> <=> Len(q) = 1)
      <4> HIDE DEF q
      <4> QED
        BY <1>1, <1>3, TailFields
    <3>2. Marked(q) => Len(q) # 1
      BY <1>4, <1>8 DEF Marked
    <3>3. t # <<>> => t[Len(t)] = q[Len(q)]
      <4> HIDE DEF q
      <4> QED
        BY <1>3, <1>4, <3>1
    <3>4. t # <<>> => (Marked(t) <=> Marked(q))
      BY <1>1, <3>3 DEF Marked
    <3> HIDE DEF q, t
    <3>5. Held(t) = k - 1
      BY <1>3, <3>1, <3>2, <3>4 DEF Held, Marked
    <3> QED
      BY <3>1, <3>2, <3>4, <3>5
  <2>3. Latest(t, k - 1, e)
    <3>1. \A i \in 1..k - 1 : t[i] = (e - (k - 1)) + i
      <4> HIDE DEF q, k
      <4> QED
        BY <1>1, <1>3, <1>4, <2>1 DEF Latest
    <3> HIDE DEF k, t
    <3> QED
      BY <1>1, <1>3, <2>1, <3>1 DEF Latest
  <2>4. /\ g1 \in Seq(Nat) /\ Len(g1) = Len(g) + 1 /\ g1[Len(g) + 1] = h /\ Len(g) \in Nat
        /\ (\A i \in 1..Len(g) : g1[i] = g[i]) /\ g1 # <<>> /\ (g = <<>> <=> Len(g) = 0)
    <3> HIDE DEF g, h
    <3> QED
      BY <1>3, <2>1, AppendFields
  <2>5. sub' = [sub EXCEPT ![s] = x]
    <3>1. sub' = [sub EXCEPT ![s] =
                    Subscription(r.registered, Tail(q), r.reader, Append(g, Head(q)))]
      BY <1>8 DEF Read
    <3> QED
      BY <1>4, <3>1
  <2>6. SubInv(x, emitted, ended, dropped')
    <3>1. x.registered = r.registered /\ x.queue = t /\ x.reader = r.reader /\ x.got = g1
      BY DEF Subscription
    <3>2. SubTypes(x)
      <4> HIDE DEF x, g1, t
      <4>1. x = Subscription(r.registered, t, r.reader, g1)
        BY DEF x
      <4> QED
        BY <1>1, <1>5, <2>2, <2>4, <3>1, <4>1 DEF SubTypes
    <3>3. QueueInv(x, e, ended)
      <4>1. t = <<>> => ended = NotYet
        BY <1>3, <2>2
      <4>2. /\ r.reader = "reading" /\ ended = NotYet => r.registered
            /\ (r.registered => r.reader = "reading") /\ (~r.registered => ended # NotYet)
        BY <1>1, <1>2 DEF QueueInv
      <4>3. k - 1 <= QueueSize
        BY <1>3, RunEventsAssumption
      <4> HIDE DEF x, t, k, q, r
      <4> QED
        BY <1>1, <1>3, <2>2, <2>3, <3>1, <4>1, <4>2, <4>3 DEF QueueInv
    <3>4. GotInv(r.reader, Awaits(x), g1, k - 1, e, ended, dropped)
      <4> DEFINE l == Len(g)
      <4>2. Rising(g) /\ (g # <<>> => g[1] >= 1 /\ g[l] <= e - k
                                      /\ e - g[1] + 1 - l - k <= dropped)
        <5> HIDE DEF g, k
        <5> QED
          BY <1>2, <1>3, <2>1 DEF GotInv
      <4> HIDE DEF g, k, h, g1
      <4>3. Rising(g1)
        <5> SUFFICES ASSUME NEW i \in 1..l PROVE g1[i] < g1[i + 1]
          BY <2>4 DEF Rising
        <5>1. CASE i = l
          BY <1>1, <1>3, <1>6, <2>1, <2>4, <4>2, <5>1
        <5>2. CASE i # l
          BY SMTT(30), <2>4, <4>2, <5>2 DEF Rising
        <5> QED
          BY <5>1, <5>2
      <4>4. g1[Len(g1)] = e - (k - 1) /\ g1[1] \in Nat /\ g1[1] >= 1
        <5>1. g = <<>> => g1[1] = h
          BY <2>4
        <5>2. g # <<>> => g1[1] = g[1] /\ g[1] \in Nat /\ g[1] >= 1
          BY <1>6, <2>4, <4>2
        <5>3. g1[1] \in Nat /\ g1[1] >= 1
          BY <2>1, <5>1, <5>2
        <5>4. g1[Len(g1)] = h
          BY <2>4
        <5>5. (e - k) + 1 = e - (k - 1)
          BY <1>1, <1>3
        <5> QED
          BY <2>1, <5>3, <5>4, <5>5
      <4>5. Missing(g1) <= dropped /\ e - g1[1] + 1 - Len(g1) - (k - 1) <= dropped
        <5>1. CASE g = <<>>
          <6>1. g1[1] = h /\ Len(g1) = 1
            BY <2>4, <5>1
          <6> QED
            BY <1>1, <1>3, <2>1, <4>4, <6>1 DEF Missing
        <5>2. CASE g # <<>>
          <6>1. g1[1] = g[1] /\ Len(g1) = l + 1 /\ l \in Nat /\ g[1] \in Nat
            BY <1>6, <2>4, <5>2
          <6>2. /\ (e - (k - 1)) - g[1] + 1 - (l + 1) = e - g[1] + 1 - l - k
                /\ e - g[1] + 1 - (l + 1) - (k - 1) = e - g[1] + 1 - l - k
            <7>1. e \in Nat /\ k \in Nat /\ l \in Nat /\ g[1] \in Nat
              BY <1>1, <1>3, <6>1
            <7> QED
              BY <7>1, OneReceived
          <6> QED
            BY <4>2, <4>4, <5>2, <6>1, <6>2 DEF Missing
        <5> QED
          BY <5>1, <5>2
      <4>6. k - 1 = 0 => g1[Len(g1)] = e
        BY <1>1, <4>4
      <4> QED
        BY <1>1, <2>4, <4>3, <4>4, <4>5, <4>6 DEF GotInv
    <3> HIDE DEF x, g1, t, k
    <3> QED
      BY <1>1, <2>2, <3>1, <3>2, <3>3, <3>4 DEF SubInv
  <2> HIDE DEF x
  <2>9. dropped' \in Nat /\ dropped' >= dropped
    BY <1>1
  <2> QED
    BY <1>1, <2>5, <2>6, <2>9, OneSafe
<1> QED
  BY <1>7, <1>8

LEMMA CloseSafe == ASSUME EventsInv, NEW s \in Subscribers, Close(s) PROVE EventsInv'
<1> DEFINE r == sub[s]
           g == r.got
           k == Held(r.queue)
           e == emitted
           left == IF r.registered THEN <<>> ELSE r.queue
           x == Subscription(FALSE, left, "closed", g)
<1>1. /\ r.reader = "reading" /\ UNCHANGED <<emitted, ended, history, dropped>>
      /\ sub' = [sub EXCEPT ![s] = x] /\ e \in Nat /\ dropped \in Nat
  BY DEF Close, EventsInv, Removed
<1>2. SubTypes(r) /\ QueueInv(r, e, ended) /\ GotInv(r.reader, Awaits(r), g, k, e, ended, dropped)
  BY DEF EventsInv, SubInv
<1>3. x.registered = FALSE /\ x.queue = left /\ x.reader = "closed" /\ x.got = g
  <2> HIDE DEF left, g
  <2> QED
    BY DEF Subscription
<1>4. r.queue \in Seq(Nat) /\ g \in Seq(Nat) /\ k \in Nat /\ r.registered \in BOOLEAN
  <2>1. r.queue \in Seq(Nat) /\ g \in Seq(Nat) /\ r.registered \in BOOLEAN
    BY <1>2 DEF SubTypes
  <2> QED
    BY <2>1, HeldFields
<1>5. left \in Seq(Nat) /\ SubTypes(x)
  <2>1. left \in Seq(Nat)
    BY <1>4, EmptySeq
  <2>2. x = Subscription(FALSE, left, "closed", g)
    OBVIOUS
  <2> HIDE DEF x, g, left
  <2> QED
    BY <1>3, <1>4, <2>1, <2>2 DEF SubTypes
<1>6. Awaits(r) /\ (g # <<>> => Len(g) \in Nat \ {0} /\ g[1] \in Nat /\ g[Len(g)] \in Nat)
  BY <1>1, <1>4, GotFields DEF Awaits
<1>7. Held(<<>>) = 0 /\ Latest(<<>>, 0, e) /\ 0 <= QueueSize
  BY <1>1, <1>4, HeldFields, RunEventsAssumption DEF Latest
<1> HIDE DEF x, k, g
<1>8. QueueInv(x, e, ended)
  BY <1>1, <1>2, <1>3, <1>7 DEF QueueInv, k
<1>9. GotInv("closed", left # <<>>, g, Held(left), e, ended, dropped)
  <2>1. CASE left = <<>>
    BY <1>1, <1>2, <1>4, <1>6, <1>7, <2>1 DEF GotInv
  <2>2. CASE left = r.queue /\ left # <<>>
    <3>1. Held(left) = k
      BY <2>2 DEF k
    <3> HIDE DEF left
    <3> QED
      BY <1>1, <1>2, <1>6, <2>2, <3>1 DEF GotInv
  <2> QED
    BY <1>4, <2>1, <2>2
<1>10. SubInv(x, emitted, ended, dropped')
  <2>1. Awaits(x) = (left # <<>>)
    BY <1>3 DEF Awaits
  <2> HIDE DEF left
  <2> QED
    BY <1>1, <1>3, <1>5, <1>8, <1>9, <2>1 DEF SubInv
<1>11. dropped' \in Nat /\ dropped' >= dropped
  BY <1>1
<1> QED
  BY <1>1, <1>10, <1>11, OneSafe

\* emit, subscribe, the iterator and close, in any order: every queue holds the latest
\* events, and what is missing in front of it was counted.
THEOREM EventsInvariant == EventsSpec => []EventsInv
<1>1. EventsInit => EventsInv
  BY EventsInitSafe
<1>2. EventsInv /\ [EventsNext]_eventVars => EventsInv'
  <2> SUFFICES ASSUME EventsInv, [EventsNext]_eventVars PROVE EventsInv'
    OBVIOUS
  <2>1. ASSUME NEW terminal \in BOOLEAN, Emit(terminal) PROVE EventsInv'
    BY <2>1, EmitSafe
  <2>2. ASSUME NEW s \in Subscribers, NEW replay \in 1..ReplayLimit, Subscribe(s, replay)
        PROVE  EventsInv'
    BY <2>2, SubscribeSafe
  <2>3. ASSUME NEW s \in Subscribers, Read(s) \/ Close(s) PROVE EventsInv'
    BY <2>3, ReadSafe, CloseSafe
  <2>4. CASE UNCHANGED eventVars
    BY <2>4 DEF eventVars, EventsInv
  <2> QED
    BY <2>1, <2>2, <2>3, <2>4 DEF EventsNext
<1> QED
  BY <1>1, <1>2, PTL DEF EventsSpec

\* What a subscription has shown and will show: what it received, then what waits.
LEMMA StreamFields ==
    ASSUME EventsInv, NEW s \in Subscribers
    PROVE  LET g == sub[s].got
               k == Held(sub[s].queue) IN
           /\ Len(Waiting(sub[s].queue)) = k /\ k \in Nat /\ k <= QueueSize
           /\ g \in Seq(Nat) /\ Stream(s) \in Seq(Nat) /\ Len(Stream(s)) = Len(g) + k
           /\ \A i \in 1..Len(g) + k :
                Stream(s)[i] = IF i <= Len(g) THEN g[i] ELSE (emitted - k) + (i - Len(g))
           /\ GotInv(sub[s].reader, Awaits(sub[s]), g, k, emitted, ended, dropped)
           /\ emitted \in Nat /\ k <= emitted /\ dropped \in Nat
<1> DEFINE q == sub[s].queue
           g == sub[s].got
           k == Held(q)
           w == Waiting(q)
<1>1. /\ q \in Seq(Nat) /\ g \in Seq(Nat) /\ k <= QueueSize /\ Latest(q, k, emitted)
      /\ GotInv(sub[s].reader, Awaits(sub[s]), g, k, emitted, ended, dropped)
      /\ emitted \in Nat /\ dropped \in Nat
  BY DEF EventsInv, SubInv, SubTypes, QueueInv
<1>2. k \in Nat /\ Len(q) \in Nat /\ k <= Len(q)
  BY <1>1, HeldFields
<1>3. w \in Seq(Nat) /\ Len(w) = k /\ \A i \in 1..k : w[i] = q[i]
  <2> HIDE DEF q
  <2>1. CASE Marked(q)
    <3>1. w = SubSeq(q, 1, Len(q) - 1) /\ k = Len(q) - 1
      BY <2>1 DEF Marked, Waiting, Held, Front
    <3>2. \A i \in 1..Len(q) - 1 : q[i] \in Nat
      BY <1>1
    <3>3. k \in Int /\ 1 \in Int
      BY <1>2
    <3> HIDE DEF w, k
    <3>4. SubSeq(q, 1, k) \in Seq(Nat)
          /\ Len(SubSeq(q, 1, k)) = (IF 1 <= k THEN k - 1 + 1 ELSE 0)
          /\ \A i \in 1..k - 1 + 1 : SubSeq(q, 1, k)[i] = q[1 + i - 1]
      BY <3>1, <3>2, <3>3, SubSeqProperties
    <3>5. Len(w) = k
      BY <1>2, <3>1, <3>4
    <3>6. ASSUME NEW i \in 1..k PROVE w[i] = q[i]
      <4>1. i \in 1..k - 1 + 1 /\ 1 + i - 1 = i
        BY <1>2
      <4> QED
        BY <3>1, <3>4, <4>1
    <3> QED
      BY <3>1, <3>4, <3>5, <3>6
  <2>2. CASE ~Marked(q)
    <3>1. w = q /\ k = Len(q)
      BY <2>2 DEF Marked, Waiting, Held
    <3> QED
      BY <1>1, <3>1
  <2> QED
    BY <2>1, <2>2
<1>4. Stream(s) = g \o w
  BY DEF Stream
<1>5. k <= emitted /\ \A i \in 1..k : w[i] = (emitted - k) + i
  <2> HIDE DEF w, k, q
  <2> QED
    BY <1>1, <1>3 DEF Latest
<1> HIDE DEF g, w, k
<1>6. /\ g \o w \in Seq(Nat) /\ Len(g \o w) = Len(g) + k
      /\ \A i \in 1..Len(g) + k : (g \o w)[i] = IF i <= Len(g) THEN g[i] ELSE w[i - Len(g)]
  BY <1>1, <1>3, ConcatProperties
<1>7. ASSUME NEW i \in 1..Len(g) + k
      PROVE  (g \o w)[i] = IF i <= Len(g) THEN g[i] ELSE (emitted - k) + (i - Len(g))
  <2>1. CASE i <= Len(g)
    BY <1>6, <2>1
  <2>2. CASE ~(i <= Len(g))
    <3>1. i - Len(g) \in 1..k
      BY <1>1, <1>2, <2>2
    <3> QED
      BY <1>5, <1>6, <2>2, <3>1
  <2> QED
    BY <2>1, <2>2
<1>8. /\ Len(w) = k /\ k \in Nat /\ k <= QueueSize /\ g \in Seq(Nat) /\ Stream(s) \in Seq(Nat)
      /\ Len(Stream(s)) = Len(g) + k /\ k <= emitted
      /\ \A i \in 1..Len(g) + k :
           Stream(s)[i] = IF i <= Len(g) THEN g[i] ELSE (emitted - k) + (i - Len(g))
  BY <1>1, <1>2, <1>3, <1>4, <1>5, <1>6, <1>7
<1> QED
  BY <1>1, <1>8 DEF g, k, w, q

LEMMA GapsAre == EventsInv => GapsCounted
<1> SUFFICES ASSUME EventsInv PROVE GapsCounted
  OBVIOUS
<1>1. ASSUME NEW s \in Subscribers
      PROVE  /\ Len(Waiting(sub[s].queue)) <= QueueSize
             /\ \A i \in 1..Len(Stream(s)) - 1 : Stream(s)[i] < Stream(s)[i + 1]
             /\ Stream(s) # <<>> =>
                  Stream(s)[Len(Stream(s))] - Stream(s)[1] + 1 - Len(Stream(s)) <= dropped
  <2> DEFINE g == sub[s].got
             k == Held(sub[s].queue)
             z == Stream(s)
             l == Len(g)
             e == emitted
  <2>1. /\ Len(Waiting(sub[s].queue)) = k /\ k \in Nat /\ k <= QueueSize /\ g \in Seq(Nat)
        /\ z \in Seq(Nat) /\ Len(z) = l + k /\ e \in Nat /\ k <= e /\ dropped \in Nat
        /\ \A i \in 1..l + k : z[i] = IF i <= l THEN g[i] ELSE (e - k) + (i - l)
    BY StreamFields
  <2>2. GotInv(sub[s].reader, Awaits(sub[s]), g, k, e, ended, dropped)
    BY StreamFields
  <2> HIDE DEF g, k, z
  <2>3. Rising(g) /\ (g # <<>> => g[1] >= 1 /\ g[l] <= e - k /\ Missing(g) <= dropped)
    BY <2>2 DEF GotInv
  <2>4. g # <<>> /\ k > 0 => e - g[1] + 1 - l - k <= dropped
    BY <2>2 DEF GotInv
  <2>5. l \in Nat /\ (g = <<>> <=> l = 0) /\ (l > 0 => g[1] \in Nat /\ g[l] \in Nat)
        /\ (z = <<>> <=> l + k = 0)
    BY <2>1, EmptyIff
  <2>6. ASSUME NEW i \in 1..(l + k) - 1 PROVE z[i] < z[i + 1]
    <3>0. i \in 1..l + k /\ i + 1 \in 1..l + k
      BY <2>1, <2>5
    <3>1. CASE i < l
      <4>1. g[i] < g[i + 1]
        BY <2>3, <2>5, <3>1 DEF Rising
      <4> QED
        BY SMTT(30), <2>1, <2>5, <3>0, <3>1, <4>1
    <3>2. CASE i = l
      <4>1. z[i] = g[l]
        BY <2>1, <2>5, <3>0, <3>2
      <4>0. ~(i + 1 <= l)
        BY <2>5, <3>2
      <4>2. z[i + 1] = (e - k) + ((i + 1) - l)
        BY <2>1, <3>0, <4>0
      <4>3. g[l] <= e - k /\ g[l] \in Nat
        BY <2>3, <2>5, <3>2
      <4> QED
        BY <2>1, <2>5, <3>2, <4>1, <4>2, <4>3
    <3>3. CASE i > l
      BY <2>1, <2>5, <3>0, <3>3
    <3> QED
      BY <2>5, <3>1, <3>2, <3>3
  <2>7. ASSUME z # <<>> PROVE z[l + k] - z[1] + 1 - (l + k) <= dropped
    <3>1. CASE k = 0
      <4>1. l > 0 /\ z[l + k] = g[l] /\ z[1] = g[1]
        BY <2>1, <2>5, <2>7, <3>1
      <4> QED
        BY <2>1, <2>3, <2>5, <3>1, <4>1 DEF Missing
    <3>2. CASE k > 0 /\ l = 0
      <4>1. z[l + k] = e /\ z[1] = (e - k) + 1
        BY <2>1, <2>5, <3>2
      <4> QED
        BY <2>1, <3>2, <4>1
    <3>3. CASE k > 0 /\ l > 0
      <4>0. l + k \in 1..l + k /\ 1 \in 1..l + k /\ ~(l + k <= l) /\ 1 <= l
        BY <2>1, <2>5, <3>3
      <4>1. z[l + k] = e /\ z[1] = g[1]
        <5>1. z[l + k] = (e - k) + ((l + k) - l)
          BY <2>1, <4>0
        <5>2. z[1] = g[1]
          BY <2>1, <4>0
        <5> QED
          BY <2>1, <2>5, <5>1, <5>2
      <4>2. e - g[1] + 1 - (l + k) = e - g[1] + 1 - l - k
        BY <2>1, <2>5, <3>3
      <4> QED
        BY <2>4, <2>5, <3>3, <4>1, <4>2
    <3> QED
      BY <2>1, <2>5, <3>1, <3>2, <3>3
  <2> QED
    BY <2>1, <2>6, <2>7 DEF z
<1>2. /\ emitted \in 0..MaxEvents + 1 /\ ended \in 0..emitted /\ dropped \in Nat
      /\ Len(history) <= ReplayLimit
  BY RunEventsAssumption DEF EventsInv, NotYet
<1> QED
  BY <1>1, <1>2 DEF GapsCounted, EventsTypeOK

LEMMA TerminalIs == EventsInv => TerminalDelivered
<1> SUFFICES ASSUME EventsInv, ended # NotYet PROVE TerminalDelivered
  BY DEF TerminalDelivered
<1>1. ended = emitted /\ emitted \in Nat /\ emitted > 0 /\ history[Len(history)] = ended
  <2>1. ended = emitted /\ emitted \in Nat /\ emitted > 0 /\ history # <<>>
        /\ history \in Seq(Nat) /\ Latest(history, Len(history), emitted)
    BY DEF EventsInv, NotYet
  <2>2. Len(history) \in Nat \ {0}
    BY <2>1, EmptySeq
  <2> QED
    BY <2>1, <2>2 DEF Latest
<1>2. ASSUME NEW s \in Subscribers, sub[s].reader \in {"reading", "ended"}
      PROVE  Stream(s) # <<>> /\ Stream(s)[Len(Stream(s))] = ended
  <2> DEFINE g == sub[s].got
             q == sub[s].queue
             k == Held(q)
             z == Stream(s)
             l == Len(g)
  <2>1. /\ k \in Nat /\ g \in Seq(Nat) /\ z \in Seq(Nat) /\ Len(z) = l + k
        /\ \A i \in 1..l + k : z[i] = IF i <= l THEN g[i] ELSE (emitted - k) + (i - l)
    BY StreamFields
  <2>2. GotInv(sub[s].reader, Awaits(sub[s]), g, k, emitted, ended, dropped)
    BY StreamFields
  <2>3. k = 0 => g # <<>> /\ g[l] = emitted
    <3>1. CASE sub[s].reader = "reading"
      <4>1. Awaits(sub[s])
        BY <3>1 DEF Awaits
      <4> HIDE DEF k
      <4> QED
        BY <2>2, <4>1 DEF GotInv
    <3>2. CASE sub[s].reader = "ended"
      BY <2>2, <3>2 DEF GotInv
    <3> QED
      BY <1>2, <3>1, <3>2
  <2> HIDE DEF g, k, z
  <2>4. l \in Nat /\ (g = <<>> <=> l = 0) /\ (z = <<>> <=> l + k = 0)
    BY <2>1, EmptyIff
  <2>5. l + k > 0 /\ z[l + k] = emitted
    <3>1. CASE k = 0
      BY <2>1, <2>3, <2>4, <3>1
    <3>2. CASE k > 0
      BY <1>1, <2>1, <2>4, <3>2
    <3> QED
      BY <2>1, <3>1, <3>2
  <2>6. z # <<>> /\ z[Len(z)] = ended
    BY <1>1, <2>1, <2>4, <2>5
  <2> QED
    BY <2>6 DEF z
<1>3. ASSUME NEW s \in Subscribers, sub[s].reader = "reading"
      PROVE  sub[s].queue[Len(sub[s].queue)] = End
  <2>1. QueueInv(sub[s], emitted, ended)
    BY DEF EventsInv, SubInv
  <2>2. sub[s].queue # <<>> /\ Marked(sub[s].queue)
    BY <1>3, <2>1 DEF QueueInv
  <2> QED
    BY <2>2 DEF Marked
<1> QED
  BY <1>1, <1>2, <1>3 DEF TerminalDelivered

\* _retain, _enqueue and the replay of subscribe: however slow a reader is, it sees events
\* in their order, and every one missing between two it sees is counted in dropped_events.
THEOREM GapsAreCounted == EventsSpec => []GapsCounted
  BY EventsInvariant, GapsAre, PTL

\* emit with a terminal event: it stays the last of the history, and every subscription
\* nobody closed has it or has it in its queue, before the end of the iteration.
THEOREM TerminalIsDelivered == EventsSpec => []TerminalDelivered
  BY EventsInvariant, TerminalIs, PTL
=============================================================================
