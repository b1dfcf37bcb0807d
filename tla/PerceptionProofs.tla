--------------------------- MODULE PerceptionProofs ---------------------------
(***************************************************************************)
(* Theorems about what is perceived, for any instance: the World commits   *)
(* claims whose evidence goes back to what it holds, a call accepted once  *)
(* is accepted for ever, and what is known is what the current claims say; *)
(* the newest capture is found, a name is of one kind of object, and the   *)
(* assignment of names is stable; a publication never makes the World      *)
(* doubt what an object is; what is said is recognised whole and once, a   *)
(* call that reads the synthesis has something to come, and what is played *)
(* is played in order.  What the model computes in rounds is reasoned      *)
(* about round by round, and the lemmas for it come first.                 *)
(***************************************************************************)
EXTENDS MCServices, FiniteSetTheorems, SequenceTheorems, WellFoundedInduction, TLAPS

-----------------------------------------------------------------------------
\* What is computed in rounds.

\* Induction: if something fails, something fails first.
LEMMA HasLeast ==
    ASSUME NEW S, S \subseteq Nat, S # {}
    PROVE  \E x \in S : \A y \in S : x <= y
<1> DEFINE R == {ss \in Nat \X Nat : ss[1] < ss[2]}
<1>1. IsWellFoundedOn(R, Nat)
  BY NatLessThanWellFounded DEF OpToRel
<1>2. PICK x \in S : \A y \in S : ~ (<<y, x>> \in R)
  <2> HIDE DEF R
  <2> QED
    BY <1>1, WFMin
<1>3. ASSUME NEW y \in S PROVE x <= y
  <2>1. ~(y < x) /\ x \in Nat /\ y \in Nat
    BY <1>2, <1>3
  <2> QED
    BY <2>1
<1> QED
  BY <1>2, <1>3

Iterates(F, g, N, x) == g[0] = x /\ \A n \in 1..N : g[n] = F[n][g[n - 1]]

\* A step that is defined everywhere can be taken any number of times.
LEMMA Iterated ==
    ASSUME NEW S, NEW x \in S, NEW N \in Nat, NEW F \in [1..N -> [S -> S]]
    PROVE  \E g \in [0..N -> S] : Iterates(F, g, N, x)
<1> USE DEF Iterates
<1> DEFINE Reaches(m, g) == g[0] = x /\ \A n \in 1..m : g[n] = F[n][g[n - 1]]
           Bad == {m \in 0..N : ~ \E g \in [0..m -> S] : Reaches(m, g)}
<1>1. SUFFICES ASSUME Bad # {} PROVE FALSE
  <2>1. N \notin Bad
    BY <1>1
  <2> QED
    BY <2>1
<1>2. PICK m \in Bad : \A k \in Bad : m <= k
  <2>1. Bad \subseteq Nat
    OBVIOUS
  <2> HIDE DEF Bad
  <2> QED
    BY <1>1, <2>1, HasLeast
<1>3. CASE m = 0
  <2> DEFINE g == [n \in 0..0 |-> x]
  <2>1. g \in [0..0 -> S] /\ g[0] = x /\ \A n \in 1..0 : FALSE
    OBVIOUS
  <2>2. Reaches(0, g)
    BY <2>1
  <2> QED
    BY <1>2, <1>3, <2>1, <2>2
<1>4. CASE m # 0
  <2>1. m \in 1..N /\ m - 1 \in 0..N /\ ~(m <= m - 1)
    BY <1>2, <1>4
  <2>2. PICK g \in [0..(m - 1) -> S] : Reaches(m - 1, g)
    BY <1>2, <2>1
  <2> DEFINE h == [n \in 0..m |-> IF n = m THEN F[m][g[m - 1]] ELSE g[n]]
  <2>3. m - 1 \in 0..(m - 1) /\ F[m] \in [S -> S]
    BY <2>1
  <2>4. h \in [0..m -> S]
    BY <2>1, <2>3
  <2>5. h[0] = x
    BY <2>1, <2>2
  <2>6. ASSUME NEW n \in 1..m PROVE h[n] = F[n][h[n - 1]]
    <3>1. n \in 0..m /\ n - 1 \in 0..m /\ n - 1 # m
      BY <2>1, <2>6
    <3>2. h[n - 1] = g[n - 1]
      BY <3>1
    <3>3. CASE n = m
      BY <2>1, <3>1, <3>2, <3>3
    <3>4. CASE n # m
      <4>1. n \in 1..(m - 1)
        BY <2>1, <2>6, <3>4
      <4> QED
        BY <2>2, <3>1, <3>2, <3>4, <4>1
    <3> QED
      BY <3>3, <3>4
  <2> HIDE DEF h
  <2>7. Reaches(m, h)
    BY <2>5, <2>6
  <2> QED
    BY <1>2, <2>4, <2>7
<1> QED
  BY <1>3, <1>4

\* What starts the same and goes on the same is the same.
GoesAlike(N, g, h) == g[0] = h[0] /\ \A n \in 1..N : g[n - 1] = h[n - 1] => g[n] = h[n]
Alike(N, g, h) == \A n \in 0..N : g[n] = h[n]

LEMMA SameStages ==
    ASSUME NEW N \in Nat, NEW g, NEW h, GoesAlike(N, g, h)
    PROVE  Alike(N, g, h)
<1> USE DEF GoesAlike, Alike
<1> DEFINE Bad == {n \in 0..N : g[n] # h[n]}
<1>1. SUFFICES ASSUME Bad # {} PROVE FALSE
  OBVIOUS
<1>2. PICK m \in Bad : \A k \in Bad : m <= k
  <2>1. Bad \subseteq Nat
    OBVIOUS
  <2> HIDE DEF Bad
  <2> QED
    BY <1>1, <2>1, HasLeast
<1>3. m \in 1..N /\ m - 1 \in 0..N /\ ~(m <= m - 1)
  BY <1>2
<1>4. g[m - 1] = h[m - 1]
  BY <1>2, <1>3
<1> QED
  BY <1>2, <1>3, <1>4

\* Sets that grow from x by the step F, once for every member of cs.
StagesOf(F, g, x, cs) ==
    /\ g \in [0..Cardinality(cs) -> SUBSET cs]
    /\ g[0] = x
    /\ \A n \in 1..Cardinality(cs) : g[n] = F[g[n - 1]]

Growing(g, cs) == \A n \in 1..Cardinality(cs) : g[n - 1] \subseteq g[n]

LEMMA StagesExist ==
    ASSUME NEW cs, IsFiniteSet(cs), NEW F \in [SUBSET cs -> SUBSET cs], NEW x \in SUBSET cs
    PROVE  \E g : StagesOf(F, g, x, cs)
<1>1. PICK N \in Nat : N = Cardinality(cs)
  BY FS_CardinalityType
<1>2. PICK S : S = SUBSET cs
  OBVIOUS
<1>3. PICK G \in [1..N -> [S -> S]] : \A n \in 1..N : G[n] = F
  <2>1. [n \in 1..N |-> F] \in [1..N -> [S -> S]]
    BY <1>2
  <2> QED
    BY <2>1
<1>4. \E g \in [0..N -> S] : Iterates(G, g, N, x)
  <2>1. x \in S
    BY <1>2
  <2> QED
    BY ONLY <2>1, N \in Nat, G \in [1..N -> [S -> S]], Iterated
<1> QED
  BY <1>1, <1>2, <1>3, <1>4 DEF StagesOf, Iterates

LEMMA CountedApart ==
    ASSUME NEW A, NEW B, IsFiniteSet(A), IsFiniteSet(B)
    PROVE  Cardinality(A \cup B) = Cardinality(A) + Cardinality(B \ A)
<1>1. PICK C : C = B \ A
  OBVIOUS
<1>2. IsFiniteSet(C) /\ A \cap C = {} /\ A \cup B = A \cup C
  BY <1>1, FS_Difference
<1>3. Cardinality(A \cup C) = Cardinality(A) + Cardinality(C) - Cardinality(A \cap C)
  BY <1>2, FS_Union
<1>4. Cardinality(A \cap C) = 0 /\ Cardinality(A) \in Nat /\ Cardinality(C) \in Nat
  BY <1>2, FS_EmptySet, FS_CardinalityType
<1>5. Cardinality(A \cup C) = Cardinality(A) + Cardinality(C)
  BY <1>3, <1>4
<1> QED
  BY ONLY <1>1, <1>2, <1>5, Zenon

\* What is reached in as many steps as there is to reach is closed under the step.
LEMMA Saturates ==
    ASSUME NEW cs, IsFiniteSet(cs), NEW F \in [SUBSET cs -> SUBSET cs], NEW g, NEW x,
           StagesOf(F, g, x, cs), Growing(g, cs)
    PROVE  F[g[Cardinality(cs)]] \subseteq g[Cardinality(cs)]
<1>1. PICK N \in Nat : N = Cardinality(cs)
  BY FS_CardinalityType
<1>2. /\ g \in [0..N -> SUBSET cs]
      /\ \A n \in 1..N : g[n] = F[g[n - 1]]
      /\ \A n \in 1..N : g[n - 1] \subseteq g[n]
  BY <1>1 DEF StagesOf, Growing
<1>3. N \in 0..N
  OBVIOUS
<1>4. CASE \E m \in 1..N : g[m] = g[m - 1]
  <2>1. PICK m \in 1..N : g[m] = g[m - 1]
    BY <1>4
  <2>2. \A n \in m..N : g[n] = g[m - 1]
    <3>1. PICK Late : Late = {n \in m..N : g[n] # g[m - 1]}
      OBVIOUS
    <3>2. SUFFICES ASSUME Late # {} PROVE FALSE
      BY <3>1
    <3>3. Late \subseteq Nat
      BY <3>1
    <3>4. PICK n \in Late : \A k \in Late : n <= k
      BY <3>2, <3>3, HasLeast
    <3>5. n \in m..N /\ n # m /\ g[n] # g[m - 1]
      BY <2>1, <3>1, <3>4
    <3>6. n - 1 \in m..N /\ n \in 1..N /\ ~(n <= n - 1)
      BY <3>5
    <3>7. g[n - 1] = g[m - 1]
      BY <3>1, <3>4, <3>6
    <3> QED
      BY <1>2, <2>1, <3>5, <3>6, <3>7
  <2>3. g[N] = g[m - 1]
    BY <2>2
  <2> QED
    BY <1>1, <1>2, <2>1, <2>3
<1>5. CASE \A m \in 1..N : g[m] # g[m - 1]
  <2>1. \A n \in 0..N : IsFiniteSet(g[n]) /\ Cardinality(g[n]) \in Nat
    BY <1>2, FS_Subset, FS_CardinalityType
  <2>2. \A n \in 0..N : n <= Cardinality(g[n])
    <3>1. PICK Few : Few = {n \in 0..N : ~(n <= Cardinality(g[n]))}
      OBVIOUS
    <3>2. SUFFICES ASSUME Few # {} PROVE FALSE
      BY <3>1
    <3>3. Few \subseteq Nat
      BY <3>1
    <3>4. PICK n \in Few : \A k \in Few : n <= k
      BY <3>2, <3>3, HasLeast
    <3>5. n \in 0..N /\ ~(n <= Cardinality(g[n]))
      BY <3>1, <3>4
    <3>6. n # 0
      <4>1. 0 \in 0..N
        OBVIOUS
      <4> QED
        BY <2>1, <3>5, <4>1
    <3>7. n \in 1..N /\ n - 1 \in 0..N /\ ~(n <= n - 1)
      BY <3>5, <3>6
    <3>8. n - 1 <= Cardinality(g[n - 1])
      BY <3>1, <3>4, <3>7
    <3>9. g[n - 1] \subseteq g[n] /\ g[n - 1] # g[n]
      BY <1>2, <1>5, <3>7
    <3>10. Cardinality(g[n - 1]) < Cardinality(g[n])
      BY <2>1, <3>5, <3>9, FS_Subset
    <3>11. Cardinality(g[n - 1]) \in Nat /\ Cardinality(g[n]) \in Nat
      BY <2>1, <3>5, <3>7
    <3> QED
      BY <3>5, <3>7, <3>8, <3>10, <3>11
  <2>3. g[N] \subseteq cs /\ N <= Cardinality(g[N]) /\ Cardinality(g[N]) \in Nat
    BY <1>2, <1>3, <2>1, <2>2
  <2>4. g[N] = cs
    <3>1. CASE g[N] # cs
      <4>1. Cardinality(g[N]) <= Cardinality(cs) /\ Cardinality(g[N]) # Cardinality(cs)
        BY <2>3, <3>1, FS_Subset
      <4> QED
        BY <1>1, <2>3, <4>1
    <3> QED
      BY <3>1
  <2> QED
    BY <1>1, <2>4
<1> QED
  BY <1>4, <1>5

\* A finite set that is ordered has a least member.
Orders(R, S) ==
    /\ \A p \in S : <<p, p>> \notin R
    /\ \A p, q, r \in S : <<p, q>> \in R /\ <<q, r>> \in R => <<p, r>> \in R

LEMMA FiniteHasLeast ==
    ASSUME NEW S, IsFiniteSet(S), S # {}, NEW R, Orders(R, S)
    PROVE  \E p \in S : \A q \in S : <<q, p>> \notin R
<1> DEFINE Below(p) == {q \in S : <<q, p>> \in R}
<1>1. \A p \in S : IsFiniteSet(Below(p)) /\ Cardinality(Below(p)) \in Nat
  BY FS_Subset, FS_CardinalityType
<1>2. PICK Counts : Counts = {Cardinality(Below(p)) : p \in S}
  OBVIOUS
<1>3. Counts \subseteq Nat /\ Counts # {}
  BY <1>1, <1>2
<1>4. PICK n \in Counts : \A k \in Counts : n <= k
  BY <1>3, HasLeast
<1>5. PICK p \in S : n = Cardinality(Below(p))
  BY <1>2, <1>4
<1>6. ASSUME NEW q \in S, <<q, p>> \in R PROVE FALSE
  <2>1. Below(q) \subseteq Below(p) /\ q \in Below(p) /\ q \notin Below(q)
    BY <1>6 DEF Orders
  <2>2. PICK A, B : A = Below(p) /\ B = Below(q)
    OBVIOUS
  <2>3. IsFiniteSet(A) /\ B \subseteq A /\ A # B
    BY <1>1, <2>1, <2>2
  <2>4. Cardinality(B) <= Cardinality(A) /\ Cardinality(A) # Cardinality(B)
    BY <2>3, FS_Subset
  <2>5. Cardinality(A) <= Cardinality(B) /\ Cardinality(A) \in Nat /\ Cardinality(B) \in Nat
    BY <1>1, <1>2, <1>4, <1>5, <1>6, <2>2
  <2> QED
    BY <2>4, <2>5
<1> QED
  BY <1>6

-----------------------------------------------------------------------------
\* The claims of the World.

\* A claim is finished after those it rests on.
FinishStep(cs) == [b \in SUBSET cs |-> b \cup {c \in cs : Parents(c, cs) \subseteq b}]

LEMMA FinishedIsStaged ==
    ASSUME NEW done, NEW cs, IsFiniteSet(cs), done \subseteq cs
    PROVE  \E g : /\ StagesOf(FinishStep(cs), g, done, cs)
                  /\ AcyclicAbove(done, cs) <=> g[Cardinality(cs)] = cs
<1>1. PICK N \in Nat : N = Cardinality(cs)
  BY FS_CardinalityType
<1>2. PICK F \in [SUBSET cs -> SUBSET cs] : F = FinishStep(cs)
  BY DEF FinishStep
<1>3. PICK g : StagesOf(F, g, done, cs)
  BY StagesExist
<1>4. ASSUME NEW n \in 1..N PROVE g[n] = g[n - 1] \cup {c \in cs : Parents(c, cs) \subseteq g[n - 1]}
  <2>1. n - 1 \in 0..N
    OBVIOUS
  <2>2. g[n - 1] \in SUBSET cs /\ g[n] = F[g[n - 1]]
    BY <1>1, <1>3, <2>1 DEF StagesOf
  <2> QED
    BY <1>2, <2>2 DEF FinishStep
<1> DEFINE fin[n \in 0..Cardinality(cs)] ==
                  IF n = 0 THEN done
                  ELSE LET before == fin[n - 1]
                       IN before \cup {c \in cs : Parents(c, cs) \subseteq before}
<1>5. g = [n \in 0..Cardinality(cs) |->
             IF n = 0 THEN done
             ELSE LET before == g[n - 1]
                  IN before \cup {c \in cs : Parents(c, cs) \subseteq before}]
  <2>1. ASSUME NEW n \in 0..N PROVE n = 0 \/ n \in 1..N
    OBVIOUS
  <2>2. g \in [0..Cardinality(cs) -> SUBSET cs] /\ g[0] = done
    BY <1>3 DEF StagesOf
  <2> HIDE DEF fin
  <2> QED
    BY <1>1, <1>4, <2>1, <2>2
<1>6. fin = [n \in 0..Cardinality(cs) |->
               IF n = 0 THEN done
               ELSE LET before == fin[n - 1]
                    IN before \cup {c \in cs : Parents(c, cs) \subseteq before}]
  BY ONLY <1>5, ZenonT(60) DEF fin
<1>7. AcyclicAbove(done, cs) <=> fin[Cardinality(cs)] = cs
  BY DEF AcyclicAbove
<1>8. PICK f : f = fin
  OBVIOUS
<1> HIDE DEF fin
<1>9. GoesAlike(N, f, g)
  <2>1. f[0] = g[0]
    <3>1. 0 \in 0..N
      OBVIOUS
    <3> QED
      BY <1>1, <1>3, <1>6, <1>8, <3>1 DEF StagesOf
  <2>2. ASSUME NEW n \in 1..N, f[n - 1] = g[n - 1] PROVE f[n] = g[n]
    <3>1. n \in 0..N /\ n # 0
      OBVIOUS
    <3>2. f[n] = f[n - 1] \cup {c \in cs : Parents(c, cs) \subseteq f[n - 1]}
      BY <1>1, <1>6, <1>8, <3>1
    <3> QED
      BY <1>4, <2>2, <3>2
  <2> QED
    BY <2>1, <2>2 DEF GoesAlike
<1>10. f[N] = g[N]
  <2>1. N \in 0..N
    OBVIOUS
  <2> QED
    BY <1>9, <2>1, SameStages DEF Alike
<1>11. AcyclicAbove(done, cs) <=> g[N] = cs
  BY <1>1, <1>7, <1>8, <1>10
<1> QED
  BY <1>1, <1>2, <1>3, <1>11

\* Every one of them rests on another of them.
Circular(T, cs) == \A c \in T : Parents(c, cs) \cap T # {}

\* The walk leaves nothing out exactly when nothing new rests in a circle.
LEMMA AcyclicMeansNoCircle ==
    ASSUME NEW done, NEW cs, IsFiniteSet(cs), done \subseteq cs
    PROVE  AcyclicAbove(done, cs) <=> \A T \in SUBSET (cs \ done) : Circular(T, cs) => T = {}
<1>1. PICK N \in Nat : N = Cardinality(cs)
  BY FS_CardinalityType
<1>2. PICK g : StagesOf(FinishStep(cs), g, done, cs) /\ (AcyclicAbove(done, cs) <=> g[Cardinality(cs)] = cs)
  BY FinishedIsStaged
<1>3. g \in [0..N -> SUBSET cs] /\ g[0] = done /\ N \in 0..N
  BY <1>1, <1>2 DEF StagesOf
<1>4. ASSUME NEW n \in 1..N PROVE n - 1 \in 0..N /\ g[n] = g[n - 1] \cup {c \in cs : Parents(c, cs) \subseteq g[n - 1]}
  <2>1. n - 1 \in 0..N
    OBVIOUS
  <2>2. g[n - 1] \in SUBSET cs /\ g[n] = FinishStep(cs)[g[n - 1]]
    BY <1>1, <1>2, <2>1 DEF StagesOf
  <2> QED
    BY <2>1, <2>2 DEF FinishStep
<1>5. ASSUME g[N] = cs, NEW T \in SUBSET (cs \ done), Circular(T, cs), T # {} PROVE FALSE
  <2>1. PICK Meets : Meets = {n \in 0..N : g[n] \cap T # {}}
    OBVIOUS
  <2>2. Meets \subseteq Nat /\ N \in Meets
    BY <1>3, <1>5, <2>1
  <2>3. PICK n \in Meets : \A k \in Meets : n <= k
    BY <2>2, HasLeast
  <2>4. n \in 1..N /\ ~(n <= n - 1) /\ g[n] \cap T # {}
    BY <1>3, <1>5, <2>1, <2>3
  <2>5. g[n - 1] \cap T = {} /\ n - 1 \in 0..N
    BY <1>4, <2>1, <2>3, <2>4
  <2>6. PICK c \in T : c \in g[n]
    BY <2>4
  <2>7. Parents(c, cs) \subseteq g[n - 1]
    BY <1>4, <2>4, <2>5, <2>6
  <2> QED
    BY <1>5, <2>5, <2>6, <2>7 DEF Circular
<1>6. ASSUME \A T \in SUBSET (cs \ done) : Circular(T, cs) => T = {} PROVE g[N] = cs
  <2>1. Growing(g, cs)
    BY <1>1, <1>4 DEF Growing
  <2>2. PICK F \in [SUBSET cs -> SUBSET cs] : F = FinishStep(cs)
    BY DEF FinishStep
  <2>3. F[g[N]] \subseteq g[N]
    BY <1>1, <1>2, <2>1, <2>2, Saturates
  <2>4. \A c \in cs : Parents(c, cs) \subseteq g[N] => c \in g[N]
    BY <1>3, <2>2, <2>3 DEF FinishStep
  <2>5. done \subseteq g[N]
    <3>1. PICK Without : Without = {n \in 0..N : ~(done \subseteq g[n])}
      OBVIOUS
    <3>2. SUFFICES ASSUME Without # {} PROVE FALSE
      BY <1>3, <3>1
    <3>3. Without \subseteq Nat
      BY <3>1
    <3>4. PICK n \in Without : \A k \in Without : n <= k
      BY <3>2, <3>3, HasLeast
    <3>5. n \in 1..N /\ ~(n <= n - 1)
      BY <1>3, <3>1, <3>4
    <3>6. n - 1 \notin Without
      BY <3>4, <3>5
    <3> QED
      BY <1>4, <3>1, <3>4, <3>5, <3>6
  <2>6. PICK T : T = cs \ g[N]
    OBVIOUS
  <2>7. T \in SUBSET (cs \ done)
    BY <2>5, <2>6
  <2>8. Circular(T, cs)
    BY <2>4, <2>6 DEF Circular, Parents
  <2>9. T = {}
    BY <1>6, <2>7, <2>8
  <2> QED
    BY <1>3, <2>6, <2>9
<1> QED
  BY <1>1, <1>2, <1>5, <1>6

\* What was committed rests on what was committed before, so that what is new closes no
\* circle through it.
LEMMA StillAcyclic ==
    ASSUME NEW old, NEW new, NEW os, IsFiniteSet(old), IsFiniteSet(new),
           AcyclicAbove({}, old), AcyclicAbove(old, old \cup new), ~Conflict(old \cup new),
           \A c \in old : c.evidence \subseteq os \cup Refs(old) /\ c.supersedes \subseteq Refs(old),
           \A c \in old \cup new : c.ref \notin os
    PROVE  AcyclicAbove({}, old \cup new)
<1>1. PICK all : all = old \cup new
  OBVIOUS
<1>2. IsFiniteSet(all) /\ {} \subseteq all /\ old \subseteq all /\ all \ {} = all
  BY <1>1, FS_Union
<1>3. \A T \in SUBSET old : Circular(T, old) => T = {}
  <2>1. {} \subseteq old /\ old \ {} = old
    OBVIOUS
  <2>2. AcyclicAbove({}, old) <=> \A T \in SUBSET (old \ {}) : Circular(T, old) => T = {}
    BY <2>1, AcyclicMeansNoCircle
  <2> QED
    BY <2>1, <2>2
<1>4. \A T \in SUBSET (all \ old) : Circular(T, all) => T = {}
  BY <1>1, <1>2, AcyclicMeansNoCircle
<1>5. AcyclicAbove({}, all) <=> \A T \in SUBSET (all \ {}) : Circular(T, all) => T = {}
  BY <1>2, AcyclicMeansNoCircle
<1>6. SUFFICES ASSUME NEW T \in SUBSET all, Circular(T, all), T # {} PROVE FALSE
  BY <1>1, <1>2, <1>5
<1>7. CASE T \cap old = {}
  <2>1. T \in SUBSET (all \ old)
    BY <1>7
  <2> QED
    BY <1>4, <1>6, <2>1
<1>8. CASE T \cap old # {}
  <2>1. PICK U : U = T \cap old
    OBVIOUS
  <2>2. ASSUME NEW c \in U PROVE Parents(c, old) \cap U # {}
    <3>1. c \in T /\ c \in old
      BY <2>1, <2>2
    <3>2. PICK d \in T : d \in all /\ d.ref \in c.evidence \cup c.supersedes
      BY <1>6, <3>1 DEF Circular, Parents
    <3>3. d.ref \in Refs(old)
      BY <1>1, <3>1, <3>2
    <3>4. PICK e \in old : e.ref = d.ref
      BY <3>3 DEF Refs
    <3>5. d = e
      BY <1>1, <3>2, <3>4 DEF Conflict
    <3> QED
      BY <2>1, <3>2, <3>4, <3>5 DEF Parents
  <2>3. U \in SUBSET old /\ Circular(U, old)
    BY <2>1, <2>2 DEF Circular
  <2> QED
    BY <1>3, <1>8, <2>1, <2>3
<1> QED
  BY <1>7, <1>8

-----------------------------------------------------------------------------
\* What holds of the World whatever is committed.

HeldTypes ==
    /\ claims \subseteq Offers
    /\ DOMAIN seen \subseteq Observations

HeldWithinLimits ==
    /\ Cardinality(claims) <= MaxClaims
    /\ Cardinality(DOMAIN seen) + Cardinality(claims) <= MaxMetadata
    /\ payload <= MaxPayload
    /\ \A c \in claims : c.source \in Sources

\* What every accepted call was tested for.
Held ==
    /\ IsFiniteSet(claims) /\ IsFiniteSet(DOMAIN seen)
    /\ EvidenceFound(DOMAIN seen, claims, claims)
    /\ ~Conflict(claims)
    /\ \A o \in DOMAIN seen : seen[o] \subseteq Refs(claims)
    /\ payload = Cardinality(claims) + Cardinality(DOMAIN seen)
    /\ HeldWithinLimits

\* What was accepted is held.
AcceptedIsHeld ==
    accepted # <<>> =>
      /\ accepted[2] \subseteq claims
      /\ \/ accepted[1] = NoObservation
         \/ accepted[1] \in DOMAIN seen /\ seen[accepted[1]] = Refs(accepted[2])

WorldInv == HeldTypes /\ Held /\ AcyclicAbove({}, claims) /\ AcceptedIsHeld

LEMMA HeldAtFirst == WorldInit => Held /\ claims = {} /\ DOMAIN seen = {} /\ accepted = <<>>
<1> SUFFICES ASSUME WorldInit PROVE Held /\ claims = {} /\ DOMAIN seen = {} /\ accepted = <<>>
  OBVIOUS
<1>1. claims = {} /\ DOMAIN seen = {} /\ payload = 0 /\ accepted = <<>>
  BY DEF WorldInit
<1>2. Cardinality({}) = 0 /\ IsFiniteSet({})
  BY FS_EmptySet
<1>3. EvidenceFound(DOMAIN seen, claims, claims)
  BY <1>1 DEF EvidenceFound
<1>4. ~Conflict(claims)
  BY <1>1 DEF Conflict
<1>5. HeldWithinLimits
  BY <1>1, <1>2, WorldAssumption DEF HeldWithinLimits
<1> QED
  BY <1>1, <1>2, <1>3, <1>4, <1>5 DEF Held

LEMMA WorldInitSafe == WorldInit => WorldInv
<1> SUFFICES ASSUME WorldInit PROVE WorldInv
  OBVIOUS
<1>1. Held /\ claims = {} /\ DOMAIN seen = {} /\ accepted = <<>>
  BY HeldAtFirst
<1>2. AcyclicAbove({}, claims)
  <2>1. IsFiniteSet(claims) /\ {} \subseteq claims /\ SUBSET (claims \ {}) = {{}}
    BY <1>1, FS_EmptySet
  <2> QED
    BY <2>1, AcyclicMeansNoCircle
<1> QED
  BY <1>1, <1>2 DEF WorldInv, HeldTypes, AcceptedIsHeld

\* A call that is accepted passed every test ...
LEMMA CommitIs ==
    ASSUME NEW o, NEW batch, Commit(o, batch)
    PROVE  /\ \A c \in batch : c.source \in Sources
           /\ ~Conflict(claims \cup batch)
           /\ ~ObservationConflict(o, batch)
           /\ EvidenceFound(Observed(o), claims \cup batch, batch)
           /\ AcyclicAbove(claims, claims \cup batch)
           /\ WithinLimits(o, batch)
           /\ accepted' = accepted \/ accepted' = <<o, batch>>
           /\ \/ /\ batch \subseteq claims /\ Observed(o) = DOMAIN seen
                 /\ UNCHANGED <<seen, claims, payload>>
              \/ /\ seen' = [x \in Observed(o) |-> IF x = o THEN Refs(batch) ELSE seen[x]]
                 /\ claims' = claims \cup batch
                 /\ payload' = payload + Size(o, batch)
<1>1. /\ \A c \in batch : c.source \in Sources
      /\ ~Conflict(claims \cup batch)
      /\ ~ObservationConflict(o, batch)
      /\ EvidenceFound(Observed(o), claims \cup batch, batch)
      /\ AcyclicAbove(claims, claims \cup batch)
      /\ WithinLimits(o, batch)
  BY DEF Commit, Verdict
<1>2. accepted' = accepted \/ accepted' = <<o, batch>>
  BY DEF Commit
<1>3. CASE Verdict(o, batch) # "changed"
  <2>1. batch \subseteq claims /\ Observed(o) = DOMAIN seen
    BY <1>1, <1>3 DEF Commit, Verdict
  <2>2. UNCHANGED <<seen, claims, payload>>
    BY <1>3 DEF Commit
  <2> QED
    BY <1>1, <1>2, <2>1, <2>2
<1>4. CASE Verdict(o, batch) = "changed"
  <2>1. /\ seen' = [x \in Observed(o) |-> IF x = o THEN Refs(batch) ELSE seen[x]]
        /\ claims' = claims \cup batch
        /\ payload' = payload + Size(o, batch)
    BY <1>4 DEF Commit, Rejected
  <2> QED
    BY <1>1, <1>2, <2>1
<1> QED
  BY <1>3, <1>4

\* ... and leaves the World as sound as it found it.
LEMMA CommitKeepsHeld ==
    ASSUME Held, NEW o, NEW batch, IsFiniteSet(batch), Commit(o, batch)
    PROVE  /\ Held'
           /\ claims' = claims \cup batch /\ DOMAIN seen' = Observed(o)
           /\ o \in DOMAIN seen => seen[o] = Refs(batch)
           /\ \A x \in DOMAIN seen : seen'[x] = seen[x]
           /\ o # NoObservation => seen'[o] = Refs(batch)
<1>1. /\ \A c \in batch : c.source \in Sources
      /\ ~Conflict(claims \cup batch)
      /\ ~ObservationConflict(o, batch)
      /\ EvidenceFound(Observed(o), claims \cup batch, batch)
      /\ WithinLimits(o, batch)
  BY CommitIs
<1>2. /\ HeldWithinLimits /\ IsFiniteSet(claims) /\ IsFiniteSet(DOMAIN seen)
      /\ EvidenceFound(DOMAIN seen, claims, claims)
      /\ ~Conflict(claims)
      /\ \A x \in DOMAIN seen : seen[x] \subseteq Refs(claims)
      /\ payload = Cardinality(claims) + Cardinality(DOMAIN seen)
  BY DEF Held
<1>3. o \in DOMAIN seen => seen[o] = Refs(batch)
  BY <1>1 DEF ObservationConflict
<1>4. CASE batch \subseteq claims /\ Observed(o) = DOMAIN seen /\ UNCHANGED <<seen, claims, payload>>
  <2>1. o = NoObservation \/ o \in DOMAIN seen
    BY <1>4 DEF Observed
  <2>2. Held'
    BY <1>4 DEF Held, HeldWithinLimits
  <2> QED
    BY <1>3, <1>4, <2>1, <2>2
<1>5. CASE /\ seen' = [x \in Observed(o) |-> IF x = o THEN Refs(batch) ELSE seen[x]]
           /\ claims' = claims \cup batch
           /\ payload' = payload + Size(o, batch)
  <2>1. DOMAIN seen' = Observed(o) /\ DOMAIN seen \subseteq Observed(o)
    BY <1>5 DEF Observed
  <2>2. IsFiniteSet(claims') /\ IsFiniteSet(DOMAIN seen')
    <3>1. IsFiniteSet(claims')
      BY <1>2, <1>5, FS_Union
    <3>2. PICK A, B : A = DOMAIN seen /\ B = {o} \ {NoObservation}
      OBVIOUS
    <3>3. IsFiniteSet({o})
      BY FS_Singleton
    <3>4. IsFiniteSet(A) /\ IsFiniteSet(B)
      BY <1>2, <3>2, <3>3, FS_Difference
    <3>5. IsFiniteSet(A \cup B)
      BY <3>4, FS_Union
    <3>6. IsFiniteSet(DOMAIN seen')
      BY <2>1, <3>2, <3>5 DEF Observed
    <3> QED
      BY <3>1, <3>6
  <2>3. Refs(claims) \subseteq Refs(claims') /\ Refs(batch) \subseteq Refs(claims')
    BY <1>5 DEF Refs
  <2>4. EvidenceFound(DOMAIN seen', claims', claims')
    BY <1>1, <1>2, <1>5, <2>1, <2>3 DEF EvidenceFound
  <2>5. ~Conflict(claims')
    BY <1>1, <1>5
  <2>6. \A x \in DOMAIN seen' : seen'[x] \subseteq Refs(claims')
    BY <1>2, <1>5, <2>1, <2>3 DEF Observed
  <2>7. payload' = Cardinality(claims') + Cardinality(DOMAIN seen')
    <3>1. Cardinality(claims \cup batch) = Cardinality(claims) + Cardinality(batch \ claims)
      BY <1>2, CountedApart
    <3>2. Cardinality(claims) \in Nat /\ Cardinality(batch \ claims) \in Nat /\ Cardinality(DOMAIN seen) \in Nat
      BY <1>2, FS_Difference, FS_CardinalityType
    <3>3. CASE o = NoObservation \/ o \in DOMAIN seen
      <4>1. DOMAIN seen' = DOMAIN seen
        BY <2>1, <3>3 DEF Observed
      <4>2. Size(o, batch) = Cardinality(batch \ claims) + 0
        BY <3>3 DEF Size
      <4> QED
        BY <1>2, <1>5, <3>1, <3>2, <4>1, <4>2
    <3>4. CASE o # NoObservation /\ o \notin DOMAIN seen
      <4>1. DOMAIN seen' = DOMAIN seen \cup {o}
        BY <2>1, <3>4 DEF Observed
      <4>2. Size(o, batch) = Cardinality(batch \ claims) + 1
        BY <3>4 DEF Size
      <4>3. Cardinality(DOMAIN seen') = Cardinality(DOMAIN seen) + 1
        BY <1>2, <3>4, <4>1, FS_AddElement
      <4> QED
        BY <1>2, <1>5, <3>1, <3>2, <4>2, <4>3
    <3> QED
      BY <3>3, <3>4
  <2>8. HeldWithinLimits'
    <3>1. /\ Cardinality(claims') <= MaxClaims
          /\ Cardinality(DOMAIN seen') + Cardinality(claims') <= MaxMetadata
          /\ payload' <= MaxPayload
      BY <1>1, <1>5, <2>1 DEF WithinLimits
    <3>2. \A c \in claims' : c.source \in Sources
      BY <1>1, <1>2, <1>5 DEF HeldWithinLimits
    <3> QED
      BY <3>1, <3>2 DEF HeldWithinLimits
  <2>9. o # NoObservation => o \in Observed(o)
    BY DEF Observed
  <2>10. Held'
    BY <2>2, <2>4, <2>5, <2>6, <2>7, <2>8 DEF Held
  <2> QED
    BY <1>3, <1>5, <2>1, <2>9, <2>10
<1>6. \/ batch \subseteq claims /\ Observed(o) = DOMAIN seen /\ UNCHANGED <<seen, claims, payload>>
      \/ /\ seen' = [x \in Observed(o) |-> IF x = o THEN Refs(batch) ELSE seen[x]]
         /\ claims' = claims \cup batch
         /\ payload' = payload + Size(o, batch)
  BY CommitIs
<1> QED
  BY <1>4, <1>5, <1>6

LEMMA CommitSafe ==
    ASSUME WorldInv, NEW o \in Observations \cup {NoObservation}, NEW batch \in SUBSET Offers,
           IsFiniteSet(batch), Commit(o, batch)
    PROVE  WorldInv'
<1>1. /\ Held'
      /\ claims' = claims \cup batch /\ DOMAIN seen' = Observed(o)
      /\ \A x \in DOMAIN seen : seen'[x] = seen[x]
      /\ o # NoObservation => seen'[o] = Refs(batch)
  BY CommitKeepsHeld DEF WorldInv
<1>2. HeldTypes'
  BY <1>1 DEF WorldInv, HeldTypes, Observed
<1>3. AcyclicAbove({}, claims')
  <2>1. \A c \in claims : c.evidence \subseteq DOMAIN seen \cup Refs(claims) /\ c.supersedes \subseteq Refs(claims)
    BY DEF WorldInv, Held, EvidenceFound
  <2>2. \A c \in claims \cup batch : c.ref \notin DOMAIN seen
    BY WorldAssumption DEF WorldInv, HeldTypes
  <2>3. IsFiniteSet(claims) /\ AcyclicAbove({}, claims)
    BY DEF WorldInv, Held
  <2>4. ~Conflict(claims \cup batch) /\ AcyclicAbove(claims, claims \cup batch)
    BY CommitIs
  <2>5. AcyclicAbove({}, claims \cup batch)
    BY <2>1, <2>2, <2>3, <2>4, StillAcyclic
  <2> QED
    BY <1>1, <2>5
<1>4. AcceptedIsHeld'
  <2>1. CASE accepted' = <<o, batch>>
    <3>1. o = NoObservation \/ (o \in DOMAIN seen' /\ seen'[o] = Refs(batch))
      BY <1>1 DEF Observed
    <3>2. accepted'[1] = o /\ accepted'[2] = batch /\ batch \subseteq claims'
      BY <1>1, <2>1
    <3> QED
      BY <3>1, <3>2 DEF AcceptedIsHeld
  <2>2. CASE accepted' = accepted
    <3>1. DOMAIN seen \subseteq DOMAIN seen' /\ claims \subseteq claims'
      BY <1>1 DEF Observed
    <3>2. AcceptedIsHeld
      BY DEF WorldInv
    <3> QED
      BY <1>1, <2>2, <3>1, <3>2 DEF AcceptedIsHeld
  <2> QED
    BY <2>1, <2>2, CommitIs
<1> QED
  BY <1>1, <1>2, <1>3, <1>4 DEF WorldInv

LEMMA WorldNextSafe == ASSUME WorldInv, [WorldNext]_worldVars PROVE WorldInv'
<1>1. CASE WorldNext
  BY <1>1, CommitSafe DEF WorldNext
<1>2. CASE UNCHANGED worldVars
  BY <1>2 DEF worldVars, WorldInv, HeldTypes, Held, HeldWithinLimits, AcceptedIsHeld
<1> QED
  BY <1>1, <1>2

-----------------------------------------------------------------------------
\* What is committed twice.

\* What is held is accepted, and changes nothing.
LEMMA HeldIsUnchanged ==
    ASSUME Held, NEW o, NEW batch, batch \subseteq claims,
           o = NoObservation \/ (o \in DOMAIN seen /\ seen[o] = Refs(batch)),
           NoObservation \notin DOMAIN seen
    PROVE  Verdict(o, batch) = "unchanged"
<1>1. claims \cup batch = claims /\ Observed(o) = DOMAIN seen /\ batch \ claims = {}
  BY DEF Observed
<1>2. \A c \in batch : c.source \in Sources
  BY DEF Held, HeldWithinLimits
<1>3. ~Conflict(claims \cup batch) /\ ~ObservationConflict(o, batch)
  BY <1>1 DEF Held, ObservationConflict
<1>4. EvidenceFound(Observed(o), claims \cup batch, batch)
  BY <1>1 DEF Held, EvidenceFound
<1>5. AcyclicAbove(claims, claims \cup batch)
  <2>1. claims \ claims = {} /\ IsFiniteSet(claims) /\ claims \subseteq claims
    BY DEF Held
  <2>2. \A T \in SUBSET (claims \ claims) : T = {}
    BY <2>1
  <2>3. AcyclicAbove(claims, claims)
    BY <2>1, <2>2, AcyclicMeansNoCircle
  <2> QED
    BY <1>1, <2>3
<1>6. WithinLimits(o, batch)
  <2>1. Size(o, batch) = 0
    BY <1>1, FS_EmptySet DEF Size
  <2>2. payload \in Int
    BY FS_CardinalityType DEF Held
  <2>3. /\ Cardinality(claims \cup batch) = Cardinality(claims)
        /\ Cardinality(Observed(o)) = Cardinality(DOMAIN seen)
    BY ONLY <1>1, Zenon
  <2>4. payload + Size(o, batch) = payload
    BY <2>1, <2>2
  <2>5. HeldWithinLimits
    BY DEF Held
  <2> QED
    BY <2>3, <2>4, <2>5 DEF HeldWithinLimits, WithinLimits
<1> QED
  BY <1>1, <1>2, <1>3, <1>4, <1>5, <1>6 DEF Verdict

LEMMA RepeatedHolds == WorldInv => RepeatedIsUnchanged
<1> SUFFICES ASSUME WorldInv, accepted # <<>>
             PROVE  Verdict(accepted[1], accepted[2]) = "unchanged"
  BY DEF RepeatedIsUnchanged
<1>1. PICK o, batch : o = accepted[1] /\ batch = accepted[2]
  OBVIOUS
<1>2. /\ batch \subseteq claims
      /\ o = NoObservation \/ (o \in DOMAIN seen /\ seen[o] = Refs(batch))
  BY <1>1 DEF WorldInv, AcceptedIsHeld
<1>3. NoObservation \notin DOMAIN seen
  BY WorldAssumption DEF WorldInv, HeldTypes
<1>4. Verdict(o, batch) = "unchanged"
  BY <1>2, <1>3, HeldIsUnchanged DEF WorldInv
<1> QED
  BY <1>1, <1>4

-----------------------------------------------------------------------------
\* What is known.

Eligible == {c \in claims : c.kind \in Evidential /\ c.ref \notin Superseded}

\* A claim is supported after something it rests on.
SupportStep ==
    [b \in SUBSET claims |-> {c \in Eligible : c.evidence \cap (DOMAIN seen \cup Refs(b)) # {}}]

LEMMA GroundedIsStaged ==
    ASSUME IsFiniteSet(claims)
    PROVE  \E g : StagesOf(SupportStep, g, {}, claims) /\ Grounded = g[Cardinality(claims)]
<1>1. PICK N \in Nat : N = Cardinality(claims)
  BY FS_CardinalityType
<1>2. PICK F \in [SUBSET claims -> SUBSET claims] : F = SupportStep
  BY DEF SupportStep, Eligible
<1>3. PICK g : StagesOf(F, g, {}, claims)
  <2>1. {} \in SUBSET claims
    OBVIOUS
  <2> QED
    BY <2>1, StagesExist
<1>4. ASSUME NEW n \in 1..N
      PROVE  g[n] = {c \in Eligible : c.evidence \cap (DOMAIN seen \cup Refs(g[n - 1])) # {}}
  <2>1. n - 1 \in 0..N
    OBVIOUS
  <2>2. g[n - 1] \in SUBSET claims /\ g[n] = F[g[n - 1]]
    BY <1>1, <1>3, <2>1 DEF StagesOf
  <2> QED
    BY <1>2, <2>2 DEF SupportStep
<1> DEFINE eligible == {c \in claims : c.kind \in Evidential /\ c.ref \notin Superseded}
           sup[n \in 0..Cardinality(claims)] ==
             IF n = 0 THEN {}
             ELSE LET grounds == DOMAIN seen \cup Refs(sup[n - 1])
                  IN {c \in eligible : c.evidence \cap grounds # {}}
<1>5. g = [n \in 0..Cardinality(claims) |->
             IF n = 0 THEN {}
             ELSE LET grounds == DOMAIN seen \cup Refs(g[n - 1])
                  IN {c \in eligible : c.evidence \cap grounds # {}}]
  <2>1. ASSUME NEW n \in 0..N PROVE n = 0 \/ n \in 1..N
    OBVIOUS
  <2>2. g \in [0..Cardinality(claims) -> SUBSET claims] /\ g[0] = {}
    BY <1>3 DEF StagesOf
  <2>3. eligible = Eligible
    BY DEF Eligible
  <2> HIDE DEF sup, eligible
  <2> QED
    BY <1>1, <1>4, <2>1, <2>2, <2>3
<1>6. sup = [n \in 0..Cardinality(claims) |->
               IF n = 0 THEN {}
               ELSE LET grounds == DOMAIN seen \cup Refs(sup[n - 1])
                    IN {c \in eligible : c.evidence \cap grounds # {}}]
  BY ONLY <1>5, ZenonT(60) DEF sup
<1>7. Grounded = sup[Cardinality(claims)]
  BY DEF Grounded
<1>8. PICK f : f = sup
  OBVIOUS
<1> HIDE DEF sup
<1>9. GoesAlike(N, f, g)
  <2>1. f[0] = g[0]
    <3>1. 0 \in 0..N
      OBVIOUS
    <3> QED
      BY <1>1, <1>3, <1>6, <1>8, <3>1 DEF StagesOf
  <2>2. ASSUME NEW n \in 1..N, f[n - 1] = g[n - 1] PROVE f[n] = g[n]
    <3>1. n \in 0..N /\ n # 0
      OBVIOUS
    <3>2. f[n] = {c \in Eligible : c.evidence \cap (DOMAIN seen \cup Refs(f[n - 1])) # {}}
      BY <1>1, <1>6, <1>8, <3>1 DEF Eligible
    <3> QED
      BY <1>4, <2>2, <3>2
  <2> QED
    BY <2>1, <2>2 DEF GoesAlike
<1>10. f[N] = g[N]
  <2>1. N \in 0..N
    OBVIOUS
  <2> QED
    BY <1>9, <2>1, SameStages DEF Alike
<1> QED
  BY <1>1, <1>2, <1>3, <1>7, <1>8, <1>10

\* Grounded is closed under support, and supported itself.
LEMMA GroundedIsSupported ==
    ASSUME IsFiniteSet(claims)
    PROVE  /\ Grounded = {c \in Eligible : c.evidence \cap (DOMAIN seen \cup Refs(Grounded)) # {}}
           /\ Grounded \subseteq claims
<1>1. PICK N \in Nat : N = Cardinality(claims)
  BY FS_CardinalityType
<1>2. PICK F \in [SUBSET claims -> SUBSET claims] : F = SupportStep
  BY DEF SupportStep, Eligible
<1>3. PICK g : StagesOf(F, g, {}, claims) /\ Grounded = g[N]
  BY <1>1, <1>2, GroundedIsStaged
<1>4. /\ g \in [0..N -> SUBSET claims] /\ g[0] = {}
      /\ \A n \in 1..N : g[n] = F[g[n - 1]]
  BY <1>1, <1>3 DEF StagesOf
<1>5. \A a, b \in SUBSET claims : a \subseteq b => F[a] \subseteq F[b]
  BY <1>2 DEF SupportStep, Refs
<1>6. \A n \in 1..N : g[n - 1] \subseteq g[n]
  <2>1. PICK Shrinks : Shrinks = {n \in 1..N : ~(g[n - 1] \subseteq g[n])}
    OBVIOUS
  <2>2. SUFFICES ASSUME Shrinks # {} PROVE FALSE
    BY <2>1
  <2>3. Shrinks \subseteq Nat
    BY <2>1
  <2>4. PICK n \in Shrinks : \A k \in Shrinks : n <= k
    BY <2>2, <2>3, HasLeast
  <2>5. n # 1
    BY <1>4, <2>1, <2>4
  <2>6. n \in 1..N /\ n - 1 \in 1..N /\ n - 2 \in 0..N /\ n - 1 \in 0..N /\ (n - 1) - 1 = n - 2 /\ ~(n <= n - 1)
    BY <2>1, <2>4, <2>5
  <2>7. g[n - 2] \subseteq g[n - 1]
    BY <2>1, <2>4, <2>6
  <2>8. g[n - 1] = F[g[n - 2]] /\ g[n] = F[g[n - 1]]
    BY <1>4, <2>6
  <2> QED
    BY <1>4, <1>5, <2>1, <2>4, <2>6, <2>7, <2>8
<1>7. F[g[N]] \subseteq g[N]
  <2>1. Growing(g, claims)
    BY <1>1, <1>6 DEF Growing
  <2> QED
    BY <1>1, <1>3, <2>1, Saturates
<1>8. g[N] \subseteq F[g[N]]
  <2>1. CASE N = 0
    BY <1>4, <2>1
  <2>2. CASE N # 0
    <3>1. N \in 1..N /\ N - 1 \in 0..N /\ N \in 0..N
      BY <2>2
    <3>2. g[N - 1] \subseteq g[N] /\ g[N] = F[g[N - 1]]
      BY <1>4, <1>6, <3>1
    <3> QED
      BY <1>4, <1>5, <3>1, <3>2
  <2> QED
    BY <2>1, <2>2
<1>9. Grounded \in SUBSET claims /\ Grounded = F[Grounded]
  <2>1. N \in 0..N
    OBVIOUS
  <2> QED
    BY <1>3, <1>4, <1>7, <1>8, <2>1
<1> QED
  BY <1>2, <1>9 DEF SupportStep

\* What the code finds by support is what rests on an observation by some chain: without
\* circles a chain has nowhere else to end.
LEMMA GroundedRests ==
    ASSUME IsFiniteSet(claims), AcyclicAbove({}, claims)
    PROVE  \A c \in claims : c \in Grounded <=> Rests(c)
<1>1. PICK G : G = Grounded
  OBVIOUS
<1>2. /\ G = {c \in Eligible : c.evidence \cap (DOMAIN seen \cup Refs(G)) # {}}
      /\ G \subseteq claims
  BY <1>1, GroundedIsSupported
<1>3. ASSUME NEW c \in G PROVE Rests(c)
  <2>1. \A d \in G : /\ d.kind \in Evidential
                     /\ \A e \in claims : d.ref \notin e.supersedes
                     /\ d.evidence \cap (DOMAIN seen \cup Refs(G)) # {}
    BY <1>2 DEF Eligible, Superseded, Refs
  <2> QED
    BY <1>2, <1>3, <2>1 DEF Rests
<1>4. ASSUME NEW c \in claims, Rests(c) PROVE c \in G
  <2>1. PICK chain \in SUBSET claims :
          /\ c \in chain
          /\ \A d \in chain : /\ d.kind \in Evidential
                              /\ \A e \in claims : d.ref \notin e.supersedes
                              /\ d.evidence \cap (DOMAIN seen \cup Refs(chain)) # {}
    BY <1>4 DEF Rests
  <2>2. PICK T : T = chain \ G
    OBVIOUS
  <2>3. ASSUME NEW d \in T PROVE Parents(d, claims) \cap T # {}
    <3>1. d \in Eligible /\ d \notin G
      BY <2>1, <2>2, <2>3 DEF Eligible, Superseded
    <3>2. d.evidence \cap (DOMAIN seen \cup Refs(G)) = {}
      BY <1>2, <3>1
    <3>3. PICK r \in d.evidence : r \in Refs(chain) /\ r \notin Refs(G)
      BY <2>1, <2>2, <2>3, <3>2
    <3>4. PICK x \in chain : x.ref = r /\ x \notin G
      BY <3>3 DEF Refs
    <3> QED
      BY <2>1, <2>2, <3>3, <3>4 DEF Parents
  <2>4. T \in SUBSET claims /\ Circular(T, claims)
    BY <2>1, <2>2, <2>3 DEF Circular
  <2>5. T = {}
    <3>1. {} \subseteq claims /\ claims \ {} = claims
      OBVIOUS
    <3>2. AcyclicAbove({}, claims) <=> \A U \in SUBSET (claims \ {}) : Circular(U, claims) => U = {}
      BY <3>1, AcyclicMeansNoCircle
    <3> QED
      BY <2>4, <3>1, <3>2
  <2> QED
    BY <2>1, <2>2, <2>5
<1> QED
  BY <1>1, <1>3, <1>4

Times == 0..MaxTime \cup {NoTime}

\* When the claims are well formed the clock has three answers.
LEMMA TemporalIs ==
    ASSUME NEW c \in Offers, NEW now \in Times
    PROVE  /\ c.at \in Int /\ c.lasts \in Int /\ now \in Int /\ NoTime \in Int
           /\ c.at = NoTime \/ c.at >= 0
           /\ c.at = NoTime => Temporal(c, now) = "live"
           /\ c.at # NoTime /\ (now = NoTime \/ now < c.at) => Temporal(c, now) = "unresolved"
           /\ c.at # NoTime /\ now # NoTime /\ c.at <= now =>
                Temporal(c, now) = IF c.lasts # NoTime /\ now >= c.at + c.lasts THEN "expired" ELSE "live"
<1>1. /\ c.at \in 0..MaxTime \cup {NoTime} /\ c.lasts \in Nat \cup {NoTime}
      /\ MaxTime \in Nat
  BY WorldAssumption DEF WellFormed
<1>2. c.at \in Int /\ c.lasts \in Int /\ now \in Int /\ NoTime \in Int /\ (c.at = NoTime \/ c.at >= 0)
  BY <1>1 DEF Times, NoTime
<1>3. ASSUME c.at = NoTime PROVE Temporal(c, now) = "live"
  BY <1>3 DEF Temporal
<1>4. ASSUME c.at # NoTime, now = NoTime \/ now < c.at PROVE Temporal(c, now) = "unresolved"
  BY <1>4 DEF Temporal
<1>5. ASSUME c.at # NoTime, now # NoTime, c.at <= now
      PROVE  Temporal(c, now) = IF c.lasts # NoTime /\ now >= c.at + c.lasts THEN "expired" ELSE "live"
  <2>1. ~(now < c.at)
    BY <1>2, <1>5
  <2> QED
    BY <1>5, <2>1 DEF Temporal
<1> QED
  BY <1>2, <1>3, <1>4, <1>5

Classed(class, predicate, now) ==
    {c \in Selected(predicate, now) \cap Grounded : Temporal(c, now) = class}

\* What is known is the one value of the live claims, and no claim of an uncertain time
\* says otherwise.
LEMMA KnownIsOne ==
    ASSUME IsFiniteSet(claims), NEW p, NEW now, Resolve(p, now).status = "known"
    PROVE  \E v : /\ Resolve(p, now).values = {v} /\ Values(Classed("live", p, now)) = {v}
                  /\ Values(Classed("unresolved", p, now)) \subseteq {v}
<1>1. PICK live, unresolved, expired :
        /\ live = Classed("live", p, now) /\ unresolved = Classed("unresolved", p, now)
        /\ expired = Classed("expired", p, now)
  OBVIOUS
<1>2. IsFiniteSet(Values(live))
  <2>1. live \in SUBSET claims
    BY <1>1 DEF Classed, Selected
  <2>2. IsFiniteSet(live)
    BY <2>1, FS_Subset
  <2>3. PICK f : f = [c \in live |-> c.value]
    OBVIOUS
  <2>4. f \in Surjection(live, Values(live))
    BY <2>3 DEF Surjection, Values
  <2> QED
    BY <2>2, <2>4, FS_Surjection
<1>3. Cardinality(Values(live)) \in Nat
  BY <1>2, FS_CardinalityType
<1>4. Resolve(p, now) =
        CASE Cardinality(Values(live)) > 1 ->
               [status |-> "conflicted", values |-> Values(live \cup unresolved)]
          [] Cardinality(Values(live)) = 1 /\ Values(unresolved) \subseteq Values(live) ->
               [status |-> "known", values |-> Values(live)]
          [] Cardinality(Values(live)) = 1 /\ ~(Values(unresolved) \subseteq Values(live)) ->
               [status |-> "unknown", values |-> Values(live \cup unresolved)]
          [] live = {} /\ unresolved # {} ->
               [status |-> "unknown",
                values |-> Values(expired \cup unresolved \cup (Selected(p, now) \ (Selected(p, now) \cap Grounded)))]
          [] live = {} /\ unresolved = {} /\ expired # {} ->
               [status |-> "stale", values |-> Values(expired)]
          [] OTHER -> [status |-> "unknown",
                       values |-> Values(Selected(p, now) \ (Selected(p, now) \cap Grounded))]
  BY <1>1 DEF Resolve, Classed
<1>5. /\ Cardinality(Values(live)) = 1 /\ Values(unresolved) \subseteq Values(live)
      /\ Resolve(p, now).values = Values(live)
  <2>1. CASE Cardinality(Values(live)) > 1
    BY <1>3, <1>4, <2>1
  <2>2. CASE Cardinality(Values(live)) = 1
    <3>1. ~(Cardinality(Values(live)) > 1) /\ live # {}
      BY <1>3, <2>2, FS_EmptySet DEF Values
    <3> QED
      BY <1>4, <2>2, <3>1
  <2>3. CASE ~(Cardinality(Values(live)) > 1) /\ Cardinality(Values(live)) # 1
    BY <1>4, <2>3
  <2> QED
    BY <2>1, <2>2, <2>3
<1>6. \E v : Values(live) = {v}
  BY <1>2, <1>5, FS_Singleton
<1> QED
  BY <1>1, <1>5, <1>6

\* What KnownIsCurrent says of a predicate and a value.
Current(p, v, now) ==
    /\ \E c \in claims : c.predicate = p /\ c.value = v /\ Rests(c)
                          /\ (c.at = NoTime \/ InForce(c, now))
    /\ \A c \in claims :
         c.predicate = p /\ c.value # v /\ Rests(c) =>
           c.at # NoTime /\ now # NoTime /\ c.at <= now /\ ~InForce(c, now)

LEMMA KnownIsHeld ==
    ASSUME WorldInv, NEW p, NEW now \in Times, NEW v,
           Resolve(p, now).status = "known", Resolve(p, now).values = {v}
    PROVE  Current(p, v, now)
<1>1. /\ IsFiniteSet(claims) /\ claims \subseteq Offers
      /\ \A c \in claims : c \in Grounded <=> Rests(c)
      /\ Grounded \subseteq claims
      /\ \A c \in Grounded : c.ref \notin Superseded
  <2>1. IsFiniteSet(claims) /\ claims \subseteq Offers /\ AcyclicAbove({}, claims)
    BY DEF WorldInv, HeldTypes, Held
  <2>2. /\ Grounded = {c \in Eligible : c.evidence \cap (DOMAIN seen \cup Refs(Grounded)) # {}}
        /\ Grounded \subseteq claims
    BY <2>1, GroundedIsSupported
  <2>3. \A c \in Grounded : c.ref \notin Superseded
    BY <2>2 DEF Eligible
  <2> QED
    BY <2>1, <2>2, <2>3, GroundedRests
<1>2. /\ Values(Classed("live", p, now)) = {v}
      /\ Values(Classed("unresolved", p, now)) \subseteq {v}
  BY <1>1, KnownIsOne
<1>3. ASSUME NEW c \in Grounded, c.predicate = p,
             c.at = NoTime \/ Temporal(c, now) = "unresolved"
             \/ \A d \in claims : /\ d.predicate = p /\ d.source = c.source /\ d \in Grounded
                                  /\ d.at # NoTime /\ Temporal(d, now) # "unresolved"
                                  => d.at <= c.at
      PROVE  c \in Classed(Temporal(c, now), p, now)
  <2>1. c \in Selected(p, now)
    BY <1>1, <1>3 DEF Selected
  <2> QED
    BY <1>3, <2>1 DEF Classed
<1>4. \E c \in claims : c.predicate = p /\ c.value = v /\ Rests(c) /\ (c.at = NoTime \/ InForce(c, now))
  <2>1. PICK c \in Classed("live", p, now) : c.value = v
    BY <1>2 DEF Values
  <2>2. c \in claims /\ c.predicate = p /\ c \in Grounded /\ Rests(c) /\ Temporal(c, now) = "live"
    BY <1>1, <2>1 DEF Classed, Selected
  <2>3. /\ c.at \in Int /\ c.lasts \in Int /\ now \in Int
        /\ c.at # NoTime => now # NoTime /\ c.at <= now /\ ~(c.lasts # NoTime /\ now >= c.at + c.lasts)
    BY <1>1, <2>2, TemporalIs
  <2>4. ASSUME c.at # NoTime, NEW d \in claims, d.predicate = c.predicate, d.source = c.source, Rests(d)
        PROVE  ~(c.at < d.at /\ d.at <= now)
    <3>1. SUFFICES ASSUME c.at < d.at, d.at <= now PROVE FALSE
      OBVIOUS
    <3>2. d \in Grounded /\ d.ref \notin Superseded
      BY <1>1, <2>4
    <3>3. /\ d.at \in Int /\ c.at >= 0 /\ NoTime < 0
      BY <1>1, <2>2, <2>4, TemporalIs DEF NoTime
    <3>4. d.at # NoTime /\ now # NoTime /\ Temporal(d, now) # "unresolved"
      BY <1>1, <2>3, <2>4, <3>1, <3>3, TemporalIs
    <3>5. d.at <= c.at
      BY <2>1, <2>2, <2>4, <3>2, <3>4 DEF Classed, Selected
    <3> QED
      BY <2>3, <3>1, <3>3, <3>5
  <2>5. c.at # NoTime => InForce(c, now)
    <3>1. ASSUME c.at # NoTime PROVE c.lasts = NoTime \/ now < c.at + c.lasts
      BY <2>3, <3>1
    <3> QED
      BY <2>3, <2>4, <3>1 DEF InForce
  <2> QED
    BY <2>1, <2>2, <2>5
<1>5. ASSUME NEW c \in claims, c.predicate = p, c.value # v, Rests(c)
      PROVE  c.at # NoTime /\ now # NoTime /\ c.at <= now /\ ~InForce(c, now)
  <2>1. c \in Grounded /\ c \in Offers
    BY <1>1, <1>5
  <2>2. c \notin Classed("live", p, now) /\ c \notin Classed("unresolved", p, now)
    BY <1>2, <1>5 DEF Values
  <2>3. c.at # NoTime
    BY <1>3, <1>5, <2>1, <2>2, TemporalIs
  <2>4. Temporal(c, now) # "unresolved"
    BY <1>3, <1>5, <2>1, <2>2
  <2>5. now # NoTime /\ c.at <= now /\ c.at \in Int /\ c.lasts \in Int /\ now \in Int
    BY <2>1, <2>3, <2>4, TemporalIs
  <2>6. ASSUME InForce(c, now) PROVE FALSE
    <3>1. c.lasts = NoTime \/ now < c.at + c.lasts
      BY <2>6 DEF InForce
    <3>2. Temporal(c, now) = "live"
      <4>1. ~(c.lasts # NoTime /\ now >= c.at + c.lasts)
        BY <2>5, <3>1
      <4> QED
        BY <2>1, <2>3, <2>5, <4>1, TemporalIs
    <3>3. ASSUME NEW d \in claims, d.predicate = p, d.source = c.source, d \in Grounded,
                 d.at # NoTime, Temporal(d, now) # "unresolved"
          PROVE  d.at <= c.at
      <4>1. d.at \in Int /\ d.at <= now
        BY <1>1, <3>3, TemporalIs
      <4>2. ~(c.at < d.at /\ d.at <= now)
        BY <1>1, <1>5, <2>6, <3>3 DEF InForce
      <4> QED
        BY <2>5, <4>1, <4>2
    <3>4. c \in Classed(Temporal(c, now), p, now)
      BY <1>3, <1>5, <2>1, <3>3
    <3> QED
      BY <2>2, <3>2, <3>4
  <2> QED
    BY <2>3, <2>5, <2>6
<1> QED
  BY <1>4, <1>5 DEF Current

LEMMA ConfirmedIsKnown ==
    ASSUME NEW filter, NEW now, Match(filter, now) = "confirmed", NEW p \in DOMAIN filter
    PROVE  Resolve(p, now).status = "known" /\ Resolve(p, now).values = {filter[p]}
<1>1. PICK got : got = [q \in DOMAIN filter |-> Resolve(q, now)]
  OBVIOUS
<1>2. PICK missing, matched, supported :
        /\ missing = {q \in DOMAIN filter : got[q].status = "unknown" /\ got[q].values = {}}
        /\ matched = {q \in DOMAIN filter : got[q] = [status |-> "known", values |-> {filter[q]}]}
        /\ supported = {q \in DOMAIN filter \ missing : filter[q] \in got[q].values}
  OBVIOUS
<1>3. Match(filter, now) =
        CASE \/ supported \cup missing # DOMAIN filter
             \/ missing = DOMAIN filter -> "excluded"
          [] matched = DOMAIN filter -> "confirmed"
          [] OTHER -> "possible"
  BY <1>1, <1>2 DEF Match
<1>4. matched = DOMAIN filter
  <2>1. CASE supported \cup missing # DOMAIN filter \/ missing = DOMAIN filter
    <3>1. SUFFICES ASSUME matched # DOMAIN filter PROVE FALSE
      OBVIOUS
    <3> QED
      BY <1>3, <2>1, <3>1
  <2>2. CASE ~(supported \cup missing # DOMAIN filter \/ missing = DOMAIN filter)
    BY <1>3, <2>2
  <2> QED
    BY <2>1, <2>2
<1>5. got[p] = [status |-> "known", values |-> {filter[p]}]
  BY <1>2, <1>4
<1> QED
  BY <1>1, <1>5

LEMMA KnownHolds == WorldInv => KnownIsCurrent
<1> SUFFICES ASSUME WorldInv PROVE KnownIsCurrent
  OBVIOUS
<1>1. ASSUME NEW now \in Times, NEW p, Resolve(p, now).status = "known"
      PROVE  \E v \in Resolve(p, now).values : Resolve(p, now).values = {v} /\ Current(p, v, now)
  <2>1. IsFiniteSet(claims)
    BY DEF WorldInv, Held
  <2>2. PICK v : Resolve(p, now).values = {v}
    BY <1>1, <2>1, KnownIsOne
  <2> QED
    BY <1>1, <2>2, KnownIsHeld
<1>2. ASSUME NEW now \in Times, NEW filter \in Filters, Match(filter, now) = "confirmed",
             NEW p \in DOMAIN filter
      PROVE  Current(p, filter[p], now)
  BY <1>2, ConfirmedIsKnown, KnownIsHeld
<1> QED
  BY <1>1, <1>2 DEF KnownIsCurrent, Current, Times

\* world.py: whatever is committed, in whatever order and however often, evidence goes
\* back to what the World holds, what was accepted once is accepted for ever and changes
\* nothing, and what is known is what the current claims say.
THEOREM WorldIsSound == WorldSpec => [](ProvenanceHolds /\ RepeatedIsUnchanged /\ KnownIsCurrent)
<1>1. WorldInv => ProvenanceHolds /\ RepeatedIsUnchanged /\ KnownIsCurrent
  BY RepeatedHolds, KnownHolds DEF WorldInv, Held, ProvenanceHolds
<1> QED
  BY <1>1, WorldInitSafe, WorldNextSafe, PTL DEF WorldSpec

-----------------------------------------------------------------------------
\* The greedy assignment.

\* Pairs by what they cost, then by their track, then by their detection.
Nearer(W, p, q) ==
    \/ W[p] < W[q]
    \/ W[p] = W[q] /\ p[2] < q[2]
    \/ W[p] = W[q] /\ p[2] = q[2] /\ p[1] < q[1]

GreedyStep(S, W) ==
    [b \in SUBSET S |-> b \cup {p \in Open(S, b) : \A q \in Open(S, b) \ {p} : Nearer(W, p, q)}]

Apart(A) == \A p, q \in A : p # q => p[1] # q[1] /\ p[2] # q[2]

\* Each pair is there, or one that costs no more is there in its place.
Preferred(S, W, A) == \A p \in S : \E b \in A : (b[1] = p[1] \/ b[2] = p[2]) /\ W[b] <= W[p]

LEMMA NearerOrders ==
    ASSUME NEW S \in SUBSET (Nat \X Nat), NEW W \in [S -> Int]
    PROVE  /\ \A p \in S : ~Nearer(W, p, p)
           /\ \A p, q, r \in S : Nearer(W, p, q) /\ Nearer(W, q, r) => Nearer(W, p, r)
           /\ \A p, q \in S : p # q => Nearer(W, p, q) \/ Nearer(W, q, p)
           /\ \A p, q \in S : Nearer(W, p, q) => W[p] <= W[q]
<1>1. \A p \in S : W[p] \in Int /\ p[1] \in Nat /\ p[2] \in Nat /\ p = <<p[1], p[2]>>
  OBVIOUS
<1>2. ASSUME NEW p \in S PROVE ~Nearer(W, p, p)
  BY <1>1 DEF Nearer
<1>3. ASSUME NEW p \in S, NEW q \in S, NEW r \in S, Nearer(W, p, q), Nearer(W, q, r)
      PROVE  Nearer(W, p, r)
  BY <1>1, <1>3 DEF Nearer
<1>4. ASSUME NEW p \in S, NEW q \in S, p # q PROVE Nearer(W, p, q) \/ Nearer(W, q, p)
  BY <1>1, <1>4 DEF Nearer
<1>5. ASSUME NEW p \in S, NEW q \in S, Nearer(W, p, q) PROVE W[p] <= W[q]
  BY <1>1, <1>5 DEF Nearer
<1> QED
  BY <1>2, <1>3, <1>4, <1>5

LEMMA NearestExists ==
    ASSUME NEW S \in SUBSET (Nat \X Nat), IsFiniteSet(S), NEW W \in [S -> Int],
           NEW left \in SUBSET S, left # {}
    PROVE  \E p \in left : \A q \in left \ {p} : Nearer(W, p, q)
<1>1. PICK R : R = {ss \in S \X S : Nearer(W, ss[1], ss[2])}
  OBVIOUS
<1>2. \A p, q \in S : <<p, q>> \in R <=> Nearer(W, p, q)
  BY <1>1
<1>3. Orders(R, left)
  BY <1>2, NearerOrders DEF Orders
<1>4. IsFiniteSet(left)
  BY FS_Subset
<1>5. PICK p \in left : \A q \in left : <<q, p>> \notin R
  BY <1>3, <1>4, FiniteHasLeast
<1> QED
  BY <1>2, <1>5, NearerOrders

LEMMA GreedyIsFair ==
    ASSUME NEW S \in SUBSET (Nat \X Nat), IsFiniteSet(S), NEW W \in [S -> Int],
           NEW g, StagesOf(GreedyStep(S, W), g, {}, S)
    PROVE  /\ g[Cardinality(S)] \subseteq S
           /\ Apart(g[Cardinality(S)])
           /\ Preferred(S, W, g[Cardinality(S)])
<1>1. PICK N \in Nat : N = Cardinality(S)
  BY FS_CardinalityType
<1>2. PICK F \in [SUBSET S -> SUBSET S] : F = GreedyStep(S, W)
  <2>1. GreedyStep(S, W) \in [SUBSET S -> SUBSET S]
    BY DEF GreedyStep, Open
  <2> QED
    BY <2>1
<1>3. /\ g \in [0..N -> SUBSET S] /\ g[0] = {} /\ 0 \in 0..N /\ N \in 0..N
      /\ \A n \in 1..N : n - 1 \in 0..N /\ g[n] = F[g[n - 1]]
  BY <1>1, <1>2 DEF StagesOf
<1> DEFINE Best(b) == {p \in Open(S, b) : \A q \in Open(S, b) \ {p} : Nearer(W, p, q)}
<1>4. ASSUME NEW n \in 1..N PROVE g[n] = g[n - 1] \cup Best(g[n - 1])
  <2>1. g[n - 1] \in SUBSET S
    BY <1>3
  <2> QED
    BY <1>2, <1>3, <2>1 DEF GreedyStep
<1>5. ASSUME NEW b \in SUBSET S, NEW p \in Best(b), NEW q \in Best(b) PROVE p = q
  <2>1. p \in S /\ q \in S
    BY <1>5 DEF Open
  <2>2. ASSUME p # q PROVE Nearer(W, p, q) /\ Nearer(W, q, p)
    BY <1>5, <2>2
  <2> QED
    BY <2>1, <2>2, NearerOrders
<1> DEFINE Sound(b) == Apart(b) /\ \A p \in S \ Open(S, b) : \E q \in b : (q[1] = p[1] \/ q[2] = p[2]) /\ W[q] <= W[p]
<1>6. Sound({})
  BY DEF Apart, Open
<1>7. ASSUME NEW b \in SUBSET S, Sound(b) PROVE Sound(b \cup Best(b))
  <2>1. Apart(b \cup Best(b))
    <3>1. ASSUME NEW p \in b, NEW q \in Best(b) PROVE p[1] # q[1] /\ p[2] # q[2]
      BY <3>1 DEF Open
    <3> HIDE DEF Best
    <3> QED
      BY <1>5, <1>7, <3>1 DEF Apart
  <2>2. ASSUME NEW p \in S, p \notin Open(S, b \cup Best(b))
        PROVE  \E q \in b \cup Best(b) : (q[1] = p[1] \/ q[2] = p[2]) /\ W[q] <= W[p]
    <3>1. CASE p \notin Open(S, b)
      BY <1>7, <2>2, <3>1
    <3>2. CASE p \in Open(S, b)
      <4>1. PICK q \in Best(b) : q[1] = p[1] \/ q[2] = p[2]
        BY <2>2, <3>2 DEF Open
      <4>2. q \in S /\ (p = q \/ Nearer(W, q, p))
        BY <3>2, <4>1 DEF Open
      <4>3. W[q] <= W[p]
        BY <4>2, NearerOrders
      <4> QED
        BY <4>1, <4>3
    <3> QED
      BY <3>1, <3>2
  <2> HIDE DEF Best
  <2> QED
    BY <2>1, <2>2
<1>8. \A n \in 0..N : Sound(g[n])
  <2>1. PICK Bad : Bad = {n \in 0..N : ~Sound(g[n])}
    OBVIOUS
  <2>2. SUFFICES ASSUME Bad # {} PROVE FALSE
    BY <2>1
  <2>3. Bad \subseteq Nat
    BY <2>1
  <2>4. PICK n \in Bad : \A k \in Bad : n <= k
    BY <2>2, <2>3, HasLeast
  <2>5. n \in 0..N /\ ~Sound(g[n])
    BY <2>1, <2>4
  <2> HIDE DEF Sound, Best
  <2>6. n \in 1..N /\ ~(n <= n - 1)
    <3>1. g[n] # {}
      BY <1>6, <2>5
    <3>2. n # 0
      BY <1>3, <3>1
    <3> QED
      BY <2>5, <3>2
  <2>7. Sound(g[n - 1]) /\ g[n - 1] \in SUBSET S
    BY <1>3, <2>1, <2>4, <2>6
  <2> QED
    BY <1>4, <1>7, <2>5, <2>6, <2>7
<1>9. Open(S, g[N]) = {}
  <2>1. Growing(g, S)
    BY <1>1, <1>4 DEF Growing
  <2>2. F[g[N]] \subseteq g[N] /\ g[N] \in SUBSET S
    BY <1>1, <1>2, <1>3, <2>1, Saturates
  <2>3. Best(g[N]) \subseteq g[N]
    BY <1>2, <2>2 DEF GreedyStep
  <2>4. SUFFICES ASSUME Open(S, g[N]) # {} PROVE FALSE
    OBVIOUS
  <2>5. Open(S, g[N]) \in SUBSET S
    BY DEF Open
  <2>6. PICK p \in Open(S, g[N]) : \A q \in Open(S, g[N]) \ {p} : Nearer(W, p, q)
    BY <2>4, <2>5, NearestExists
  <2> QED
    BY <2>3, <2>6 DEF Open
<1>10. Sound(g[N]) /\ g[N] \subseteq S
  BY <1>3, <1>8
<1> QED
  BY <1>1, <1>9, <1>10 DEF Preferred

Certain(scene, pairs) == {p \in pairs : p[1] \notin Ambiguous(scene, pairs)}

LEMMA AssignedIsFair ==
    ASSUME NEW scene, NEW pairs \in SUBSET (Nat \X Nat), IsFiniteSet(pairs),
           \A p \in pairs : PairCost(scene, p) \in Int
    PROVE  /\ Assigned(scene, pairs) \subseteq Certain(scene, pairs)
           /\ Apart(Assigned(scene, pairs))
           /\ \A p \in Certain(scene, pairs) : \E b \in Assigned(scene, pairs) :
                (b[1] = p[1] \/ b[2] = p[2]) /\ PairCost(scene, b) <= PairCost(scene, p)
<1>1. PICK S : S = Certain(scene, pairs)
  OBVIOUS
<1>2. S \in SUBSET (Nat \X Nat) /\ IsFiniteSet(S) /\ S \in SUBSET pairs
  <2>1. S \in SUBSET pairs
    BY <1>1 DEF Certain
  <2> QED
    BY <2>1, FS_Subset
<1>3. PICK N \in Nat : N = Cardinality(S)
  BY <1>2, FS_CardinalityType
<1>4. PICK W \in [S -> Int] : \A p \in S : W[p] = PairCost(scene, p)
  <2>1. [p \in S |-> PairCost(scene, p)] \in [S -> Int]
    BY <1>2
  <2> QED
    BY <2>1
<1>5. \A p, q \in S : Sooner(scene, p, q) <=> Nearer(W, p, q)
  BY <1>4 DEF Sooner, Nearer
<1>6. PICK F \in [SUBSET S -> SUBSET S] : F = GreedyStep(S, W)
  <2>1. GreedyStep(S, W) \in [SUBSET S -> SUBSET S]
    BY DEF GreedyStep, Open
  <2> QED
    BY <2>1
<1>7. PICK g : StagesOf(F, g, {}, S)
  <2>1. {} \in SUBSET S
    OBVIOUS
  <2> QED
    BY <1>2, <2>1, StagesExist
<1>8. ASSUME NEW n \in 1..N
      PROVE  g[n] = g[n - 1] \cup {p \in Open(S, g[n - 1]) :
                                     \A q \in Open(S, g[n - 1]) \ {p} : Sooner(scene, p, q)}
  <2>1. n - 1 \in 0..N
    OBVIOUS
  <2>2. g[n - 1] \in SUBSET S /\ g[n] = F[g[n - 1]]
    BY <1>3, <1>7, <2>1 DEF StagesOf
  <2>3. g[n] = g[n - 1] \cup {p \in Open(S, g[n - 1]) :
                                \A q \in Open(S, g[n - 1]) \ {p} : Nearer(W, p, q)}
    BY <1>6, <2>2 DEF GreedyStep
  <2>4. Open(S, g[n - 1]) \subseteq S
    BY DEF Open
  <2> QED
    BY <1>5, <2>3, <2>4
<1> DEFINE ambiguous == Ambiguous(scene, pairs)
           certain == {p \in pairs : p[1] \notin ambiguous}
           tak[n \in 0..Cardinality(certain)] ==
             IF n = 0 THEN {}
             ELSE LET left == Open(certain, tak[n - 1])
                  IN tak[n - 1] \cup {p \in left : \A q \in left \ {p} : Sooner(scene, p, q)}
<1>9. certain = S
  BY <1>1 DEF Certain
<1>10. g = [n \in 0..Cardinality(certain) |->
              IF n = 0 THEN {}
              ELSE LET left == Open(certain, g[n - 1])
                   IN g[n - 1] \cup {p \in left : \A q \in left \ {p} : Sooner(scene, p, q)}]
  <2>1. ASSUME NEW n \in 0..N PROVE n = 0 \/ n \in 1..N
    OBVIOUS
  <2>2. g \in [0..Cardinality(S) -> SUBSET S] /\ g[0] = {}
    BY <1>7 DEF StagesOf
  <2> HIDE DEF tak, certain
  <2> QED
    BY <1>3, <1>8, <1>9, <2>1, <2>2
<1>11. tak = [n \in 0..Cardinality(certain) |->
                IF n = 0 THEN {}
                ELSE LET left == Open(certain, tak[n - 1])
                     IN tak[n - 1] \cup {p \in left : \A q \in left \ {p} : Sooner(scene, p, q)}]
  BY ONLY <1>10, ZenonT(60) DEF tak
<1>12. Assigned(scene, pairs) = tak[Cardinality(certain)]
  BY DEF Assigned
<1>13. PICK f : f = tak
  OBVIOUS
<1> HIDE DEF tak, certain
<1>14. GoesAlike(N, f, g)
  <2>1. f[0] = g[0]
    <3>1. 0 \in 0..N
      OBVIOUS
    <3> QED
      BY <1>3, <1>7, <1>9, <1>11, <1>13, <3>1 DEF StagesOf
  <2>2. ASSUME NEW n \in 1..N, f[n - 1] = g[n - 1] PROVE f[n] = g[n]
    <3>1. n \in 0..N /\ n # 0
      OBVIOUS
    <3>2. f[n] = f[n - 1] \cup {p \in Open(S, f[n - 1]) :
                                  \A q \in Open(S, f[n - 1]) \ {p} : Sooner(scene, p, q)}
      BY <1>3, <1>9, <1>11, <1>13, <3>1
    <3> QED
      BY <1>8, <2>2, <3>2
  <2> QED
    BY <2>1, <2>2 DEF GoesAlike
<1>15. f[N] = g[N]
  <2>1. N \in 0..N
    OBVIOUS
  <2> QED
    BY <1>14, <2>1, SameStages DEF Alike
<1>16. PICK A : A = Assigned(scene, pairs)
  OBVIOUS
<1>17. A = g[Cardinality(S)]
  BY <1>3, <1>9, <1>12, <1>13, <1>15, <1>16
<1>18. A \subseteq S /\ Apart(A) /\ Preferred(S, W, A)
  BY <1>2, <1>6, <1>7, <1>17, GreedyIsFair
<1>19. \A p \in S : \E b \in A : (b[1] = p[1] \/ b[2] = p[2]) /\ PairCost(scene, b) <= PairCost(scene, p)
  BY <1>4, <1>18 DEF Preferred
<1> QED
  BY <1>1, <1>16, <1>18, <1>19

-----------------------------------------------------------------------------
\* The names of an update.

SceneSound(scene) ==
    /\ IsFiniteSet(DOMAIN scene) /\ DOMAIN scene \subseteq Nat
    /\ \A d \in DOMAIN scene : scene[d].place \in Int

TracksSound ==
    /\ tracker.counter \in Nat
    /\ DOMAIN tracker.tracks \subseteq 1..tracker.counter
    /\ \A t \in DOMAIN tracker.tracks :
         /\ tracker.tracks[t].place \in Int
         /\ tracker.tracks[t] = [kind |-> tracker.tracks[t].kind, place |-> tracker.tracks[t].place,
                                 time |-> tracker.tracks[t].time, missed |-> tracker.tracks[t].missed]

LEMMA PairsSound ==
    ASSUME TracksSound, NEW scene, SceneSound(scene), NEW time
    PROVE  /\ Pairs(scene, time) \in SUBSET (Nat \X Nat)
           /\ IsFiniteSet(Pairs(scene, time))
           /\ \A p \in Pairs(scene, time) :
                /\ PairCost(scene, p) \in Int
                /\ p[1] \in DOMAIN scene /\ p[2] \in Active(time)
                /\ p[2] \in 1..tracker.counter
                /\ scene[p[1]].kind = tracker.tracks[p[2]].kind
<1>1. PICK counter, tracks : counter = tracker.counter /\ tracks = tracker.tracks
  OBVIOUS
<1>2. /\ counter \in Nat /\ DOMAIN tracks \subseteq 1..counter
      /\ \A t \in DOMAIN tracks : tracks[t].place \in Int
      /\ Active(time) \subseteq DOMAIN tracks
  BY <1>1 DEF TracksSound, Active
<1>3. IsFiniteSet(1..counter) /\ IsFiniteSet(DOMAIN scene)
  BY <1>2, FS_Interval DEF SceneSound
<1>4. IsFiniteSet((DOMAIN scene) \X (1..counter))
  BY <1>3, FS_Product
<1>5. Pairs(scene, time) \in SUBSET ((DOMAIN scene) \X (1..counter))
  BY <1>2 DEF Pairs
<1>6. ASSUME NEW p \in Pairs(scene, time)
      PROVE  /\ PairCost(scene, p) \in Int
             /\ p[1] \in DOMAIN scene /\ p[2] \in Active(time) /\ p[2] \in 1..counter
             /\ scene[p[1]].kind = tracks[p[2]].kind
  <2>1. p[1] \in DOMAIN scene /\ p[2] \in Active(time) /\ Cost(tracks[p[2]], scene[p[1]]) # NoCost
    BY <1>1 DEF Pairs
  <2>2. scene[p[1]].place \in Int /\ tracks[p[2]].place \in Int /\ p[2] \in 1..counter
    BY <1>2, <2>1 DEF SceneSound
  <2>3. scene[p[1]].kind = tracks[p[2]].kind /\ Cost(tracks[p[2]], scene[p[1]]) \in Int
    BY <2>1, <2>2 DEF Cost, NoCost
  <2> QED
    BY <1>1, <2>1, <2>2, <2>3 DEF PairCost
<1>7. IsFiniteSet(Pairs(scene, time))
  BY <1>4, <1>5, FS_Subset
<1>8. Pairs(scene, time) \in SUBSET (Nat \X Nat)
  BY <1>2, <1>5 DEF SceneSound
<1> QED
  BY <1>1, <1>6, <1>7, <1>8

\* A name is that of a track it was assigned to, or none, or new; and it is given once.
LEMMA NamesGiven ==
    ASSUME TracksSound, NEW scene, SceneSound(scene), NEW time,
           NEW pairs, pairs = Pairs(scene, time), NEW names, names = Names(scene, pairs)
    PROVE  /\ DOMAIN names = DOMAIN scene
           /\ IsFiniteSet(Unpaired(scene, pairs))
           /\ \A d \in DOMAIN scene :
                \/ /\ d \in Unpaired(scene, pairs)
                   /\ names[d] \in Nat
                   /\ tracker.counter < names[d]
                   /\ names[d] <= tracker.counter + Cardinality(Unpaired(scene, pairs))
                \/ d \notin Unpaired(scene, pairs) /\ names[d] = 0
                \/ d \notin Unpaired(scene, pairs) /\ <<d, names[d]>> \in Assigned(scene, pairs)
           /\ \A p \in Assigned(scene, pairs) : p[1] \in DOMAIN scene /\ names[p[1]] = p[2]
           /\ \A d, e \in DOMAIN scene : d # e /\ names[d] # 0 => names[d] # names[e]
<1>1. PICK counter : counter = tracker.counter
  OBVIOUS
<1>2. PICK assigned, new : assigned = Assigned(scene, pairs) /\ new = Unpaired(scene, pairs)
  OBVIOUS
<1>3. /\ pairs \in SUBSET (Nat \X Nat) /\ IsFiniteSet(pairs)
      /\ \A p \in pairs : /\ PairCost(scene, p) \in Int
                          /\ p[1] \in DOMAIN scene /\ p[2] \in 1..counter
  BY <1>1, PairsSound
<1>4. assigned \subseteq pairs /\ Apart(assigned)
  BY <1>2, <1>3, AssignedIsFair DEF Certain
<1>5. /\ DOMAIN scene \subseteq Nat /\ IsFiniteSet(DOMAIN scene) /\ counter \in Nat
  BY <1>1 DEF SceneSound, TracksSound
<1>6. /\ new \subseteq DOMAIN scene /\ IsFiniteSet(new)
      /\ \A p \in pairs : p[1] \notin new
  <2>1. new \subseteq DOMAIN scene /\ \A p \in pairs : p[1] \notin new
    BY <1>2 DEF Unpaired
  <2> QED
    BY <1>5, <2>1, FS_Subset
<1> DEFINE Upto(d) == {e \in new : e <= d}
<1>7. names = [d \in DOMAIN scene |->
                 IF d \in new THEN counter + Cardinality(Upto(d))
                 ELSE IF \E p \in assigned : p[1] = d
                      THEN (CHOOSE p \in assigned : p[1] = d)[2] ELSE 0]
  BY <1>1, <1>2 DEF Names, NewName
<1>8. ASSUME NEW d \in new
      PROVE  /\ IsFiniteSet(Upto(d)) /\ Cardinality(Upto(d)) \in Nat
             /\ 0 < Cardinality(Upto(d)) /\ Cardinality(Upto(d)) <= Cardinality(new)
             /\ names[d] = counter + Cardinality(Upto(d))
  <2>1. PICK U : U = Upto(d)
    OBVIOUS
  <2>2. U \in SUBSET new /\ d \in U
    BY <1>5, <1>6, <2>1
  <2>3. IsFiniteSet(U) /\ Cardinality(U) \in Nat /\ Cardinality(U) <= Cardinality(new)
    BY <1>6, <2>2, FS_Subset, FS_CardinalityType
  <2>4. Cardinality(U) # 0
    BY <2>2, <2>3, FS_EmptySet
  <2>5. names[d] = counter + Cardinality(U)
    BY <1>6, <1>7, <2>1
  <2> HIDE DEF Upto
  <2> QED
    BY <2>1, <2>3, <2>4, <2>5
<1>9. ASSUME NEW d \in new, NEW e \in new, d < e PROVE names[d] # names[e]
  <2>1. PICK U, V : U = Upto(d) /\ V = Upto(e)
    OBVIOUS
  <2>2. U \in SUBSET V /\ U # V
    BY <1>5, <1>6, <1>9, <2>1
  <2>3. /\ IsFiniteSet(V) /\ Cardinality(U) \in Nat /\ Cardinality(V) \in Nat
        /\ names[d] = counter + Cardinality(U) /\ names[e] = counter + Cardinality(V)
    BY <1>8, <2>1
  <2>4. Cardinality(V) # Cardinality(U)
    BY <2>2, <2>3, FS_Subset
  <2> QED
    BY <1>5, <2>3, <2>4
<1> HIDE DEF Upto
<1>10. ASSUME NEW p \in assigned PROVE p[1] \in DOMAIN scene /\ p[1] \notin new /\ names[p[1]] = p[2]
  <2>1. p[1] \in DOMAIN scene /\ p[1] \notin new
    BY <1>3, <1>4, <1>6
  <2>2. PICK q : q = CHOOSE x \in assigned : x[1] = p[1]
    OBVIOUS
  <2>3. q \in assigned /\ q[1] = p[1]
    BY <2>2
  <2>4. q = p
    BY <1>4, <2>3 DEF Apart
  <2> QED
    BY <1>7, <2>1, <2>2, <2>4
<1>11. ASSUME NEW d \in DOMAIN scene, d \notin new, names[d] # 0
       PROVE  <<d, names[d]>> \in assigned /\ names[d] \in 1..counter
  <2>1. PICK p \in assigned : p[1] = d
    BY <1>7, <1>11
  <2>2. names[d] = p[2] /\ p = <<p[1], p[2]>> /\ p[2] \in 1..counter
    BY <1>3, <1>4, <1>10, <2>1
  <2> QED
    BY <2>1, <2>2
<1>12. ASSUME NEW d \in DOMAIN scene, NEW e \in DOMAIN scene, d # e, names[d] # 0
       PROVE  names[d] # names[e]
  <2>1. CASE d \in new /\ e \in new
    <3>1. d < e \/ e < d
      BY <1>5, <1>12
    <3> QED
      BY <1>9, <2>1, <3>1
  <2>2. CASE d \in new /\ e \notin new
    <3>1. counter < names[d] /\ names[d] \in Nat
      BY <1>5, <1>8, <2>2
    <3>2. ASSUME names[d] = names[e] PROVE FALSE
      <4>1. names[e] \in 1..counter
        BY <1>11, <1>12, <2>2, <3>2
      <4> QED
        BY <1>5, <3>1, <3>2, <4>1
    <3> QED
      BY <3>2
  <2>3. CASE d \notin new /\ e \in new
    <3>1. counter < names[e] /\ names[e] \in Nat
      BY <1>5, <1>8, <2>3
    <3>2. names[d] \in 1..counter
      BY <1>11, <1>12, <2>3
    <3> QED
      BY <1>5, <3>1, <3>2
  <2>4. CASE d \notin new /\ e \notin new
    <3>1. SUFFICES ASSUME names[d] = names[e] PROVE FALSE
      OBVIOUS
    <3>2. <<d, names[d]>> \in assigned /\ <<e, names[e]>> \in assigned
      BY <1>11, <1>12, <2>4, <3>1
    <3> QED
      BY <1>4, <1>12, <3>1, <3>2 DEF Apart
  <2> QED
    BY <2>1, <2>2, <2>3, <2>4
<1>13. ASSUME NEW d \in new
       PROVE  names[d] \in Nat /\ counter < names[d] /\ names[d] <= counter + Cardinality(new)
  <2>1. Cardinality(new) \in Nat
    BY <1>6, FS_CardinalityType
  <2> QED
    BY <1>5, <1>8, <2>1
<1>14. DOMAIN names = DOMAIN scene
  BY <1>7
<1> QED
  BY <1>1, <1>2, <1>6, <1>10, <1>11, <1>12, <1>13, <1>14

-----------------------------------------------------------------------------
\* The tracker.

\* What was told names the objects of its scene with names that were given.
ToldSound ==
    \A s \in DOMAIN told :
      /\ s \in Nat /\ s <= tracker.last
      /\ told[s] = [names |-> told[s].names, scene |-> told[s].scene, time |-> told[s].time]
      /\ \A d \in DOMAIN told[s].names :
           told[s].names[d] \in Nat /\ told[s].names[d] <= tracker.counter

\* A name is of one kind, in what was told ...
KindsKept ==
    \A s, r \in DOMAIN told :
      \A d \in DOMAIN told[s].names, e \in DOMAIN told[r].names :
        told[s].names[d] = told[r].names[e] /\ told[s].names[d] # 0 =>
          told[s].scene[d].kind = told[r].scene[e].kind

\* ... and in what is tracked.
TracksKept ==
    \A t \in DOMAIN tracker.tracks : \A s \in DOMAIN told : \A d \in DOMAIN told[s].names :
      told[s].names[d] = t => told[s].scene[d].kind = tracker.tracks[t].kind

CacheKept ==
    /\ \E S : tracker.cache \in Seq(S)
    /\ \A i \in DOMAIN tracker.cache :
         /\ tracker.cache[i].sequence \in DOMAIN told
         /\ told[tracker.cache[i].sequence].names = tracker.cache[i].names

AnswerKept ==
    answer # NoAnswer => answer.sequence \in DOMAIN told /\ answer.names = told[answer.sequence].names

TrackerInv ==
    /\ tracker.last \in Nat
    /\ TracksSound /\ ToldSound /\ KindsKept /\ TracksKept /\ CacheKept /\ AnswerKept

LEMMA TrackerStays ==
    ASSUME TrackerInv, UNCHANGED trackerVars PROVE TrackerInv'
BY DEF trackerVars, TrackerInv, TracksSound, ToldSound, KindsKept, TracksKept, CacheKept, AnswerKept

LEMMA TrackerInitSafe ==
    ASSUME tracker = NewTracker, told = Nothing, answer = NoAnswer PROVE TrackerInv
<1>1. /\ tracker.last = 0 /\ tracker.counter = 0 /\ DOMAIN tracker.tracks = {}
      /\ tracker.cache = <<>> /\ DOMAIN told = {}
  BY DEF NewTracker, Nothing
<1>2. tracker.cache \in Seq({}) /\ DOMAIN tracker.cache = {}
  BY <1>1
<1> QED
  BY <1>1, <1>2 DEF TrackerInv, TracksSound, ToldSound, KindsKept, TracksKept, CacheKept, AnswerKept

\* What an update does when it tracks.
Tracked(s, time, scene, names, pairs, counter) ==
    /\ tracker.last < s
    /\ tracker'.last = s /\ tracker'.time = time
    /\ tracker'.counter = counter + Cardinality(Unpaired(scene, pairs))
    /\ LET given == {names[d] : d \in DOMAIN scene} \ {0} IN
       /\ DOMAIN tracker'.tracks = Active(time) \cup given
       /\ \A t \in given : \E d \in DOMAIN scene :
            /\ names[d] = t
            /\ tracker'.tracks[t] = [kind |-> scene[d].kind, place |-> scene[d].place,
                                     time |-> time, missed |-> 0]
       /\ \A t \in Active(time) \ given :
            tracker'.tracks[t] = [tracker.tracks[t] EXCEPT !.missed = @ + 1]
    /\ LET entry == [sequence |-> s, time |-> time, scene |-> scene, names |-> names] IN
       \/ tracker'.cache = Append(tracker.cache, entry)
       \/ Len(Append(tracker.cache, entry)) > MaxFrames /\ tracker'.cache = Tail(Append(tracker.cache, entry))
    /\ answer' = [sequence |-> s, status |-> "updated", names |-> names]
    /\ told' = [r \in DOMAIN told \cup {s} |-> IF r \in DOMAIN told THEN told[r]
                                              ELSE [names |-> names, scene |-> scene, time |-> time]]

LEMMA TrackIs ==
    ASSUME NEW s, NEW time, NEW scene, Track(s, time, scene)
    PROVE  \/ Skips
           \/ Tracked(s, time, scene, Names(scene, Pairs(scene, time)), Pairs(scene, time), tracker.counter)
<1>1. PICK pairs : pairs = Pairs(scene, time)
  OBVIOUS
<1>2. PICK names : names = Names(scene, pairs)
  OBVIOUS
<1> DEFINE given == {names[d] : d \in DOMAIN scene} \ {0}
           Of(t) == CHOOSE d \in DOMAIN scene : names[d] = t
           tracks == [t \in Active(time) \cup given |->
                        IF t \in given THEN [kind |-> scene[Of(t)].kind, place |-> scene[Of(t)].place,
                                             time |-> time, missed |-> 0]
                        ELSE [tracker.tracks[t] EXCEPT !.missed = @ + 1]]
           entry == [sequence |-> s, time |-> time, scene |-> scene, names |-> names]
           cache == Append(tracker.cache, entry)
<1>3. \/ Skips
      \/ /\ Newer(s, time)
         /\ tracker' = [last |-> s, time |-> time,
                        counter |-> tracker.counter + Cardinality(Unpaired(scene, pairs)),
                        tracks |-> tracks,
                        cache |-> IF Len(cache) > MaxFrames THEN Tail(cache) ELSE cache]
         /\ answer' = [sequence |-> s, status |-> "updated", names |-> names]
         /\ told' = [r \in DOMAIN told \cup {s} |-> IF r \in DOMAIN told THEN told[r]
                                                   ELSE [names |-> names, scene |-> scene, time |-> time]]
  BY <1>1, <1>2, ZenonT(60) DEF Track
<1>4. \A t \in given : Of(t) \in DOMAIN scene /\ names[Of(t)] = t
  OBVIOUS
<1>5. /\ DOMAIN tracks = Active(time) \cup given
      /\ \A t \in given : \E d \in DOMAIN scene :
           /\ names[d] = t
           /\ tracks[t] = [kind |-> scene[d].kind, place |-> scene[d].place, time |-> time, missed |-> 0]
      /\ \A t \in Active(time) \ given : tracks[t] = [tracker.tracks[t] EXCEPT !.missed = @ + 1]
  <2>1. ASSUME NEW t \in given
        PROVE  tracks[t] = [kind |-> scene[Of(t)].kind, place |-> scene[Of(t)].place,
                            time |-> time, missed |-> 0]
    OBVIOUS
  <2>2. DOMAIN tracks = Active(time) \cup given
    OBVIOUS
  <2>3. \A t \in Active(time) \ given : tracks[t] = [tracker.tracks[t] EXCEPT !.missed = @ + 1]
    OBVIOUS
  <2> HIDE DEF tracks, given, Of
  <2> QED
    BY <1>4, <2>1, <2>2, <2>3
<1> HIDE DEF tracks, cache
<1>6. CASE ~Skips
  <2>1. /\ tracker'.last = s /\ tracker'.time = time
        /\ tracker'.counter = tracker.counter + Cardinality(Unpaired(scene, pairs))
        /\ tracker'.tracks = tracks
        /\ tracker'.cache = cache \/ (Len(cache) > MaxFrames /\ tracker'.cache = Tail(cache))
        /\ tracker.last < s
    BY <1>3, <1>6 DEF Newer
  <2>2. /\ answer' = [sequence |-> s, status |-> "updated", names |-> names]
        /\ told' = [r \in DOMAIN told \cup {s} |-> IF r \in DOMAIN told THEN told[r]
                                                  ELSE [names |-> names, scene |-> scene, time |-> time]]
    BY <1>3, <1>6
  <2>3. Tracked(s, time, scene, names, pairs, tracker.counter)
    BY <1>5, <2>1, <2>2 DEF Tracked, cache
  <2> QED
    BY <1>1, <1>2, <2>3
<1> QED
  BY <1>6

LEMMA AppendTail ==
    ASSUME NEW S, NEW q \in Seq(S), NEW e, NEW T, T = S \cup {e}
    PROVE  /\ Append(q, e) \in Seq(T) /\ Len(Append(q, e)) = Len(q) + 1
           /\ Append(q, e)[Len(q) + 1] = e
           /\ \A i \in DOMAIN Append(q, e) : Append(q, e)[i] = e \/ (i \in DOMAIN q /\ Append(q, e)[i] = q[i])
           /\ Len(Append(q, e)) > 1 =>
                /\ Tail(Append(q, e)) \in Seq(T)
                /\ Len(Tail(Append(q, e))) = Len(q)
                /\ Tail(Append(q, e))[Len(q)] = e
                /\ \A i \in DOMAIN Tail(Append(q, e)) : i + 1 \in DOMAIN Append(q, e)
                                                       /\ Tail(Append(q, e))[i] = Append(q, e)[i + 1]
<1>1. q \in Seq(T) /\ e \in T /\ Len(q) \in Nat /\ DOMAIN q = 1..Len(q)
  OBVIOUS
<1>2. PICK a : a = Append(q, e)
  OBVIOUS
<1>3. /\ a \in Seq(T) /\ Len(a) = Len(q) + 1 /\ a[Len(q) + 1] = e /\ DOMAIN a = 1..(Len(q) + 1)
      /\ \A i \in 1..Len(q) : a[i] = q[i]
  BY <1>1, <1>2
<1>4. ASSUME NEW i \in DOMAIN a PROVE a[i] = e \/ (i \in DOMAIN q /\ a[i] = q[i])
  <2>1. i = Len(q) + 1 \/ i \in 1..Len(q)
    BY <1>1, <1>3
  <2> QED
    BY <1>1, <1>3, <2>1
<1>5. ASSUME Len(a) > 1
      PROVE  /\ Tail(a) \in Seq(T) /\ Len(Tail(a)) = Len(q) /\ Tail(a)[Len(q)] = e
             /\ \A i \in DOMAIN Tail(a) : i + 1 \in DOMAIN a /\ Tail(a)[i] = a[i + 1]
  <2>1. a # <<>>
    BY <1>5
  <2>2. /\ Tail(a) \in Seq(T) /\ Len(Tail(a)) = Len(a) - 1
        /\ \A i \in 1..Len(Tail(a)) : Tail(a)[i] = a[i + 1]
    BY <1>3, <2>1
  <2>3. DOMAIN Tail(a) = 1..Len(q) /\ Len(q) \in 1..Len(q)
    BY <1>1, <1>3, <1>5, <2>2
  <2> QED
    BY <1>1, <1>3, <2>2, <2>3
<1> QED
  BY <1>2, <1>3, <1>4, <1>5

LEMMA TrackedSafe ==
    ASSUME TrackerInv, NEW s \in Nat, NEW time, NEW scene, SceneSound(scene),
           NEW pairs, pairs = Pairs(scene, time), NEW names, names = Names(scene, pairs),
           NEW counter, counter = tracker.counter, Tracked(s, time, scene, names, pairs, counter)
    PROVE  TrackerInv'
<1> DEFINE given == {names[d] : d \in DOMAIN scene} \ {0}
<1>1. PICK new, tracks : new = Unpaired(scene, pairs) /\ tracks = tracker.tracks
  OBVIOUS
<1>2. /\ DOMAIN names = DOMAIN scene /\ IsFiniteSet(new)
      /\ \A d \in DOMAIN scene :
           \/ /\ d \in new /\ names[d] \in Nat
              /\ counter < names[d] /\ names[d] <= counter + Cardinality(new)
           \/ d \notin new /\ names[d] = 0
           \/ d \notin new /\ <<d, names[d]>> \in Assigned(scene, pairs)
      /\ \A d, e \in DOMAIN scene : d # e /\ names[d] # 0 => names[d] # names[e]
  BY <1>1, NamesGiven DEF TrackerInv
<1>3. /\ counter \in Nat /\ DOMAIN tracks \subseteq 1..counter
      /\ \A t \in DOMAIN tracks :
           /\ tracks[t].place \in Int
           /\ tracks[t] = [kind |-> tracks[t].kind, place |-> tracks[t].place,
                           time |-> tracks[t].time, missed |-> tracks[t].missed]
      /\ Active(time) \subseteq DOMAIN tracks
  BY <1>1 DEF TrackerInv, TracksSound, Active
<1>4. \A d \in DOMAIN scene : scene[d].place \in Int
  BY DEF SceneSound
<1>5. Cardinality(new) \in Nat
  BY <1>2, FS_CardinalityType
<1>6. ASSUME NEW d \in DOMAIN scene, <<d, names[d]>> \in Assigned(scene, pairs)
      PROVE  names[d] \in DOMAIN tracks /\ names[d] \in 1..counter /\ scene[d].kind = tracks[names[d]].kind
  <2>1. /\ pairs \in SUBSET (Nat \X Nat) /\ IsFiniteSet(pairs)
        /\ \A p \in pairs : PairCost(scene, p) \in Int /\ p[2] \in Active(time)
                            /\ scene[p[1]].kind = tracks[p[2]].kind
    BY <1>1, PairsSound DEF TrackerInv
  <2>2. Assigned(scene, pairs) \subseteq pairs
    BY <2>1, AssignedIsFair DEF Certain
  <2>3. PICK p \in pairs : p = <<d, names[d]>>
    BY <1>6, <2>2
  <2>4. p[1] = d /\ p[2] = names[d] /\ p[2] \in Active(time) /\ scene[p[1]].kind = tracks[p[2]].kind
    BY <2>1, <2>3
  <2> QED
    BY <1>3, <2>4
<1>7. \A d \in DOMAIN scene : names[d] \in Nat /\ names[d] <= counter + Cardinality(new)
  <2>1. ASSUME NEW d \in DOMAIN scene, <<d, names[d]>> \in Assigned(scene, pairs)
        PROVE  names[d] \in Nat /\ names[d] <= counter + Cardinality(new)
    <3>1. names[d] \in 1..counter
      BY <1>6, <2>1
    <3> QED
      BY <1>3, <1>5, <3>1
  <2>2. 0 \in Nat /\ 0 <= counter + Cardinality(new)
    BY <1>3, <1>5
  <2> QED
    BY <1>2, <2>1, <2>2
<1>8. /\ tracker.last < s
      /\ tracker'.last = s /\ tracker'.time = time
      /\ tracker'.counter = counter + Cardinality(new)
      /\ DOMAIN tracker'.tracks = Active(time) \cup given
      /\ \A t \in given : \E d \in DOMAIN scene :
           /\ names[d] = t
           /\ tracker'.tracks[t] = [kind |-> scene[d].kind, place |-> scene[d].place,
                                    time |-> time, missed |-> 0]
      /\ \A t \in Active(time) \ given :
           tracker'.tracks[t] = [tracks[t] EXCEPT !.missed = @ + 1]
  BY <1>1 DEF Tracked
<1>9. /\ answer' = [sequence |-> s, status |-> "updated", names |-> names]
      /\ told' = [r \in DOMAIN told \cup {s} |-> IF r \in DOMAIN told THEN told[r]
                                                ELSE [names |-> names, scene |-> scene, time |-> time]]
  BY DEF Tracked
<1>10. /\ s \notin DOMAIN told /\ DOMAIN told' = DOMAIN told \cup {s}
       /\ \A r \in DOMAIN told : told'[r] = told[r]
       /\ told'[s] = [names |-> names, scene |-> scene, time |-> time]
  <2>1. s \notin DOMAIN told
    BY <1>8 DEF TrackerInv, ToldSound
  <2> QED
    BY <1>9, <2>1
<1> HIDE DEF given
<1>11. \A r \in DOMAIN told : \A d \in DOMAIN told[r].names :
         told[r].names[d] \in Nat /\ told[r].names[d] <= counter
  BY DEF TrackerInv, ToldSound
<1>12. ASSUME NEW d \in DOMAIN scene, NEW r \in DOMAIN told, NEW e \in DOMAIN told[r].names,
              names[d] = told[r].names[e], names[d] # 0
       PROVE  scene[d].kind = told[r].scene[e].kind
  <2>1. names[d] <= counter
    BY <1>11, <1>12
  <2>2. <<d, names[d]>> \in Assigned(scene, pairs)
    BY <1>2, <1>3, <1>12, <2>1
  <2>3. names[d] \in DOMAIN tracks /\ scene[d].kind = tracks[names[d]].kind
    BY <1>6, <2>2
  <2> QED
    BY <1>1, <1>12, <2>3 DEF TrackerInv, TracksKept
<1>13. KindsKept'
  <2>1. ASSUME NEW r \in DOMAIN told', NEW q \in DOMAIN told',
               NEW d \in DOMAIN told'[r].names, NEW e \in DOMAIN told'[q].names,
               told'[r].names[d] = told'[q].names[e], told'[r].names[d] # 0
        PROVE  told'[r].scene[d].kind = told'[q].scene[e].kind
    <3>1. CASE r \in DOMAIN told /\ q \in DOMAIN told
      BY <1>10, <2>1, <3>1 DEF TrackerInv, KindsKept
    <3>2. CASE r = s /\ q \in DOMAIN told
      BY <1>2, <1>10, <1>12, <2>1, <3>2
    <3>3. CASE r \in DOMAIN told /\ q = s
      BY <1>2, <1>10, <1>12, <2>1, <3>3
    <3>4. CASE r = s /\ q = s
      <4>1. d = e
        BY <1>2, <1>10, <2>1, <3>4
      <4> QED
        BY <3>4, <4>1
    <3> QED
      BY <1>10, <3>1, <3>2, <3>3, <3>4
  <2> QED
    BY <2>1 DEF KindsKept
<1>14. \A d \in DOMAIN scene : names[d] # 0 => names[d] \in given
  BY DEF given
<1>15. TracksKept'
  <2>1. ASSUME NEW t \in DOMAIN tracker'.tracks, NEW r \in DOMAIN told', NEW e \in DOMAIN told'[r].names,
               told'[r].names[e] = t
        PROVE  told'[r].scene[e].kind = tracker'.tracks[t].kind
    <3>1. CASE t \in given
      <4>1. PICK d \in DOMAIN scene : names[d] = t /\ tracker'.tracks[t].kind = scene[d].kind
        <5>1. PICK d \in DOMAIN scene :
                /\ names[d] = t
                /\ tracker'.tracks[t] = [kind |-> scene[d].kind, place |-> scene[d].place,
                                         time |-> time, missed |-> 0]
          BY <1>8, <3>1
        <5> QED
          BY <5>1
      <4>2. t # 0
        BY <3>1 DEF given
      <4>3. d \in DOMAIN told'[s].names /\ told'[s].names[d] = t /\ told'[s].scene[d].kind = scene[d].kind
            /\ s \in DOMAIN told'
        BY <1>2, <1>10, <4>1
      <4> QED
        BY <1>13, <2>1, <4>1, <4>2, <4>3 DEF KindsKept
    <3>2. CASE t \notin given
      <4>1. t \in Active(time) \ given /\ t \in DOMAIN tracks /\ t # 0
        BY <1>3, <1>8, <2>1, <3>2
      <4>2. tracker'.tracks[t].kind = tracks[t].kind
        <5>1. tracker'.tracks[t] = [tracks[t] EXCEPT !.missed = @ + 1]
          BY <1>8, <4>1
        <5>2. PICK k, p, w, m : tracks[t] = [kind |-> k, place |-> p, time |-> w, missed |-> m]
          BY <1>3, <4>1
        <5> QED
          BY <5>1, <5>2
      <4>3. r # s
        BY <1>2, <1>10, <1>14, <2>1, <3>2, <4>1
      <4>4. r \in DOMAIN told /\ told'[r] = told[r]
        BY <1>10, <4>3
      <4> QED
        BY <1>1, <2>1, <4>1, <4>2, <4>4 DEF TrackerInv, TracksKept
    <3> QED
      BY <3>1, <3>2
  <2> QED
    BY <2>1 DEF TracksKept
<1>16. ToldSound'
  <2>1. ASSUME NEW r \in DOMAIN told'
        PROVE  /\ r \in Nat /\ r <= tracker'.last
               /\ told'[r] = [names |-> told'[r].names, scene |-> told'[r].scene, time |-> told'[r].time]
               /\ \A d \in DOMAIN told'[r].names :
                    told'[r].names[d] \in Nat /\ told'[r].names[d] <= tracker'.counter
    <3>1. CASE r \in DOMAIN told
      <4>1. /\ r \in Nat /\ r <= tracker.last /\ tracker.last \in Nat
            /\ told[r] = [names |-> told[r].names, scene |-> told[r].scene, time |-> told[r].time]
        BY <3>1 DEF TrackerInv, ToldSound
      <4>2. r <= tracker'.last
        BY <1>8, <4>1
      <4>3. \A d \in DOMAIN told[r].names : told[r].names[d] \in Nat /\ told[r].names[d] <= tracker'.counter
        BY <1>3, <1>5, <1>8, <1>11, <3>1
      <4> QED
        BY <1>10, <3>1, <4>1, <4>2, <4>3
    <3>2. CASE r = s
      BY <1>2, <1>7, <1>8, <1>10, <3>2
    <3> QED
      BY <1>10, <3>1, <3>2
  <2> QED
    BY <2>1 DEF ToldSound
<1>17. TracksSound'
  <2>1. tracker'.counter \in Nat
    BY <1>3, <1>5, <1>8
  <2>2. DOMAIN tracker'.tracks \subseteq 1..tracker'.counter
    <3>1. ASSUME NEW t \in given PROVE t \in 1..tracker'.counter
      <4>1. PICK d \in DOMAIN scene : names[d] = t /\ t # 0
        BY <3>1 DEF given
      <4> QED
        BY <1>3, <1>5, <1>7, <1>8, <4>1
    <3>2. ASSUME NEW t \in Active(time) PROVE t \in 1..tracker'.counter
      BY <1>3, <1>5, <1>8, <3>2
    <3> QED
      BY <1>8, <3>1, <3>2
  <2>3. ASSUME NEW t \in DOMAIN tracker'.tracks
        PROVE  /\ tracker'.tracks[t].place \in Int
               /\ tracker'.tracks[t] =
                    [kind |-> tracker'.tracks[t].kind, place |-> tracker'.tracks[t].place,
                     time |-> tracker'.tracks[t].time, missed |-> tracker'.tracks[t].missed]
    <3>1. CASE t \in given
      <4>1. PICK d \in DOMAIN scene :
              tracker'.tracks[t] = [kind |-> scene[d].kind, place |-> scene[d].place,
                                    time |-> time, missed |-> 0]
        BY <1>8, <3>1
      <4> QED
        BY <1>4, <4>1
    <3>2. CASE t \notin given
      <4>1. t \in Active(time) \ given /\ t \in DOMAIN tracks
        BY <1>3, <1>8, <2>3, <3>2
      <4>2. tracker'.tracks[t] = [tracks[t] EXCEPT !.missed = @ + 1]
        BY <1>8, <4>1
      <4>3. PICK k, p, w, m : tracks[t] = [kind |-> k, place |-> p, time |-> w, missed |-> m] /\ p \in Int
        BY <1>3, <4>1
      <4>4. tracker'.tracks[t] = [kind |-> k, place |-> p, time |-> w, missed |-> m + 1]
        BY <4>2, <4>3
      <4> QED
        BY <4>3, <4>4
    <3> QED
      BY <3>1, <3>2
  <2> QED
    BY <2>1, <2>2, <2>3 DEF TracksSound
<1>18. CacheKept'
  <2>1. PICK S : tracker.cache \in Seq(S)
    BY DEF TrackerInv, CacheKept
  <2>2. PICK q, e : q = tracker.cache /\ e = [sequence |-> s, time |-> time, scene |-> scene, names |-> names]
    OBVIOUS
  <2>3. \/ tracker'.cache = Append(q, e)
        \/ Len(Append(q, e)) > 1 /\ tracker'.cache = Tail(Append(q, e))
    <3>1. Len(Append(q, e)) \in Nat
      BY <2>1, <2>2, AppendTail
    <3>2. \/ tracker'.cache = Append(q, e)
          \/ Len(Append(q, e)) > MaxFrames /\ tracker'.cache = Tail(Append(q, e))
      BY <2>2 DEF Tracked
    <3>3. MaxFrames \in Nat /\ MaxFrames >= 1
      BY VisionAssumption
    <3> QED
      BY <3>1, <3>2, <3>3
  <2>4. PICK T : T = S \cup {e}
    OBVIOUS
  <2>5. e.sequence \in DOMAIN told' /\ told'[e.sequence].names = e.names
    BY <1>10, <2>2
  <2>6. \A i \in DOMAIN q : q[i].sequence \in DOMAIN told' /\ told'[q[i].sequence].names = q[i].names
    BY <1>10, <2>2 DEF TrackerInv, CacheKept
  <2>7. \A i \in DOMAIN Append(q, e) :
          /\ Append(q, e)[i].sequence \in DOMAIN told'
          /\ told'[Append(q, e)[i].sequence].names = Append(q, e)[i].names
    BY <2>1, <2>2, <2>4, <2>5, <2>6, AppendTail
  <2>8. CASE tracker'.cache = Append(q, e)
    <3>1. Append(q, e) \in Seq(T)
      BY <2>1, <2>2, <2>4, AppendTail
    <3> QED
      BY <2>7, <2>8, <3>1 DEF CacheKept
  <2>9. CASE Len(Append(q, e)) > 1 /\ tracker'.cache = Tail(Append(q, e))
    <3>1. /\ Tail(Append(q, e)) \in Seq(T)
          /\ \A i \in DOMAIN Tail(Append(q, e)) : i + 1 \in DOMAIN Append(q, e)
                                                 /\ Tail(Append(q, e))[i] = Append(q, e)[i + 1]
      BY <2>1, <2>2, <2>4, <2>9, AppendTail
    <3> QED
      BY <2>7, <2>9, <3>1 DEF CacheKept
  <2> QED
    BY <2>3, <2>8, <2>9
<1>19. AnswerKept'
  BY <1>9, <1>10 DEF AnswerKept
<1>20. tracker'.last \in Nat
  BY <1>8
<1> QED
  BY <1>13, <1>15, <1>16, <1>17, <1>18, <1>19, <1>20 DEF TrackerInv

LEMMA UpdateIs ==
    ASSUME TrackerInv, NEW s \in Nat, NEW time, NEW scene, SceneSound(scene), Update(s, time, scene)
    PROVE  /\ TrackerInv'
           /\ answer'.status = "updated" =>
                Tracked(s, time, scene, Names(scene, Pairs(scene, time)), Pairs(scene, time), tracker.counter)
<1>1. CASE Skips
  <2>1. TrackerInv'
    BY <1>1 DEF Skips, TrackerInv, TracksSound, ToldSound, KindsKept, TracksKept, CacheKept, AnswerKept
  <2>2. answer'.status # "updated"
    BY <1>1 DEF Skips, NoAnswer
  <2> QED
    BY <2>1, <2>2
<1>2. CASE ~Skips /\ Cached(s) = {}
  <2>1. Tracked(s, time, scene, Names(scene, Pairs(scene, time)), Pairs(scene, time), tracker.counter)
    BY <1>2, TrackIs DEF Update
  <2> QED
    BY <2>1, TrackedSafe
<1>3. CASE ~Skips /\ Cached(s) # {}
  <2>1. PICK i \in DOMAIN tracker.cache :
          /\ tracker.cache[i].sequence = s
          /\ answer' = [sequence |-> s, status |-> "cached", names |-> tracker.cache[i].names]
          /\ UNCHANGED <<tracker, told>>
    <3>1. PICK i : i = CHOOSE j \in Cached(s) : TRUE
      OBVIOUS
    <3>2. i \in Cached(s)
      BY <1>3, <3>1
    <3>3. i \in DOMAIN tracker.cache /\ tracker.cache[i].sequence = s
      BY <3>2 DEF Cached
    <3>4. /\ answer' = [sequence |-> s, status |-> "cached", names |-> tracker.cache[i].names]
          /\ UNCHANGED <<tracker, told>>
      BY <1>3, <3>1 DEF Update
    <3> QED
      BY <3>3, <3>4
  <2>2. s \in DOMAIN told /\ told[s].names = tracker.cache[i].names
    BY <2>1 DEF TrackerInv, CacheKept
  <2>3. AnswerKept'
    BY <2>1, <2>2 DEF AnswerKept
  <2>4. TrackerInv'
    BY <2>1, <2>3 DEF TrackerInv, TracksSound, ToldSound, KindsKept, TracksKept, CacheKept
  <2> QED
    BY <2>1, <2>4
<1> QED
  BY <1>1, <1>2, <1>3

\* What MatchesStable says of an update.
Stable(scene, names, pairs, time) ==
    /\ \A d \in DOMAIN names : names[d] > tracker.counter => \A p \in pairs : p[1] # d
    /\ \A d, e \in DOMAIN names : d # e /\ names[d] # 0 => names[d] # names[e]
    /\ \A d \in DOMAIN names : names[d] # 0 /\ names[d] \notin Active(time) =>
         \A s \in DOMAIN told : \A e \in DOMAIN told[s].names : told[s].names[e] # names[d]
    /\ \A p \in pairs :
         LET d == p[1] IN
         names[d] \in Active(time) /\ PairCost(scene, p) < PairCost(scene, <<d, names[d]>>) =>
           \E e \in DOMAIN names : /\ names[e] = p[2]
                                   /\ PairCost(scene, <<e, p[2]>>) <= PairCost(scene, p)

LEMMA NamesAreStable ==
    ASSUME TracksSound, ToldSound, NEW scene, SceneSound(scene), NEW time,
           NEW pairs, pairs = Pairs(scene, time), NEW names, names = Names(scene, pairs)
    PROVE  Stable(scene, names, pairs, time)
<1>1. PICK assigned, new : assigned = Assigned(scene, pairs) /\ new = Unpaired(scene, pairs)
  OBVIOUS
<1>2. /\ DOMAIN names = DOMAIN scene
      /\ \A d \in DOMAIN scene :
           \/ d \in new /\ names[d] \in Nat /\ tracker.counter < names[d]
           \/ d \notin new /\ names[d] = 0
           \/ d \notin new /\ <<d, names[d]>> \in assigned
      /\ \A p \in assigned : p[1] \in DOMAIN scene /\ names[p[1]] = p[2]
      /\ \A d, e \in DOMAIN scene : d # e /\ names[d] # 0 => names[d] # names[e]
  BY <1>1, NamesGiven
<1>3. /\ pairs \in SUBSET (Nat \X Nat) /\ IsFiniteSet(pairs)
      /\ \A p \in pairs : /\ PairCost(scene, p) \in Int
                          /\ p[1] \in DOMAIN scene /\ p[2] \in 1..tracker.counter
  BY PairsSound
<1>4. /\ tracker.counter \in Nat /\ Active(time) \subseteq 1..tracker.counter
  BY DEF TracksSound, Active
<1>5. /\ assigned \subseteq Certain(scene, pairs) /\ assigned \subseteq pairs /\ Apart(assigned)
      /\ \A p \in Certain(scene, pairs) : \E b \in assigned :
           (b[1] = p[1] \/ b[2] = p[2]) /\ PairCost(scene, b) <= PairCost(scene, p)
  BY <1>1, <1>3, AssignedIsFair DEF Certain
<1>6. ASSUME NEW d \in DOMAIN names, names[d] > tracker.counter, NEW p \in pairs PROVE p[1] # d
  <2>1. d \in new
    <3>1. ASSUME <<d, names[d]>> \in assigned PROVE FALSE
      <4>1. PICK q \in pairs : q = <<d, names[d]>>
        BY <1>5, <3>1
      <4>2. q[2] = names[d] /\ q[2] \in 1..tracker.counter
        BY <1>3, <4>1
      <4> QED
        BY <1>4, <1>6, <4>2
    <3>2. names[d] # 0
      BY <1>4, <1>6
    <3> QED
      BY <1>2, <3>1, <3>2
  <2> QED
    BY <1>1, <2>1 DEF Unpaired
<1>7. ASSUME NEW p \in pairs, NEW d, d = p[1], names[d] \in Active(time),
             PairCost(scene, p) < PairCost(scene, <<d, names[d]>>)
      PROVE  \E e \in DOMAIN names : /\ names[e] = p[2]
                                     /\ PairCost(scene, <<e, p[2]>>) <= PairCost(scene, p)
  <2>1. d \in DOMAIN scene /\ d \notin new /\ names[d] \in 1..tracker.counter
    BY <1>1, <1>3, <1>4, <1>7 DEF Unpaired
  <2>2. <<d, names[d]>> \in assigned
    <3>1. names[d] # 0
      BY <1>4, <2>1
    <3> QED
      BY <1>2, <2>1, <3>1
  <2>3. p \in Certain(scene, pairs)
    <3>1. d \notin Ambiguous(scene, pairs)
      BY <1>5, <2>2 DEF Certain
    <3> QED
      BY <1>7, <3>1 DEF Certain
  <2>4. PICK b \in assigned : (b[1] = p[1] \/ b[2] = p[2]) /\ PairCost(scene, b) <= PairCost(scene, p)
    BY <1>5, <2>3
  <2>5. /\ b[1] \in DOMAIN scene /\ names[b[1]] = b[2] /\ b = <<b[1], b[2]>>
        /\ PairCost(scene, b) \in Int /\ PairCost(scene, p) \in Int
    BY <1>2, <1>3, <1>5, <2>4
  <2>6. b[1] # d
    <3>1. SUFFICES ASSUME b[1] = d PROVE FALSE
      OBVIOUS
    <3>2. b = <<d, names[d]>>
      BY <2>5, <3>1
    <3> QED
      BY <1>7, <2>4, <2>5, <3>2
  <2>7. b[2] = p[2]
    BY <1>7, <2>4, <2>6
  <2> QED
    BY <1>2, <2>4, <2>5, <2>7
<1>8. ASSUME NEW d \in DOMAIN names, names[d] # 0, names[d] \notin Active(time),
             NEW s \in DOMAIN told, NEW e \in DOMAIN told[s].names
      PROVE  told[s].names[e] # names[d]
  <2>1. told[s].names[e] \in Nat /\ told[s].names[e] <= tracker.counter
    BY <1>8 DEF ToldSound
  <2>2. CASE d \in new /\ names[d] \in Nat /\ tracker.counter < names[d]
    BY <1>4, <2>1, <2>2
  <2>3. CASE <<d, names[d]>> \in assigned
    <3>1. <<d, names[d]>> \in pairs
      BY <1>5, <2>3
    <3>2. names[d] \in Active(time)
      BY <1>1, <3>1 DEF Pairs
    <3> QED
      BY <1>8, <3>2
  <2> QED
    BY <1>2, <1>8, <2>2, <2>3
<1> QED
  BY <1>2, <1>6, <1>7, <1>8 DEF Stable

LEMMA UpdateStable ==
    ASSUME TrackerInv, NEW s \in Nat, NEW time, NEW scene, SceneSound(scene), Update(s, time, scene)
    PROVE  StableUpdate
<1> SUFFICES ASSUME answer'.status = "updated"
             PROVE  Stable(tracker'.cache[Len(tracker'.cache)].scene, answer'.names,
                           Pairs(tracker'.cache[Len(tracker'.cache)].scene, tracker'.time), tracker'.time)
  BY DEF StableUpdate, Stable
<1>1. PICK pairs, names : pairs = Pairs(scene, time) /\ names = Names(scene, pairs)
  OBVIOUS
<1>2. Tracked(s, time, scene, names, pairs, tracker.counter)
  BY <1>1, UpdateIs
<1>3. answer'.names = names /\ tracker'.time = time
  BY <1>2 DEF Tracked
<1>4. tracker'.cache[Len(tracker'.cache)].scene = scene
  <2>1. PICK S : tracker.cache \in Seq(S)
    BY DEF TrackerInv, CacheKept
  <2>2. PICK q, e, T : /\ q = tracker.cache /\ T = S \cup {e}
                       /\ e = [sequence |-> s, time |-> time, scene |-> scene, names |-> names]
    OBVIOUS
  <2>3. /\ Len(Append(q, e)) = Len(q) + 1 /\ Append(q, e)[Len(q) + 1] = e
        /\ Len(Append(q, e)) > 1 => Len(Tail(Append(q, e))) = Len(q) /\ Tail(Append(q, e))[Len(q)] = e
    BY <2>1, <2>2, AppendTail
  <2>4. \/ tracker'.cache = Append(q, e)
        \/ Len(Append(q, e)) > MaxFrames /\ tracker'.cache = Tail(Append(q, e))
    BY <1>2, <2>2 DEF Tracked
  <2>5. MaxFrames \in Nat /\ MaxFrames >= 1 /\ Len(q) \in Nat
    BY <2>1, <2>2, VisionAssumption
  <2>6. tracker'.cache[Len(tracker'.cache)] = e
    BY <2>3, <2>4, <2>5
  <2> QED
    BY <2>2, <2>6
<1>5. Stable(scene, names, pairs, time)
  BY <1>1, NamesAreStable DEF TrackerInv
<1> QED
  BY <1>1, <1>3, <1>4, <1>5

-----------------------------------------------------------------------------
\* The buffer.

LEMMA HasGreatest ==
    ASSUME NEW S, IsFiniteSet(S), S # {}, S \subseteq Nat
    PROVE  \E x \in S : \A y \in S : y <= x
<1>1. PICK R : R = {ss \in S \X S : ss[1] > ss[2]}
  OBVIOUS
<1>2. Orders(R, S)
  <2>1. \A p, q \in S : <<p, q>> \in R <=> p > q
    BY <1>1
  <2>2. \A p \in S : p \in Nat
    OBVIOUS
  <2>3. \A p \in S : <<p, p>> \notin R
    BY <2>1, <2>2
  <2>4. ASSUME NEW p \in S, NEW q \in S, NEW r \in S, <<p, q>> \in R, <<q, r>> \in R
        PROVE  <<p, r>> \in R
    <3>1. p > q /\ q > r /\ p \in Nat /\ q \in Nat /\ r \in Nat
      BY <2>1, <2>2, <2>4
    <3>2. p > r
      BY <3>1
    <3> QED
      BY <2>1, <3>2
  <2> QED
    BY <2>3, <2>4 DEF Orders
<1>3. PICK x \in S : \A y \in S : <<y, x>> \notin R
  BY <1>2, FiniteHasLeast
<1>4. ASSUME NEW y \in S PROVE y <= x
  <2>1. ~(y > x)
    BY <1>1, <1>3, <1>4
  <2> QED
    BY <2>1
<1> QED
  BY <1>4

\* The bytes of fewer captures are fewer; those of one that is stored fit.
LEMMA BytesFit ==
    ASSUME NEW S, IsFiniteSet(S), NEW sizes
    PROVE  /\ IsFiniteSet(BytesOf(S, sizes)) /\ Cardinality(BytesOf(S, sizes)) \in Nat
           /\ \A T \in SUBSET S : Cardinality(BytesOf(T, sizes)) <= Cardinality(BytesOf(S, sizes))
           /\ \A s \in S : Cardinality(BytesOf({s}, sizes)) <= MaxBytes
<1>1. PICK places : places = 1..MaxBytes
  OBVIOUS
<1>2. MaxBytes \in Nat /\ IsFiniteSet(places) /\ Cardinality(places) = MaxBytes
  BY <1>1, VisionAssumption, FS_Interval
<1>3. ASSUME NEW T \in SUBSET S
      PROVE  IsFiniteSet(T \X places) /\ Cardinality(T \X places) = Cardinality(T) * MaxBytes
             /\ BytesOf(T, sizes) \in SUBSET (T \X places)
  <2>1. IsFiniteSet(T)
    BY FS_Subset
  <2>2. BytesOf(T, sizes) \in SUBSET (T \X places)
    BY <1>1 DEF BytesOf
  <2> QED
    BY <1>2, <2>1, <2>2, FS_Product
<1>4. IsFiniteSet(BytesOf(S, sizes)) /\ Cardinality(BytesOf(S, sizes)) \in Nat
  BY <1>3, FS_Subset, FS_CardinalityType
<1>5. ASSUME NEW T \in SUBSET S PROVE Cardinality(BytesOf(T, sizes)) <= Cardinality(BytesOf(S, sizes))
  <2>1. BytesOf(T, sizes) \in SUBSET BytesOf(S, sizes)
    BY DEF BytesOf
  <2> QED
    BY <1>4, <2>1, FS_Subset
<1>6. ASSUME NEW s \in S PROVE Cardinality(BytesOf({s}, sizes)) <= MaxBytes
  <2>1. PICK T : T = {s}
    OBVIOUS
  <2>2. T \in SUBSET S /\ Cardinality(T) = 1
    BY <2>1, FS_Singleton
  <2>3. /\ IsFiniteSet(T \X places) /\ Cardinality(T \X places) = Cardinality(T) * MaxBytes
        /\ BytesOf(T, sizes) \in SUBSET (T \X places)
    BY <1>3, <2>2
  <2>4. Cardinality(T \X places) = MaxBytes
    BY <1>2, <2>2, <2>3
  <2> QED
    BY <2>1, <2>3, <2>4, FS_Subset
<1> QED
  BY <1>4, <1>5, <1>6

\* What is left when the first are deleted: within the limits, and as new as any.
LEMMA NewestFits ==
    ASSUME NEW captures, IsFiniteSet(DOMAIN captures), DOMAIN captures \subseteq Nat, NEW sizes,
           NEW top, top = DOMAIN Newest(captures, sizes)
    PROVE  /\ top \subseteq DOMAIN captures
           /\ \A s \in top : Newest(captures, sizes)[s] = captures[s]
           /\ Cardinality(top) <= MaxFrames /\ Cardinality(BytesOf(top, sizes)) <= MaxBytes
           /\ \A r \in DOMAIN captures : \E s \in top : r <= s
<1>1. PICK S : S = DOMAIN captures
  OBVIOUS
<1>2. /\ top = {s \in S : /\ Cardinality(From(s, captures)) <= MaxFrames
                          /\ Cardinality(BytesOf(From(s, captures), sizes)) <= MaxBytes}
      /\ \A s \in top : Newest(captures, sizes)[s] = captures[s]
  BY <1>1 DEF Newest, Keeping
<1>3. MaxFrames \in Nat /\ MaxFrames >= 1 /\ MaxBytes \in Nat
  BY VisionAssumption
<1>4. Cardinality(top) <= MaxFrames /\ Cardinality(BytesOf(top, sizes)) <= MaxBytes
  <2>1. CASE top = {}
    <3>1. BytesOf({}, sizes) = {} /\ Cardinality({}) = 0
      BY FS_EmptySet DEF BytesOf
    <3> QED
      BY <1>3, <2>1, <3>1
  <2>2. CASE top # {}
    <3>1. PICK m \in top : \A k \in top : m <= k
      <4>1. top \subseteq Nat
        BY <1>1, <1>2
      <4> QED
        BY <2>2, <4>1, HasLeast
    <3>2. PICK rest : rest = From(m, captures)
      OBVIOUS
    <3>3. /\ Cardinality(rest) <= MaxFrames /\ Cardinality(BytesOf(rest, sizes)) <= MaxBytes
          /\ rest \in SUBSET S
      BY <1>1, <1>2, <3>1, <3>2 DEF From
    <3>4. top \in SUBSET rest
      BY <1>1, <1>2, <3>1, <3>2 DEF From
    <3>5. IsFiniteSet(rest) /\ Cardinality(top) <= Cardinality(rest)
          /\ Cardinality(top) \in Nat /\ Cardinality(rest) \in Nat
      BY <1>1, <3>3, <3>4, FS_Subset, FS_CardinalityType
    <3>6. /\ Cardinality(BytesOf(top, sizes)) <= Cardinality(BytesOf(rest, sizes))
          /\ Cardinality(BytesOf(rest, sizes)) \in Nat
      BY <3>4, <3>5, BytesFit
    <3>7. Cardinality(BytesOf(top, sizes)) \in Nat
      <4>1. IsFiniteSet(top)
        BY <3>4, <3>5, FS_Subset
      <4> QED
        BY <4>1, BytesFit
    <3> QED
      BY <1>3, <3>3, <3>5, <3>6, <3>7
  <2> QED
    BY <2>1, <2>2
<1>5. ASSUME NEW r \in S PROVE \E s \in top : r <= s
  <2>1. PICK x \in S : \A y \in S : y <= x
    BY <1>1, <1>5, HasGreatest
  <2>2. From(x, captures) = {x}
    <3>1. \A y \in S : y \in Nat /\ x \in Nat /\ (x <= y <=> y = x)
      BY <1>1, <2>1
    <3> QED
      BY <1>1, <2>1, <3>1 DEF From
  <2>3. Cardinality({x}) = 1 /\ Cardinality(BytesOf({x}, sizes)) <= MaxBytes
    BY <1>1, FS_Singleton, BytesFit
  <2>4. x \in top
    BY <1>2, <1>3, <2>2, <2>3
  <2> QED
    BY <1>5, <2>1, <2>4
<1> QED
  BY <1>1, <1>2, <1>4, <1>5

Fresh(time) == visionClock.now - time <= MaxAge

BufferInv ==
    /\ visionClock = [now |-> visionClock.now, cut |-> visionClock.cut] /\ visionClock.now \in Nat
    /\ DOMAIN pushed \subseteq Nat /\ DOMAIN buffer \subseteq DOMAIN pushed
    /\ IsFiniteSet(DOMAIN buffer)
    /\ \A s \in DOMAIN pushed : pushed[s] \in Nat /\ pushed[s] <= visionClock.now
    /\ \A r, s \in DOMAIN pushed : r < s => pushed[r] <= pushed[s]
    /\ \A s \in DOMAIN buffer : buffer[s] = pushed[s]
    /\ \A r \in DOMAIN pushed : Fresh(pushed[r]) => \E s \in DOMAIN buffer : r <= s
    /\ visionClock.cut => /\ Cardinality(DOMAIN buffer) <= MaxFrames
                          /\ Cardinality(BytesOf(DOMAIN buffer, bytes)) <= MaxBytes

LEMMA BufferInitSafe ==
    ASSUME visionClock = [now |-> 1, cut |-> TRUE], buffer = Nothing, pushed = Nothing
    PROVE  BufferInv
<1>1. /\ DOMAIN buffer = {} /\ DOMAIN pushed = {} /\ IsFiniteSet({}) /\ Cardinality({}) = 0
      /\ BytesOf({}, bytes) = {}
  BY FS_EmptySet DEF Nothing, BytesOf
<1>2. MaxFrames \in Nat /\ MaxBytes \in Nat
  BY VisionAssumption
<1>3. Cardinality(DOMAIN buffer) <= MaxFrames /\ Cardinality(BytesOf(DOMAIN buffer, bytes)) <= MaxBytes
  <2>1. PICK none, b : none = {} /\ b = BytesOf(none, bytes)
    OBVIOUS
  <2>2. DOMAIN buffer = none /\ b = none /\ Cardinality(none) = 0
    BY <1>1, <2>1
  <2>3. Cardinality(DOMAIN buffer) = 0 /\ Cardinality(BytesOf(DOMAIN buffer, bytes)) = 0
    BY ONLY <2>1, <2>2, Zenon
  <2> QED
    BY <1>2, <2>3
<1> QED
  BY <1>1, <1>3 DEF BufferInv

\* What is left of captures when the old ones are dropped.
LEMMA AgedIs ==
    ASSUME NEW captures, visionClock.now \in Nat,
           \A s \in DOMAIN captures : captures[s] \in Nat /\ captures[s] <= visionClock.now
    PROVE  /\ DOMAIN Aged(captures) = {s \in DOMAIN captures : Fresh(captures[s])}
           /\ \A s \in DOMAIN Aged(captures) : Aged(captures)[s] = captures[s]
<1>1. PICK now : now = visionClock.now
  OBVIOUS
<1>2. MaxAge \in Nat
  BY VisionAssumption
<1>3. \A s \in DOMAIN captures : (now - captures[s] \in 0..MaxAge) <=> (now - captures[s] <= MaxAge)
  BY <1>1, <1>2
<1> QED
  BY <1>1, <1>3 DEF Aged, Keeping, Fresh

\* What a query sees: of what is fresh, the newest.
LEMMA FreshIsKept ==
    ASSUME BufferInv
    PROVE  /\ DOMAIN Aged(buffer) = {s \in DOMAIN buffer : Fresh(pushed[s])}
           /\ DOMAIN Aged(pushed) = {s \in DOMAIN pushed : Fresh(pushed[s])}
           /\ \A s \in DOMAIN Aged(buffer) : Aged(buffer)[s] = pushed[s]
           /\ \A s \in DOMAIN Aged(pushed) : Aged(pushed)[s] = pushed[s]
           /\ \A r \in DOMAIN pushed : Fresh(pushed[r]) =>
                \E s \in DOMAIN Aged(buffer) : r <= s
<1>1. /\ visionClock.now \in Nat /\ MaxAge \in Nat
      /\ \A s \in DOMAIN pushed : pushed[s] \in Nat /\ pushed[s] <= visionClock.now
      /\ DOMAIN buffer \subseteq DOMAIN pushed /\ \A s \in DOMAIN buffer : buffer[s] = pushed[s]
  BY VisionAssumption DEF BufferInv
<1>2. /\ DOMAIN Aged(buffer) = {s \in DOMAIN buffer : Fresh(buffer[s])}
      /\ \A s \in DOMAIN Aged(buffer) : Aged(buffer)[s] = buffer[s]
  BY <1>1, AgedIs
<1>3. /\ DOMAIN Aged(pushed) = {s \in DOMAIN pushed : Fresh(pushed[s])}
      /\ \A s \in DOMAIN Aged(pushed) : Aged(pushed)[s] = pushed[s]
  BY <1>1, AgedIs
<1>4. ASSUME NEW r \in DOMAIN pushed, Fresh(pushed[r]) PROVE \E s \in DOMAIN Aged(buffer) : r <= s
  <2>1. PICK s \in DOMAIN buffer : r <= s
    BY <1>4 DEF BufferInv
  <2>2. s \in DOMAIN pushed /\ pushed[r] <= pushed[s]
    <3>1. s \in DOMAIN pushed /\ r \in Nat /\ s \in Nat
      BY <2>1 DEF BufferInv
    <3>2. pushed[r] \in Nat /\ pushed[s] \in Nat
      BY <1>1, <3>1
    <3>3. CASE r = s
      BY <3>1, <3>2, <3>3
    <3>4. CASE r < s
      BY <3>1, <3>4 DEF BufferInv
    <3> QED
      BY <2>1, <3>1, <3>3, <3>4
  <2>3. Fresh(pushed[s])
    <3>1. pushed[r] \in Nat /\ pushed[s] \in Nat
      BY <1>1, <2>2
    <3> QED
      BY <1>1, <1>4, <2>2, <3>1 DEF Fresh
  <2> QED
    BY <1>1, <1>2, <2>1, <2>3
<1> QED
  BY <1>1, <1>2, <1>3, <1>4

\* Of captures whose times do not decrease the newest is the nearest to the present.
LEMMA NearestIsLatest ==
    ASSUME NEW captures, NEW now \in Nat, DOMAIN captures \subseteq Nat,
           \A s \in DOMAIN captures : captures[s] \in Nat /\ captures[s] <= now,
           \A r, s \in DOMAIN captures : r < s => captures[r] <= captures[s]
    PROVE  Nearest(captures, now) = Latest(captures)
<1> DEFINE Off(s) == IF captures[s] < now THEN now - captures[s] ELSE captures[s] - now
<1>1. \A s \in DOMAIN captures : s \in Nat /\ captures[s] \in Nat /\ Off(s) = now - captures[s]
  OBVIOUS
<1>2. Nearest(captures, now) =
        {s \in DOMAIN captures : \A r \in DOMAIN captures : Off(s) < Off(r) \/ (Off(s) = Off(r) /\ r <= s)}
  BY DEF Nearest
<1> HIDE DEF Off
<1>3. ASSUME NEW s \in DOMAIN captures, NEW r \in DOMAIN captures, r <= s
      PROVE  Off(s) < Off(r) \/ (Off(s) = Off(r) /\ r <= s)
  <2>1. captures[r] <= captures[s]
    BY <1>1, <1>3
  <2> QED
    BY <1>1, <1>3, <2>1
<1>4. ASSUME NEW s \in DOMAIN captures, NEW r \in DOMAIN captures, ~(r <= s)
      PROVE  ~(Off(s) < Off(r) \/ (Off(s) = Off(r) /\ r <= s))
  <2>1. captures[s] <= captures[r]
    BY <1>1, <1>4
  <2> QED
    BY <1>1, <1>4, <2>1
<1> QED
  BY <1>2, <1>3, <1>4 DEF Latest

LEMMA BufferHolds == BufferInv => LatestIsFreshest
<1> SUFFICES ASSUME BufferInv PROVE LatestIsFreshest
  OBVIOUS
<1>1. PICK now : now = visionClock.now
  OBVIOUS
<1>2. PICK old, new : old = Aged(pushed) /\ new = Aged(buffer)
  OBVIOUS
<1>3. /\ DOMAIN new \subseteq DOMAIN old /\ DOMAIN old \subseteq Nat /\ now \in Nat
      /\ \A s \in DOMAIN old : old[s] \in Nat /\ old[s] <= now
      /\ \A r, s \in DOMAIN old : r < s => old[r] <= old[s]
      /\ \A s \in DOMAIN new : new[s] = old[s]
      /\ \A r \in DOMAIN old : \E s \in DOMAIN new : r <= s
  BY <1>1, <1>2, FreshIsKept DEF BufferInv
<1>4. Latest(new) = Latest(old)
  <2>1. \A s \in DOMAIN old : s \in Nat
    BY <1>3
  <2>2. ASSUME NEW m \in Latest(old) PROVE m \in Latest(new)
    <3>1. m \in DOMAIN old /\ \A r \in DOMAIN old : r <= m
      BY <2>2 DEF Latest
    <3>2. PICK s \in DOMAIN new : m <= s
      BY <1>3, <3>1
    <3>3. s = m
      BY <1>3, <2>1, <3>1, <3>2
    <3> QED
      BY <1>3, <3>1, <3>2, <3>3 DEF Latest
  <2>3. ASSUME NEW m \in Latest(new) PROVE m \in Latest(old)
    <3>1. m \in DOMAIN new /\ m \in DOMAIN old /\ \A r \in DOMAIN new : r <= m
      BY <1>3, <2>3 DEF Latest
    <3>2. ASSUME NEW r \in DOMAIN old PROVE r <= m
      <4>1. PICK s \in DOMAIN new : r <= s
        BY <1>3, <3>2
      <4>2. r \in Nat /\ s \in Nat /\ m \in Nat /\ s <= m
        BY <1>3, <2>1, <3>1, <3>2, <4>1
      <4> QED
        BY <4>1, <4>2
    <3> QED
      BY <3>1, <3>2 DEF Latest
  <2> QED
    BY <2>2, <2>3
<1>5. Nearest(old, now) = Latest(old)
  BY <1>3, NearestIsLatest
<1>6. Nearest(new, now) = Latest(new)
  BY <1>3, NearestIsLatest
<1>7. visionClock.cut => /\ Cardinality(DOMAIN buffer) <= MaxFrames
                         /\ Cardinality(BytesOf(DOMAIN buffer, bytes)) <= MaxBytes
  BY DEF BufferInv
<1> QED
  BY <1>1, <1>2, <1>4, <1>5, <1>6, <1>7 DEF LatestIsFreshest

LEMMA TickSafe == ASSUME BufferInv, Tick PROVE BufferInv'
<1>1. /\ visionClock' = [now |-> visionClock.now + 1, cut |-> visionClock.cut]
      /\ buffer' = buffer /\ pushed' = pushed /\ bytes' = bytes
      /\ visionClock.now \in Nat /\ MaxAge \in Nat
  BY VisionAssumption DEF Tick, bufferVars, BufferInv
<1>2. \A s \in DOMAIN pushed : pushed[s] \in Nat /\ pushed[s] <= visionClock.now + 1
                               /\ (Fresh(pushed[s])' => Fresh(pushed[s]))
  BY <1>1 DEF BufferInv, Fresh
<1> QED
  BY <1>1, <1>2 DEF BufferInv, Fresh

LEMMA LookSafe ==
    ASSUME BufferInv, buffer' = Aged(buffer), UNCHANGED <<visionClock, pushed, bytes>> PROVE BufferInv'
<1>1. /\ DOMAIN buffer' = {s \in DOMAIN buffer : Fresh(pushed[s])}
      /\ \A s \in DOMAIN buffer' : buffer'[s] = pushed[s]
      /\ \A r \in DOMAIN pushed : Fresh(pushed[r]) => \E s \in DOMAIN buffer' : r <= s
  BY FreshIsKept
<1>2. PICK A, B : A = DOMAIN buffer /\ B = DOMAIN buffer'
  OBVIOUS
<1>3. IsFiniteSet(A) /\ B \in SUBSET A
  BY <1>1, <1>2 DEF BufferInv
<1>4. IsFiniteSet(B) /\ Cardinality(B) <= Cardinality(A) /\ Cardinality(A) \in Nat /\ Cardinality(B) \in Nat
  BY <1>3, FS_Subset, FS_CardinalityType
<1>5. visionClock'.cut => Cardinality(B) <= MaxFrames /\ Cardinality(BytesOf(B, bytes')) <= MaxBytes
  <2>1. visionClock.cut => Cardinality(A) <= MaxFrames /\ Cardinality(BytesOf(A, bytes)) <= MaxBytes
    BY <1>2 DEF BufferInv
  <2>2. /\ Cardinality(BytesOf(B, bytes)) <= Cardinality(BytesOf(A, bytes))
        /\ Cardinality(BytesOf(A, bytes)) \in Nat /\ Cardinality(BytesOf(B, bytes)) \in Nat
    BY <1>3, <1>4, BytesFit
  <2>3. bytes' = bytes /\ visionClock' = visionClock /\ MaxFrames \in Nat /\ MaxBytes \in Nat
    BY VisionAssumption
  <2> QED
    BY <1>4, <2>1, <2>2, <2>3
<1>6. \A r \in DOMAIN pushed : Fresh(pushed[r])' <=> Fresh(pushed[r])
  BY DEF Fresh
<1>7. /\ visionClock' = visionClock /\ pushed' = pushed
      /\ DOMAIN buffer' \subseteq DOMAIN pushed
  BY <1>1 DEF BufferInv
<1> QED
  BY <1>1, <1>2, <1>4, <1>5, <1>6, <1>7 DEF BufferInv

LEMMA PushSafe ==
    ASSUME BufferInv, NEW s \in Nat, NEW time \in Nat, NEW size, Push(s, time, size) PROVE BufferInv'
<1>1. PICK now, old : now = visionClock.now /\ old = Aged(buffer)
  OBVIOUS
<1>2. /\ now \in Nat /\ MaxAge \in Nat /\ MaxFrames \in Nat \ {0}
      /\ visionClock = [now |-> now, cut |-> visionClock.cut]
      /\ DOMAIN pushed \subseteq Nat /\ IsFiniteSet(DOMAIN buffer)
      /\ \A r \in DOMAIN pushed : pushed[r] \in Nat /\ pushed[r] <= now
      /\ \A r, q \in DOMAIN pushed : r < q => pushed[r] <= pushed[q]
  BY <1>1, VisionAssumption DEF BufferInv
<1>3. /\ DOMAIN old = {r \in DOMAIN buffer : Fresh(pushed[r])}
      /\ \A r \in DOMAIN old : old[r] = pushed[r] /\ r \in DOMAIN pushed
      /\ \A r \in DOMAIN pushed : Fresh(pushed[r]) => \E q \in DOMAIN old : r <= q
  BY <1>1, FreshIsKept DEF BufferInv
<1>4. /\ time <= now
      /\ \A r \in DOMAIN pushed : (r < s => pushed[r] <= time) /\ (s < r => time <= pushed[r])
  BY <1>1 DEF Push, Sampled
<1>5. PICK with : with = [r \in DOMAIN old \cup {s} |-> IF r = s THEN time ELSE old[r]]
  OBVIOUS
<1>6. CASE s \in DOMAIN old \/ size > MaxBytes
  <2>1. buffer' = Aged(buffer) /\ UNCHANGED <<visionClock, pushed, bytes>>
    BY <1>1, <1>6 DEF Push
  <2> QED
    BY <2>1, LookSafe
<1>7. CASE s \notin DOMAIN old /\ ~(size > MaxBytes)
  <2>1. /\ pushed' = [r \in DOMAIN pushed \cup {s} |-> IF r = s THEN time ELSE pushed[r]]
        /\ \/ buffer' = Newest(Aged(with), bytes') /\ visionClock' = [visionClock EXCEPT !.cut = TRUE]
           \/ buffer' = with /\ visionClock' = [visionClock EXCEPT !.cut = FALSE]
    BY <1>1, <1>5, <1>7 DEF Push
  <2>2. /\ visionClock'.now = now
        /\ visionClock' = [now |-> now, cut |-> visionClock'.cut]
        /\ visionClock'.cut => buffer' = Newest(Aged(with), bytes')
        /\ ~visionClock'.cut => buffer' = with
    BY <1>2, <2>1
  <2>3. /\ DOMAIN pushed' = DOMAIN pushed \cup {s} /\ pushed'[s] = time
        /\ \A r \in DOMAIN pushed \ {s} : pushed'[r] = pushed[r]
    BY <2>1
  <2>4. /\ DOMAIN pushed' \subseteq Nat
        /\ \A r \in DOMAIN pushed' : pushed'[r] \in Nat /\ pushed'[r] <= now
        /\ \A r, q \in DOMAIN pushed' : r < q => pushed'[r] <= pushed'[q]
    <3>1. ASSUME NEW r \in DOMAIN pushed', NEW q \in DOMAIN pushed', r < q
          PROVE  pushed'[r] <= pushed'[q]
      <4>1. CASE r = s
        <5>1. q \in DOMAIN pushed /\ q # s
          BY <2>3, <3>1, <4>1
        <5> QED
          BY <1>4, <2>3, <3>1, <4>1, <5>1
      <4>2. CASE r # s /\ q = s
        BY <1>4, <2>3, <3>1, <4>2
      <4>3. CASE r # s /\ q # s
        BY <1>2, <2>3, <3>1, <4>3
      <4> QED
        BY <4>1, <4>2, <4>3
    <3>2. \A r \in DOMAIN pushed' : r \in Nat /\ pushed'[r] \in Nat /\ pushed'[r] <= now
      BY <1>2, <1>4, <2>3
    <3> QED
      BY <3>1, <3>2
  <2>5. /\ DOMAIN with = DOMAIN old \cup {s}
        /\ \A r \in DOMAIN with : with[r] = pushed'[r] /\ r \in DOMAIN pushed'
    BY <1>3, <1>5, <1>7, <2>3
  <2>6. IsFiniteSet(DOMAIN old) /\ IsFiniteSet(DOMAIN with)
    <3>1. IsFiniteSet(DOMAIN old)
      BY <1>2, <1>3, FS_Subset
    <3> QED
      BY <2>5, <3>1, FS_AddElement
  <2>7. \A r \in DOMAIN pushed' : Fresh(pushed'[r]) => \E q \in DOMAIN with : r <= q /\ Fresh(with[q])
    <3>1. ASSUME NEW r \in DOMAIN pushed', Fresh(pushed'[r])
          PROVE  \E q \in DOMAIN with : r <= q /\ Fresh(with[q])
      <4>1. CASE r = s
        <5>1. s \in DOMAIN with /\ with[s] = pushed'[s] /\ s <= s
          BY <2>5
        <5> QED
          BY <3>1, <4>1, <5>1
      <4>2. CASE r # s
        <5>1. r \in DOMAIN pushed /\ Fresh(pushed[r])
          BY <2>3, <3>1, <4>2
        <5>2. PICK q \in DOMAIN old : r <= q
          BY <1>3, <5>1
        <5>3. q # s /\ q \in DOMAIN pushed /\ Fresh(pushed[q]) /\ q \in DOMAIN with
          BY <1>3, <1>7, <2>5, <5>2
        <5>4. with[q] = pushed[q]
          BY <2>3, <2>5, <5>3
        <5> QED
          BY <5>2, <5>3, <5>4
      <4> QED
        BY <4>1, <4>2
    <3> QED
      BY <3>1
  <2>8. \A r \in DOMAIN pushed' : Fresh(pushed[r])' <=> Fresh(pushed'[r])
    BY <1>1, <2>2 DEF Fresh
  <2>9. CASE ~visionClock'.cut
    <3>1. buffer' = with
      BY <2>2, <2>9
    <3>2. \A r \in DOMAIN pushed' : Fresh(pushed'[r]) => \E q \in DOMAIN with : r <= q
      BY <2>7
    <3> QED
      BY <1>2, <2>2, <2>4, <2>5, <2>6, <2>8, <2>9, <3>1, <3>2 DEF BufferInv
  <2>10. CASE visionClock'.cut
    <3>1. PICK aged, top : aged = Aged(with) /\ top = DOMAIN Newest(aged, bytes')
      OBVIOUS
    <3>2. /\ DOMAIN aged = {r \in DOMAIN with : Fresh(with[r])}
          /\ \A r \in DOMAIN aged : aged[r] = with[r]
      <4>1. \A r \in DOMAIN with : with[r] \in Nat /\ with[r] <= visionClock.now
        BY <1>1, <2>4, <2>5
      <4> QED
        BY <1>1, <1>2, <3>1, <4>1, AgedIs
    <3>3. IsFiniteSet(DOMAIN aged) /\ DOMAIN aged \subseteq Nat
      BY <2>4, <2>5, <2>6, <3>2, FS_Subset
    <3>4. DOMAIN buffer' = top /\ buffer' = Newest(aged, bytes')
      BY <2>2, <2>10, <3>1
    <3>5. /\ top \subseteq DOMAIN aged
          /\ \A r \in top : buffer'[r] = aged[r]
          /\ Cardinality(top) <= MaxFrames /\ Cardinality(BytesOf(top, bytes')) <= MaxBytes
          /\ \A r \in DOMAIN aged : \E q \in top : r <= q
      BY <3>1, <3>3, <3>4, NewestFits
    <3>6. IsFiniteSet(top)
      BY <3>3, <3>5, FS_Subset
    <3>7. ASSUME NEW r \in DOMAIN pushed', Fresh(pushed'[r]) PROVE \E q \in DOMAIN buffer' : r <= q
      <4>1. PICK q \in DOMAIN aged : r <= q
        BY <2>7, <3>2, <3>7
      <4>2. PICK p \in top : q <= p
        BY <3>5, <4>1
      <4>3. r \in Nat /\ q \in Nat /\ p \in Nat
        BY <2>4, <3>3, <3>5, <4>1, <4>2
      <4> QED
        BY <3>4, <4>1, <4>2, <4>3
    <3>8. /\ DOMAIN buffer' \subseteq DOMAIN pushed'
          /\ \A r \in DOMAIN buffer' : buffer'[r] = pushed'[r]
      BY <2>5, <3>2, <3>4, <3>5
    <3> QED
      BY <1>2, <2>2, <2>4, <2>8, <3>4, <3>5, <3>6, <3>7, <3>8 DEF BufferInv
  <2> QED
    BY <2>9, <2>10
<1> QED
  BY <1>6, <1>7

-----------------------------------------------------------------------------
\* Buffer and tracker together.

ToldWithin == DOMAIN told \subseteq 1..MaxSequence

VisionInv == BufferInv /\ TrackerInv /\ ToldWithin

LEMMA VisionInitSafe == VisionInit => VisionInv
<1> SUFFICES ASSUME VisionInit PROVE VisionInv
  OBVIOUS
<1>1. BufferInv
  BY BufferInitSafe DEF VisionInit
<1>2. TrackerInv
  BY TrackerInitSafe DEF VisionInit
<1>3. ToldWithin
  BY DEF VisionInit, Nothing, ToldWithin
<1> QED
  BY <1>1, <1>2, <1>3 DEF VisionInv

\* An update adds to what was told of at most its own capture.
LEMMA ToldGrows ==
    ASSUME NEW s, NEW time, NEW scene, Update(s, time, scene)
    PROVE  DOMAIN told' \subseteq DOMAIN told \cup {s}
<1>1. CASE Skips
  BY <1>1 DEF Skips
<1>2. CASE ~Skips /\ Cached(s) = {}
  <2>1. Tracked(s, time, scene, Names(scene, Pairs(scene, time)), Pairs(scene, time), tracker.counter)
    BY <1>2, TrackIs DEF Update
  <2>2. DOMAIN told' = DOMAIN told \cup {s}
    BY <2>1 DEF Tracked
  <2> QED
    BY <2>2
<1>3. CASE ~Skips /\ Cached(s) # {}
  BY <1>3 DEF Update
<1> QED
  BY <1>1, <1>2, <1>3

LEMMA UpdateSafe ==
    ASSUME VisionInv, NEW s \in 1..MaxSequence, NEW time, NEW scene, SceneSound(scene),
           Update(s, time, scene)
    PROVE  VisionInv' /\ StableUpdate
<1>1. s \in Nat
  BY VisionAssumption
<1>2. TrackerInv' /\ StableUpdate
  BY <1>1, UpdateIs, UpdateStable DEF VisionInv
<1>3. BufferInv'
  <2>1. UNCHANGED <<visionClock, buffer, pushed, bytes>>
    BY DEF Update, bufferVars
  <2> QED
    BY <2>1 DEF VisionInv, BufferInv, Fresh
<1>4. ToldWithin'
  BY ToldGrows DEF VisionInv, ToldWithin
<1> QED
  BY <1>2, <1>3, <1>4 DEF VisionInv

LEMMA BufferNextSafe ==
    ASSUME VisionInv, BufferNext PROVE VisionInv' /\ answer' = answer
<1>1. UNCHANGED trackerVars
  BY DEF BufferNext, Tick, Look, Push
<1>2. BufferInv'
  <2>1. CASE Tick
    BY <2>1, TickSafe DEF VisionInv
  <2>2. CASE Look
    BY <2>2, LookSafe DEF VisionInv, Look
  <2>3. CASE \E s \in 1..MaxSequence, time \in 1..MaxNow, size \in CaptureSizes : Push(s, time, size)
    <3>1. PICK s \in 1..MaxSequence, time \in 1..MaxNow, size \in CaptureSizes : Push(s, time, size)
      BY <2>3
    <3>2. s \in Nat /\ time \in Nat
      BY VisionAssumption
    <3> QED
      BY <3>1, <3>2, PushSafe DEF VisionInv
  <2> QED
    BY <2>1, <2>2, <2>3 DEF BufferNext
<1>3. TrackerInv' /\ ToldWithin'
  BY <1>1, TrackerStays DEF VisionInv, ToldWithin, trackerVars
<1> QED
  BY <1>1, <1>2, <1>3 DEF VisionInv, trackerVars

LEMMA TrackerNextSafe ==
    ASSUME VisionInv, TrackerNext PROVE VisionInv' /\ StableUpdate
<1>1. PICK s \in 1..MaxSequence :
        UpdateLate(s) \/ \E time \in 1..MaxNow, scene \in Scenes : Update(s, time, scene)
  BY DEF TrackerNext
<1>2. CASE UpdateLate(s)
  <2>1. answer' = NoAnswer /\ UNCHANGED <<tracker, told, visionClock, buffer, pushed, bytes>>
    BY <1>2 DEF UpdateLate, Skips, bufferVars
  <2>2. BufferInv' /\ ToldWithin'
    BY <2>1 DEF VisionInv, BufferInv, Fresh, ToldWithin
  <2>3. TrackerInv'
    BY <2>1 DEF VisionInv, TrackerInv, TracksSound, ToldSound, KindsKept, TracksKept, CacheKept, AnswerKept
  <2>4. answer'.status # "updated"
    BY <2>1 DEF NoAnswer
  <2> QED
    BY <2>2, <2>3, <2>4 DEF VisionInv, StableUpdate
<1>3. CASE \E time \in 1..MaxNow, scene \in Scenes : Update(s, time, scene)
  <2>1. PICK time \in 1..MaxNow, scene \in Scenes : Update(s, time, scene)
    BY <1>3
  <2>2. SceneSound(scene)
    BY VisionAssumption DEF SceneSound
  <2> QED
    BY <2>1, <2>2, UpdateSafe
<1> QED
  BY <1>1, <1>2, <1>3

LEMMA VisionNextSafe ==
    ASSUME VisionInv, [VisionNext]_visionVars PROVE VisionInv' /\ [StableUpdate]_visionVars
<1>1. CASE UNCHANGED visionVars
  <2>1. UNCHANGED trackerVars /\ UNCHANGED <<visionClock, buffer, pushed, bytes>>
    BY <1>1 DEF visionVars, bufferVars
  <2>2. BufferInv' /\ ToldWithin'
    BY <2>1 DEF VisionInv, BufferInv, Fresh, ToldWithin, trackerVars
  <2>3. TrackerInv'
    BY <2>1, TrackerStays DEF VisionInv
  <2> QED
    BY <1>1, <2>2, <2>3 DEF VisionInv
<1>2. CASE ActivateEpoch
  <2>1. /\ visionClock' = [now |-> 1, cut |-> TRUE] /\ buffer' = Nothing /\ pushed' = Nothing
        /\ bytes' = Nothing /\ tracker' = NewTracker /\ answer' = NoAnswer /\ told' = Nothing
    BY <1>2 DEF ActivateEpoch
  <2>2. VisionInit'
    BY <2>1 DEF VisionInit
  <2>3. VisionInit' => VisionInv'
    BY VisionInitSafe, PTL
  <2>4. answer'.status # "updated"
    BY <2>1 DEF NoAnswer
  <2> QED
    BY <2>2, <2>3, <2>4 DEF StableUpdate
<1>3. CASE BufferNext
  <2>1. VisionInv' /\ answer' = answer
    BY <1>3, BufferNextSafe
  <2> QED
    BY <2>1 DEF StableUpdate
<1>4. CASE TrackerNext
  BY <1>4, TrackerNextSafe
<1> QED
  BY <1>1, <1>2, <1>3, <1>4 DEF VisionNext

\* buffer.py and tracking.py: the newest capture that was accepted is found in whatever order
\* captures were pushed and however large they are, within the limits of the buffer; and a
\* capture is told one set of names, each of one kind of object.
THEOREM VisionIsSound == VisionSpec => [](LatestIsFreshest /\ TrackedOnce)
<1>1. VisionInv => LatestIsFreshest /\ TrackedOnce
  BY BufferHolds DEF VisionInv, TrackerInv, KindsKept, AnswerKept, TrackedOnce
<1>2. VisionInv /\ [VisionNext]_visionVars => VisionInv'
  BY VisionNextSafe
<1> QED
  BY <1>1, <1>2, VisionInitSafe, PTL DEF VisionSpec

\* tracking.py:312-384: no update gives a name twice, or one of a track that is gone, or a
\* new one where a live track fits, or leaves an object and a track that would rather be
\* each other's.
THEOREM VisionMatches == VisionSpec => MatchesStable
<1>1. VisionInv /\ [VisionNext]_visionVars => VisionInv' /\ [StableUpdate]_visionVars
  BY VisionNextSafe
<1> QED
  BY <1>1, VisionInitSafe, PTL DEF VisionSpec, MatchesStable

-----------------------------------------------------------------------------
\* Perception among the parts.

\* What a part that is not alone may do to what is seen and to what is known of the World.
LEMMA PerceptionAlone ==
    ASSUME [Next]_vars
    PROVE  /\ part' = part
           /\ part = "world" => [WorldNext]_worldVars
           /\ part = "publication" => Perceive \/ UNCHANGED perceptionVars
           /\ part # "publication" => [VisionNext]_visionVars
<1>1. CASE UNCHANGED vars
  BY <1>1 DEF vars, perceptionVars
<1>2. CASE Next
  <2>1. Alone
    BY <1>2 DEF Next
  <2> DEFINE p == part
  <2>2. part' = part
    BY <2>1 DEF Alone
  <2>3. p = "world" => WorldNext
    BY <1>2 DEF Next
  <2>4. p = "publication" => Perceive
    BY <1>2 DEF Next
  <2>5. p \notin {"buffer", "tracker", "publication"} => UNCHANGED visionVars
    BY <2>1 DEF Alone
  <2>6. p \in {"buffer", "tracker"} => VisionNext
    BY <1>2 DEF Next, VisionNext
  <2> HIDE DEF p
  <2>7. p = "world" => [WorldNext]_worldVars
    BY <2>3
  <2>8. p # "publication" => [VisionNext]_visionVars
    BY <2>5, <2>6
  <2> QED
    BY <2>2, <2>4, <2>7, <2>8 DEF p
<1> QED
  BY <1>1, <1>2

LEMMA PublishedFramesSound ==
    \A f \in PublishedFrames : \E s, time \in Nat : \E scene : f = <<s, time, scene>> /\ SceneSound(scene)
<1>1. PICK one, two, other : one = OtherThing /\ two = TwoThings /\ other = Respelled
  OBVIOUS
<1>2. /\ DOMAIN one = 1..1 /\ one[1].place = 0
      /\ DOMAIN two = 1..2 /\ two[1].place = 0 /\ two[2].place = 3
      /\ DOMAIN other = 1..2 /\ other[1].place = 3 /\ other[2].place = 2
  BY <1>1 DEF Thing, Labelled, OtherThing, TwoThings, Respelled
<1>3. IsFiniteSet(1..1) /\ IsFiniteSet(1..2)
  <2>1. PICK a, b : a = 1 /\ b = 2
    OBVIOUS
  <2>2. a \in Int /\ b \in Int
    BY <2>1
  <2>3. IsFiniteSet(a..a) /\ IsFiniteSet(a..b)
    BY <2>2, FS_Interval
  <2> QED
    BY <2>1, <2>3
<1>4. SceneSound(one) /\ SceneSound(two) /\ SceneSound(other)
  BY <1>2, <1>3 DEF SceneSound
<1>5. \A scene \in {TwoThings, OtherThing, Respelled} : SceneSound(scene)
  BY <1>1, <1>4
<1>6. ASSUME NEW f \in PublishedFrames
      PROVE  \E s, time \in Nat, scene \in {TwoThings, OtherThing, Respelled} : f = <<s, time, scene>>
  BY DEF PublishedFrames
<1> QED
  BY <1>5, <1>6

\* What may be seen before it is published.
LEMMA PerceivedIs ==
    ASSUME NEW f \in PublishedFrames, f[1] <= MaxSequence, Update(f[1], f[2], f[3])
    PROVE  \E s \in 1..MaxSequence, time \in Nat : \E scene : SceneSound(scene) /\ Update(s, time, scene)
<1>1. PICK s \in Nat, time \in Nat : \E scene : f = <<s, time, scene>> /\ SceneSound(scene)
  BY PublishedFramesSound
<1>2. PICK scene : f = <<s, time, scene>> /\ SceneSound(scene)
  BY <1>1
<1>3. f[1] \in {1, 2}
  BY DEF PublishedFrames
<1>4. s \in 1..MaxSequence
  BY <1>2, <1>3, VisionAssumption
<1>5. Update(s, time, scene)
  BY <1>2
<1> QED
  BY <1>2, <1>4, <1>5

LEMMA VisionStepSafe ==
    ASSUME VisionInv, [Next]_vars PROVE VisionInv' /\ [StableUpdate]_visionVars
<1>1. CASE [VisionNext]_visionVars
  BY <1>1, VisionNextSafe
<1>2. CASE \E s \in 1..MaxSequence, time \in Nat : \E scene : SceneSound(scene) /\ Update(s, time, scene)
  BY <1>2, UpdateSafe
<1>3. CASE Perceive
  <2>1. CASE VisionWorldNext
    <3>1. UNCHANGED visionVars
      BY <2>1, Zenon DEF VisionWorldNext, PublishEvidence, PublishClaims, PublishInterrupted, PublishAgain, Prepare
    <3> QED
      BY <1>1, <3>1, Zenon
  <2>2. CASE \E f \in PublishedFrames : f[1] <= MaxSequence /\ Update(f[1], f[2], f[3])
    BY <1>2, <2>2, PerceivedIs
  <2> QED
    BY <1>3, <2>1, <2>2 DEF Perceive
<1> QED
  BY <1>1, <1>3, PerceptionAlone DEF perceptionVars

\* buffer.py, tracking.py and world.py of the vision package: VisionIsSound, whichever part
\* of the system acts, the captures that are published included.
THEOREM SeenIsSound == Spec => []VisionSound
<1>1. VisionInv => VisionSound
  BY BufferHolds DEF VisionInv, TrackerInv, KindsKept, AnswerKept, TrackedOnce, VisionSound
<1>2. Init => VisionInv
  BY VisionInitSafe DEF Init
<1>3. VisionInv /\ [Next]_vars => VisionInv'
  BY VisionStepSafe
<1> QED
  BY <1>1, <1>2, <1>3, PTL DEF Spec

\* tracking.py:312-384: VisionMatches, whichever part of the system acts.
THEOREM SeenIsMatched == Spec => MatchesStable
<1>1. VisionInv /\ [Next]_vars => VisionInv' /\ [StableUpdate]_visionVars
  BY VisionStepSafe
<1>2. Init => VisionInv
  BY VisionInitSafe DEF Init
<1> QED
  BY <1>1, <1>2, PTL DEF Spec, MatchesStable

-----------------------------------------------------------------------------
\* What is published.

\* An object of this name was told to be of this kind.
NameTold(n, v) ==
    \E s \in DOMAIN told : \E d \in DOMAIN told[s].names :
      told[s].names[d] = n /\ n # 0 /\ told[s].scene[d].kind = v

ToldNamed == \A s \in DOMAIN told : DOMAIN told[s].names = DOMAIN told[s].scene /\ told[s].time \in Nat

\* A claim says of an entity what was published of it.
OfPublished(c) ==
    c.at \in Nat /\ c.source = "semantic" /\
    \E n \in DOMAIN EntityCategory, x \in published :
      /\ c.predicate = EntityCategory[n] /\ x.name = n /\ x.value = c.value /\ x.at = c.at

PublicationIs ==
    publication = [observation |-> publication.observation, claims |-> publication.claims,
                   pc |-> publication.pc, status |-> publication.status,
                   observed |-> publication.observed]

\* The status is of the last attempt, and the World has not changed since.
StatusKept ==
    /\ publication.pc # "idle" => publication.observation # NoObservation
    /\ publication.pc = "claims" => publication.observation \in DOMAIN seen
    /\ publication.pc # "ended" => publication.status = "none"
    /\ publication.status = "complete" => publication.claims \subseteq claims
    /\ publication.status = "evidenceOnly" =>
         publication.observation \in DOMAIN seen /\ ~(publication.claims \subseteq claims)
    /\ publication.status = "notCommitted" => publication.observation \notin DOMAIN seen

EvidenceOnly == NoObservation \notin DOMAIN seen /\ \A o \in DOMAIN seen : seen[o] = {}

PublicationInv ==
    /\ Held /\ EvidenceOnly
    /\ PublicationIs /\ StatusKept
    /\ IsFiniteSet(publication.claims)
    /\ \A c \in claims \cup publication.claims : OfPublished(c)
    /\ \A x \in published : NameTold(x.name, x.kind)
    /\ ToldNamed

LEMMA PublicationInitSafe == VisionInit /\ WorldInit /\ VisionWorldInit => PublicationInv
<1> SUFFICES ASSUME VisionInit, WorldInit, VisionWorldInit PROVE PublicationInv
  OBVIOUS
<1>1. Held /\ claims = {} /\ DOMAIN seen = {}
  BY HeldAtFirst
<1>2. publication = Idle /\ published = {} /\ DOMAIN told = {}
  BY DEF VisionWorldInit, VisionInit, Nothing
<1>3. /\ publication.claims = {} /\ publication.pc = "idle" /\ publication.status = "none"
      /\ PublicationIs
  BY <1>2 DEF Idle, PublicationIs
<1>4. IsFiniteSet(publication.claims)
  BY <1>3, FS_EmptySet
<1> QED
  BY <1>1, <1>2, <1>3, <1>4 DEF PublicationInv, EvidenceOnly, StatusKept, ToldNamed

\* What was told stays, and what is told names its scene.
LEMMA ToldStays ==
    ASSUME NEW s, NEW time \in Nat, NEW scene, ToldNamed, Update(s, time, scene)
    PROVE  ToldNamed' /\ \A n, v : NameTold(n, v) => NameTold(n, v)'
<1>1. CASE Skips
  BY <1>1 DEF Skips, ToldNamed, NameTold
<1>2. CASE ~Skips /\ Cached(s) = {}
  <2>1. PICK names : names = Names(scene, Pairs(scene, time))
    OBVIOUS
  <2>2. DOMAIN names = DOMAIN scene
    BY <2>1 DEF Names
  <2>3. told' = [r \in DOMAIN told \cup {s} |-> IF r \in DOMAIN told THEN told[r]
                                               ELSE [names |-> names, scene |-> scene, time |-> time]]
    <3>1. Tracked(s, time, scene, Names(scene, Pairs(scene, time)), Pairs(scene, time), tracker.counter)
      BY <1>2, TrackIs DEF Update
    <3> QED
      BY <2>1, <3>1 DEF Tracked
  <2>4. DOMAIN told \subseteq DOMAIN told' /\ \A r \in DOMAIN told : told'[r] = told[r]
    BY <2>3
  <2>5. ASSUME NEW r \in DOMAIN told' PROVE DOMAIN told'[r].names = DOMAIN told'[r].scene /\ told'[r].time \in Nat
    <3>1. CASE r \in DOMAIN told
      BY <2>4, <3>1 DEF ToldNamed
    <3>2. CASE r \notin DOMAIN told
      <4>1. told'[r] = [names |-> names, scene |-> scene, time |-> time]
        BY <2>3, <3>2
      <4> QED
        BY <2>2, <4>1
    <3> QED
      BY <3>1, <3>2
  <2> QED
    BY <2>4, <2>5 DEF ToldNamed, NameTold
<1>3. CASE ~Skips /\ Cached(s) # {}
  BY <1>3 DEF Update, ToldNamed, NameTold
<1> QED
  BY <1>1, <1>2, <1>3

\* The names of an analysis name what was told.
LEMMA NamesAreTold ==
    ASSUME ToldNamed, NEW s \in DOMAIN told, NEW scene, NEW d \in DOMAIN scene,
           EntityNames(s, scene)[d] # 0
    PROVE  NameTold(EntityNames(s, scene)[d], scene[d].kind)
<1>1. told[s].scene = scene
  BY DEF EntityNames
<1>2. EntityNames(s, scene) = told[s].names /\ d \in DOMAIN told[s].names
  BY <1>1 DEF EntityNames, ToldNamed
<1> QED
  BY <1>1, <1>2 DEF NameTold

LEMMA PrepareSafe ==
    ASSUME PublicationInv, NEW s \in 1..MaxSequence, s \in DOMAIN told, NEW scene \in Scenes, NEW analysis, NEW asserted,
           Prepare(s, scene, analysis, asserted)
    PROVE  PublicationInv'
<1>1. PICK names, named : /\ names = EntityNames(s, scene)
                          /\ named = {d \in DOMAIN scene : names[d] # 0}
  OBVIOUS
<1>2. PICK cs : cs = {CategoryClaim(s, analysis, asserted, names[d], scene[d]) : d \in named}
  OBVIOUS
<1>3. /\ \A d \in named : names[d] \in DOMAIN EntityCategory
      /\ publication' = [Idle EXCEPT !.observation = ObservationOf(s), !.claims = cs, !.pc = "evidence"]
      /\ published' = published \cup {Said(s, names[d], scene[d]) : d \in named}
      /\ UNCHANGED <<told, seen, claims, payload>>
  BY <1>1, <1>2 DEF Prepare, visionVars, trackerVars, worldVars
<1>4. publication' = [observation |-> ObservationOf(s), claims |-> cs, pc |-> "evidence",
                      status |-> "none", observed |-> FALSE]
  BY <1>3 DEF Idle
<1>5. Held' /\ EvidenceOnly' /\ ToldNamed'
  BY <1>3 DEF PublicationInv, Held, HeldWithinLimits, EvidenceOnly, ToldNamed
<1>6. IsFiniteSet(cs)
  <2>1. IsFiniteSet(DOMAIN scene)
    BY VisionAssumption
  <2>2. IsFiniteSet(named)
    BY <1>1, <2>1, FS_Subset
  <2>3. PICK f : f = [d \in named |-> CategoryClaim(s, analysis, asserted, names[d], scene[d])]
    OBVIOUS
  <2>4. f \in Surjection(named, cs)
    BY <1>2, <2>3 DEF Surjection
  <2> QED
    BY <2>2, <2>4, FS_Surjection
<1>7. \A c \in claims' \cup publication'.claims : OfPublished(c)'
  <2>1. published \subseteq published' /\ publication'.claims = cs
    BY <1>3, <1>4
  <2>2. ASSUME NEW c \in claims PROVE OfPublished(c)'
    BY <2>1, <2>2 DEF PublicationInv, OfPublished
  <2>3. ASSUME NEW c \in cs PROVE OfPublished(c)'
    <3>1. PICK d \in named : c = CategoryClaim(s, analysis, asserted, names[d], scene[d])
      BY <1>2, <2>3
    <3>2. /\ c.predicate = EntityCategory[names[d]] /\ c.value = scene[d].label
          /\ c.at = told[s].time /\ c.source = "semantic"
      BY <3>1 DEF CategoryClaim
    <3>3. PICK x \in published' : x = Said(s, names[d], scene[d])
      BY <1>3
    <3>4. x.name = names[d] /\ x.value = scene[d].label /\ x.at = told[s].time
      BY <3>3 DEF Said
    <3>5. told[s].time \in Nat
      BY DEF PublicationInv, ToldNamed
    <3> QED
      BY <1>3, <3>2, <3>4, <3>5 DEF OfPublished
  <2> QED
    BY <1>3, <2>1, <2>2, <2>3
<1>8. \A x \in published' : NameTold(x.name, x.kind)'
  <2>1. ASSUME NEW n, NEW v, NameTold(n, v) PROVE NameTold(n, v)'
    BY <1>3, <2>1 DEF NameTold
  <2>2. ASSUME NEW x \in published PROVE NameTold(x.name, x.kind)
    BY DEF PublicationInv
  <2>3. ASSUME NEW d \in named PROVE NameTold(names[d], scene[d].kind)
    BY <1>1, NamesAreTold DEF PublicationInv
  <2>4. ASSUME NEW x \in published' PROVE NameTold(x.name, x.kind)
    <3>1. CASE x \in published
      BY <2>2, <3>1
    <3>2. CASE x \notin published
      <4>1. PICK d \in named : x = Said(s, names[d], scene[d])
        BY <1>3, <2>4, <3>2
      <4>2. NameTold(names[d], scene[d].kind) /\ x.name = names[d] /\ x.kind = scene[d].kind
        BY <2>3, <4>1 DEF Said
      <4> QED
        BY <4>2
    <3> QED
      BY <3>1, <3>2
  <2>5. ASSUME NEW x \in published' PROVE NameTold(x.name, x.kind)'
    <3>1. PICK n, v : n = x.name /\ v = x.kind
      OBVIOUS
    <3>2. NameTold(n, v)
      BY <2>4, <2>5, <3>1
    <3> QED
      BY <2>1, <3>1, <3>2
  <2> QED
    BY <2>5
<1>9. PublicationIs' /\ IsFiniteSet(publication'.claims)
  BY <1>4, <1>6 DEF PublicationIs
<1>10. ObservationOf(s) # NoObservation
  BY DigestAssumption DEF PublicationInv
<1>11. StatusKept'
  BY <1>4, <1>10 DEF StatusKept
<1> QED
  BY <1>5, <1>7, <1>8, <1>9, <1>11 DEF PublicationInv

\* NameTold, and published, stay as they are when a publication is committed.
LEMMA RestStays ==
    ASSUME PublicationInv, UNCHANGED <<visionVars, published>>
    PROVE  ToldNamed' /\ (\A x \in published' : NameTold(x.name, x.kind)') /\ \A c : OfPublished(c) => OfPublished(c)'
<1>1. told' = told /\ published' = published
  BY DEF visionVars, trackerVars
<1> QED
  BY <1>1 DEF PublicationInv, ToldNamed, NameTold, OfPublished

LEMMA EndedIs ==
    ASSUME PublicationIs, NEW status, Ended(status)
    PROVE  /\ PublicationIs'
           /\ publication'.observation = publication.observation
           /\ publication'.claims = publication.claims
           /\ publication'.pc = "ended" /\ publication'.status = status
BY DEF PublicationIs, Ended

LEMMA EvidenceSafe ==
    ASSUME PublicationInv, PublishEvidence PROVE PublicationInv'
<1>1. PICK o : o = publication.observation
  OBVIOUS
<1>2. /\ o # NoObservation /\ Held /\ EvidenceOnly /\ PublicationIs /\ IsFiniteSet({})
      /\ publication.pc = "evidence" /\ publication.status = "none" /\ Refs({}) = {}
      /\ IsFiniteSet(publication.claims)
      /\ \A c \in claims \cup publication.claims : OfPublished(c)
  BY <1>1, FS_EmptySet DEF PublishEvidence, PublicationInv, StatusKept, Refs
<1>3. /\ ToldNamed' /\ \A x \in published' : NameTold(x.name, x.kind)'
      /\ \A c : OfPublished(c) => OfPublished(c)'
  BY RestStays DEF PublishEvidence
<1>4. CASE Commit(o, {}) /\ publication' = [publication EXCEPT !.pc = "claims", !.observed = TRUE]
  <2>1. /\ Held' /\ claims' = claims \cup {} /\ DOMAIN seen' = Observed(o)
        /\ \A x \in DOMAIN seen : seen'[x] = seen[x]
        /\ seen'[o] = Refs({})
    BY <1>2, <1>4, CommitKeepsHeld
  <2>2. EvidenceOnly'
    BY <1>2, <2>1 DEF EvidenceOnly, Observed
  <2>3. /\ publication'.observation = o /\ publication'.claims = publication.claims
        /\ publication'.pc = "claims" /\ publication'.status = "none" /\ PublicationIs'
    BY <1>1, <1>2, <1>4 DEF PublicationIs
  <2>4. StatusKept'
    BY <1>2, <2>1, <2>3 DEF StatusKept, Observed
  <2>5. IsFiniteSet(publication'.claims) /\ \A c \in claims' \cup publication'.claims : OfPublished(c)'
    BY <1>2, <1>3, <2>1, <2>3
  <2> QED
    BY <1>3, <2>1, <2>2, <2>3, <2>4, <2>5 DEF PublicationInv
<1>5. CASE Refused(o, {}) /\ Ended("notCommitted")
  <2>1. UNCHANGED <<seen, claims, payload>> /\ Verdict(o, {}) = Rejected
    BY <1>5 DEF Refused, worldVars
  <2>2. Held' /\ EvidenceOnly'
    BY <1>2, <2>1 DEF Held, HeldWithinLimits, EvidenceOnly
  <2>3. /\ publication'.observation = o /\ publication'.claims = publication.claims
        /\ publication'.pc = "ended" /\ publication'.status = "notCommitted" /\ PublicationIs'
    BY <1>1, <1>2, <1>5, EndedIs
  <2>4. o \notin DOMAIN seen
    <3>1. SUFFICES ASSUME o \in DOMAIN seen PROVE FALSE
      OBVIOUS
    <3>2. seen[o] = Refs({}) /\ NoObservation \notin DOMAIN seen
      BY <1>2, <3>1 DEF EvidenceOnly
    <3>3. Verdict(o, {}) = "unchanged"
      BY <1>2, <3>1, <3>2, HeldIsUnchanged
    <3> QED
      BY <2>1, <3>3 DEF Rejected
  <2>5. StatusKept'
    BY <1>2, <2>1, <2>3, <2>4 DEF StatusKept
  <2>6. IsFiniteSet(publication'.claims) /\ \A c \in claims' \cup publication'.claims : OfPublished(c)'
    BY <1>2, <1>3, <2>1, <2>3
  <2> QED
    BY <1>3, <2>2, <2>3, <2>5, <2>6 DEF PublicationInv
<1> QED
  BY <1>1, <1>4, <1>5 DEF PublishEvidence

LEMMA ClaimsSafe ==
    ASSUME PublicationInv, PublishClaims PROVE PublicationInv'
<1>1. PICK batch : batch = publication.claims
  OBVIOUS
<1>2. /\ Held /\ EvidenceOnly /\ PublicationIs /\ IsFiniteSet(batch)
      /\ publication.observation \in DOMAIN seen /\ publication.observation # NoObservation
      /\ \A c \in claims \cup batch : OfPublished(c)
  BY <1>1 DEF PublishClaims, PublicationInv, StatusKept
<1>3. /\ ToldNamed' /\ \A x \in published' : NameTold(x.name, x.kind)'
      /\ \A c : OfPublished(c) => OfPublished(c)'
  BY RestStays DEF PublishClaims
<1>4. ASSUME NEW status, Ended(status)
      PROVE  /\ PublicationIs'
             /\ publication'.observation = publication.observation /\ publication'.claims = batch
             /\ publication'.pc = "ended" /\ publication'.status = status
  BY <1>1, <1>2, <1>4, EndedIs
<1>5. CASE Commit(NoObservation, batch) /\ Ended("complete")
  <2>1. /\ Held' /\ claims' = claims \cup batch /\ DOMAIN seen' = Observed(NoObservation)
        /\ \A x \in DOMAIN seen : seen'[x] = seen[x]
    BY <1>2, <1>5, CommitKeepsHeld
  <2>2. DOMAIN seen' = DOMAIN seen /\ EvidenceOnly'
    BY <1>2, <2>1 DEF EvidenceOnly, Observed
  <2>3. /\ publication'.observation = publication.observation /\ publication'.claims = batch
        /\ publication'.pc = "ended" /\ publication'.status = "complete" /\ PublicationIs'
    BY <1>4, <1>5
  <2>4. StatusKept'
    BY <1>2, <2>1, <2>3 DEF StatusKept
  <2>5. IsFiniteSet(publication'.claims) /\ \A c \in claims' \cup publication'.claims : OfPublished(c)'
    BY <1>2, <1>3, <2>1, <2>3
  <2> QED
    BY <1>3, <2>1, <2>2, <2>3, <2>4, <2>5 DEF PublicationInv
<1>6. CASE Refused(NoObservation, batch) /\ Ended("evidenceOnly")
  <2>1. UNCHANGED <<seen, claims, payload>> /\ Verdict(NoObservation, batch) = Rejected
    BY <1>6 DEF Refused, worldVars
  <2>2. Held' /\ EvidenceOnly'
    BY <1>2, <2>1 DEF Held, HeldWithinLimits, EvidenceOnly
  <2>3. /\ publication'.observation = publication.observation /\ publication'.claims = batch
        /\ publication'.pc = "ended" /\ publication'.status = "evidenceOnly" /\ PublicationIs'
    BY <1>4, <1>6
  <2>4. ~(batch \subseteq claims)
    <3>1. SUFFICES ASSUME batch \subseteq claims PROVE FALSE
      OBVIOUS
    <3>2. Verdict(NoObservation, batch) = "unchanged"
      BY <1>2, <3>1, HeldIsUnchanged DEF EvidenceOnly
    <3> QED
      BY <2>1, <3>2 DEF Rejected
  <2>5. StatusKept'
    BY <1>2, <2>1, <2>3, <2>4 DEF StatusKept
  <2>6. IsFiniteSet(publication'.claims) /\ \A c \in claims' \cup publication'.claims : OfPublished(c)'
    BY <1>2, <1>3, <2>1, <2>3
  <2> QED
    BY <1>3, <2>2, <2>3, <2>5, <2>6 DEF PublicationInv
<1> QED
  BY <1>1, <1>5, <1>6 DEF PublishClaims

\* Cut short, or begun again.
LEMMA TurnedSafe ==
    ASSUME PublicationInv, PublishInterrupted \/ PublishAgain PROVE PublicationInv'
<1>1. UNCHANGED <<visionVars, published>> /\ UNCHANGED <<seen, claims, payload>>
  BY DEF PublishInterrupted, PublishAgain, worldVars
<1>2. Held' /\ EvidenceOnly'
  BY <1>1 DEF PublicationInv, Held, HeldWithinLimits, EvidenceOnly
<1>3. /\ ToldNamed' /\ \A x \in published' : NameTold(x.name, x.kind)'
      /\ \A c : OfPublished(c) => OfPublished(c)'
  BY <1>1, RestStays
<1>4. /\ PublicationIs' /\ StatusKept'
      /\ publication'.claims = publication.claims \/ publication'.claims = {}
  <2>1. CASE PublishInterrupted
    <3>1. /\ PublicationIs'
          /\ publication'.observation = publication.observation
          /\ publication'.claims = publication.claims
          /\ publication'.pc = "ended" /\ publication'.status = "none"
      BY <2>1, EndedIs DEF PublishInterrupted, PublicationInv
    <3>2. publication.pc # "idle" /\ StatusKept
      BY <2>1 DEF PublishInterrupted, PublicationInv
    <3> QED
      BY <3>1, <3>2 DEF StatusKept
  <2>2. CASE publication.pc = "ended"
             /\ publication' = [publication EXCEPT !.pc = "evidence", !.status = "none", !.observed = FALSE]
    <3>1. /\ PublicationIs'
          /\ publication'.observation = publication.observation
          /\ publication'.claims = publication.claims
          /\ publication'.pc = "evidence" /\ publication'.status = "none"
      BY <2>2 DEF PublicationInv, PublicationIs
    <3>2. StatusKept
      BY DEF PublicationInv
    <3> QED
      BY <2>2, <3>1, <3>2 DEF StatusKept
  <2>3. CASE publication' = Idle
    <3>1. publication'.claims = {} /\ publication'.pc = "idle" /\ publication'.status = "none" /\ PublicationIs'
      BY <2>3 DEF Idle, PublicationIs
    <3> QED
      BY <3>1 DEF StatusKept
  <2> QED
    BY <2>1, <2>2, <2>3 DEF PublishAgain
<1>5. IsFiniteSet(publication'.claims) /\ \A c \in claims' \cup publication'.claims : OfPublished(c)'
  BY <1>1, <1>3, <1>4, FS_EmptySet DEF PublicationInv
<1> QED
  BY <1>2, <1>3, <1>4, <1>5 DEF PublicationInv

\* What is said of an entity was published of it.
LEMMA SaidOf ==
    ASSUME PublicationInv, NEW n \in DOMAIN EntityCategory,
           NEW c \in claims, c.predicate = EntityCategory[n]
    PROVE  /\ c.at \in Nat /\ c.source = "semantic"
           /\ \E x \in published : x.name = n /\ x.value = c.value /\ x.at = c.at
<1>1. OfPublished(c)
  BY DEF PublicationInv
<1>2. PICK m \in DOMAIN EntityCategory, x \in published :
        c.predicate = EntityCategory[m] /\ x.name = m /\ x.value = c.value /\ x.at = c.at
  BY <1>1 DEF OfPublished
<1>3. m = n
  BY <1>2, VisionWorldAssumption
<1> QED
  BY <1>1, <1>2, <1>3 DEF OfPublished

\* What was published of an entity is of one kind.
LEMMA PublishedIsOneKind ==
    ASSUME PublicationInv, KindsKept, NEW x \in published, NEW y \in published, x.name = y.name
    PROVE  x.kind = y.kind
<1>1. PICK n, v, w : n = x.name /\ v = x.kind /\ w = y.kind
  OBVIOUS
<1>2. NameTold(x.name, x.kind) /\ NameTold(y.name, y.kind)
  BY DEF PublicationInv
<1>3. NameTold(n, v) /\ NameTold(n, w)
  BY <1>1, <1>2
<1>4. PICK s \in DOMAIN told : \E d \in DOMAIN told[s].names :
        told[s].names[d] = n /\ n # 0 /\ told[s].scene[d].kind = v
  BY <1>3 DEF NameTold
<1>5. PICK d \in DOMAIN told[s].names : told[s].names[d] = n /\ n # 0 /\ told[s].scene[d].kind = v
  BY <1>4
<1>6. PICK r \in DOMAIN told : \E e \in DOMAIN told[r].names :
        told[r].names[e] = n /\ n # 0 /\ told[r].scene[e].kind = w
  BY <1>3 DEF NameTold
<1>7. PICK e \in DOMAIN told[r].names : told[r].names[e] = n /\ n # 0 /\ told[r].scene[e].kind = w
  BY <1>6
<1>8. v = w
  BY <1>5, <1>7 DEF KindsKept
<1> QED
  BY <1>1, <1>8

\* Claims that are live together are of one instant.
LEMMA LiveTogether ==
    ASSUME PublicationInv, NEW n \in DOMAIN EntityCategory, NEW now,
           NEW c \in Classed("live", EntityCategory[n], now),
           NEW d \in Classed("live", EntityCategory[n], now)
    PROVE  c.at = d.at
<1>1. PICK p : p = EntityCategory[n]
  OBVIOUS
<1>2. /\ c \in Selected(p, now) /\ c \in Grounded /\ Temporal(c, now) = "live"
      /\ d \in Selected(p, now) /\ d \in Grounded /\ Temporal(d, now) = "live"
  BY <1>1 DEF Classed
<1>3. /\ c \in claims /\ c.predicate = p /\ c.ref \notin Superseded
      /\ d \in claims /\ d.predicate = p /\ d.ref \notin Superseded
  BY <1>2 DEF Selected
<1>4. c.at \in Nat /\ d.at \in Nat /\ c.source = d.source
  BY <1>1, <1>3, SaidOf
<1>5. c.at # NoTime /\ d.at # NoTime
  BY <1>4 DEF NoTime
<1>6. d.at <= c.at /\ c.at <= d.at
  BY <1>2, <1>3, <1>4, <1>5 DEF Selected
<1> QED
  BY <1>4, <1>6

\* More than one value is two values.
LEMMA TwoValues ==
    ASSUME NEW vs, Cardinality(vs) > 1
    PROVE  \E v, w \in vs : v # w
<1>1. SUFFICES ASSUME \A v, w \in vs : v = w PROVE FALSE
  OBVIOUS
<1>2. CASE vs = {}
  <2>1. Cardinality(vs) = 0
    BY <1>2, FS_EmptySet
  <2> QED
    BY <2>1
<1>3. CASE vs # {}
  <2>1. PICK v \in vs : vs = {v}
    BY <1>1, <1>3
  <2>2. Cardinality({v}) = 1
    BY FS_Singleton
  <2>3. Cardinality(vs) = 1
    BY ONLY <2>1, <2>2, Zenon
  <2> QED
    BY <2>3
<1> QED
  BY <1>2, <1>3

\* What the first conjunct of PublishedOnce says of an answer.
AnswerIs(known, n) ==
    LET said == {x \in published : x.name = n /\ x.value \in known.values} IN
    /\ \A value \in known.values : \E x \in said : x.value = value
    /\ known.status = "conflicted" =>
         \E x, y \in said : x.value # y.value /\ x.kind = y.kind /\ x.at = y.at

LEMMA AnswerHolds ==
    ASSUME PublicationInv, KindsKept, NEW n \in DOMAIN EntityCategory, NEW now
    PROVE  AnswerIs(Resolve(EntityCategory[n], now), n)
<1>1. PICK p, about : p = EntityCategory[n] /\ about = {c \in claims : c.predicate = EntityCategory[n]}
  OBVIOUS
<1>2. PICK chosen, live, unresolved, expired :
        /\ chosen = Selected(p, now) /\ live = Classed("live", p, now)
        /\ unresolved = Classed("unresolved", p, now) /\ expired = Classed("expired", p, now)
  OBVIOUS
<1>3. chosen \subseteq about /\ live \subseteq chosen /\ unresolved \subseteq chosen /\ expired \subseteq chosen
  BY <1>1, <1>2 DEF Classed, Selected
<1>4. ASSUME NEW cs, cs \subseteq about, NEW v \in Values(cs)
      PROVE  \E x \in published : x.name = n /\ x.value = v
  <2>1. PICK c \in cs : c.value = v
    BY <1>4 DEF Values
  <2>2. c \in claims /\ c.predicate = EntityCategory[n]
    BY <1>1, <1>4, <2>1
  <2> QED
    BY <2>1, <2>2, SaidOf
<1>5. Resolve(p, now) =
        CASE Cardinality(Values(live)) > 1 ->
               [status |-> "conflicted", values |-> Values(live \cup unresolved)]
          [] Cardinality(Values(live)) = 1 /\ Values(unresolved) \subseteq Values(live) ->
               [status |-> "known", values |-> Values(live)]
          [] Cardinality(Values(live)) = 1 /\ ~(Values(unresolved) \subseteq Values(live)) ->
               [status |-> "unknown", values |-> Values(live \cup unresolved)]
          [] live = {} /\ unresolved # {} ->
               [status |-> "unknown",
                values |-> Values(expired \cup unresolved \cup (chosen \ (chosen \cap Grounded)))]
          [] live = {} /\ unresolved = {} /\ expired # {} ->
               [status |-> "stale", values |-> Values(expired)]
          [] OTHER -> [status |-> "unknown", values |-> Values(chosen \ (chosen \cap Grounded))]
  BY <1>2 DEF Resolve, Classed
<1>6. CASE Cardinality(Values(live)) > 1
  <2>1. PICK known : known = Resolve(p, now)
    OBVIOUS
  <2>2. known = [status |-> "conflicted", values |-> Values(live \cup unresolved)]
    <3>1. live # {}
      <4>1. Values({}) = {} /\ Cardinality({}) = 0
        BY FS_EmptySet DEF Values
      <4> QED
        BY <1>6, <4>1
    <3>2. Cardinality(Values(live)) # 1
      BY <1>6
    <3> QED
      BY <1>5, <1>6, <2>1, <3>1, <3>2
  <2>3. live \cup unresolved \subseteq about
    BY <1>3
  <2>4. \A value \in known.values : \E x \in published : x.name = n /\ x.value = value
    BY <1>4, <2>2, <2>3
  <2>5. PICK v, w \in Values(live) : v # w
    BY <1>6, TwoValues
  <2>6. PICK c, d \in live : c.value = v /\ d.value = w
    BY <2>5 DEF Values
  <2>7. c.at = d.at
    BY <1>1, <1>2, <2>6, LiveTogether
  <2>8. /\ c \in claims /\ c.predicate = EntityCategory[n]
        /\ d \in claims /\ d.predicate = EntityCategory[n]
    BY <1>1, <1>3, <2>6
  <2>9. PICK x \in published : x.name = n /\ x.value = v /\ x.at = c.at
    BY <2>6, <2>8, SaidOf
  <2>10. PICK y \in published : y.name = n /\ y.value = w /\ y.at = c.at
    BY <2>6, <2>7, <2>8, SaidOf
  <2>11. x.kind = y.kind
    BY <2>9, <2>10, PublishedIsOneKind
  <2>12. v \in known.values /\ w \in known.values
    BY <2>2, <2>5 DEF Values
  <2> QED
    BY <1>1, <2>1, <2>4, <2>5, <2>9, <2>10, <2>11, <2>12 DEF AnswerIs
<1>7. CASE ~(Cardinality(Values(live)) > 1)
  <2>1. \E cs \in SUBSET about : \E status \in {"known", "unknown", "stale"} :
          Resolve(p, now) = [status |-> status, values |-> Values(cs)]
    <3>0. Cardinality(Values(live)) = 1 => live # {}
      BY FS_EmptySet DEF Values
    <3>1. CASE Cardinality(Values(live)) = 1 /\ Values(unresolved) \subseteq Values(live)
      <4>1. Resolve(p, now) = [status |-> "known", values |-> Values(live)]
        BY <1>5, <1>7, <3>0, <3>1
      <4> QED
        BY <1>3, <4>1
    <3>2. CASE Cardinality(Values(live)) = 1 /\ ~(Values(unresolved) \subseteq Values(live))
      <4>1. Resolve(p, now) = [status |-> "unknown", values |-> Values(live \cup unresolved)]
        BY <1>5, <1>7, <3>0, <3>2
      <4>2. live \cup unresolved \in SUBSET about
        BY <1>3
      <4> QED
        BY <4>1, <4>2
    <3>3. CASE Cardinality(Values(live)) # 1 /\ live = {} /\ unresolved # {}
      <4>1. PICK cs : cs = expired \cup unresolved \cup (chosen \ (chosen \cap Grounded))
        OBVIOUS
      <4>2. Resolve(p, now) = [status |-> "unknown", values |-> Values(cs)]
        BY <1>5, <1>7, <3>3, <4>1
      <4>3. cs \in SUBSET about
        BY <1>3, <4>1
      <4> QED
        BY <4>2, <4>3
    <3>4. CASE Cardinality(Values(live)) # 1 /\ live = {} /\ unresolved = {} /\ expired # {}
      <4>1. Resolve(p, now) = [status |-> "stale", values |-> Values(expired)]
        BY <1>5, <1>7, <3>4
      <4> QED
        BY <1>3, <4>1
    <3>5. CASE Cardinality(Values(live)) # 1 /\ ~(live = {} /\ unresolved # {})
               /\ ~(live = {} /\ unresolved = {} /\ expired # {})
      <4>1. Resolve(p, now) = [status |-> "unknown", values |-> Values(chosen \ (chosen \cap Grounded))]
        BY <1>5, <1>7, <3>5
      <4>2. chosen \ (chosen \cap Grounded) \in SUBSET about
        BY <1>3
      <4> QED
        BY <4>1, <4>2
    <3> QED
      BY <3>1, <3>2, <3>3, <3>4, <3>5
  <2>2. PICK cs \in SUBSET about, status \in {"known", "unknown", "stale"} :
          Resolve(p, now) = [status |-> status, values |-> Values(cs)]
    BY <2>1
  <2>3. PICK known : known = Resolve(p, now)
    OBVIOUS
  <2>4. known.status # "conflicted" /\ known.values = Values(cs)
    BY <2>2, <2>3
  <2>5. \A value \in known.values : \E x \in published : x.name = n /\ x.value = value
    BY <1>4, <2>4
  <2> QED
    BY <1>1, <2>3, <2>4, <2>5 DEF AnswerIs
<1> QED
  BY <1>6, <1>7

LEMMA PublicationHolds == PublicationInv /\ KindsKept => PublishedOnce
<1> SUFFICES ASSUME PublicationInv, KindsKept PROVE PublishedOnce
  OBVIOUS
<1>1. \A now \in 0..MaxTime, n \in DOMAIN EntityCategory : AnswerIs(Resolve(EntityCategory[n], now), n)
  BY AnswerHolds
<1>2. StatusKept
  BY DEF PublicationInv
<1> QED
  BY <1>1, <1>2 DEF PublishedOnce, StatusKept, AnswerIs

LEMMA PerceiveSafe ==
    ASSUME PublicationInv, VisionInv, Perceive PROVE PublicationInv'
<1>1. CASE PublishEvidence
  BY <1>1, EvidenceSafe
<1>2. CASE PublishClaims
  BY <1>2, ClaimsSafe
<1>3. CASE PublishInterrupted \/ PublishAgain
  BY <1>3, TurnedSafe
<1>4. CASE \E s \in DOMAIN told, scene \in Scenes, analysis \in Analyses, asserted \in {1, 2} :
             Prepare(s, scene, analysis, asserted)
  BY <1>4, PrepareSafe DEF VisionInv, ToldWithin
<1>5. CASE (\E f \in PublishedFrames : f[1] <= MaxSequence /\ Update(f[1], f[2], f[3]))
           /\ UNCHANGED <<worldVars, publicationVars>>
  <2>1. ToldNamed' /\ \A n, v : NameTold(n, v) => NameTold(n, v)'
    <3>1. PICK s \in 1..MaxSequence, time \in Nat : \E scene : Update(s, time, scene)
      BY <1>5, PerceivedIs
    <3> QED
      BY <3>1, ToldStays DEF PublicationInv
  <2>2. UNCHANGED <<seen, claims, payload, publication, published>>
    BY <1>5 DEF worldVars, publicationVars
  <2>3. \A x \in published' : NameTold(x.name, x.kind)'
    <3>1. ASSUME NEW x \in published PROVE NameTold(x.name, x.kind)'
      <4>1. PICK n, v : n = x.name /\ v = x.kind
        OBVIOUS
      <4>2. NameTold(n, v)
        BY <3>1, <4>1 DEF PublicationInv
      <4> QED
        BY <2>1, <4>1, <4>2
    <3> QED
      BY <2>2, <3>1
  <2>4. Held' /\ EvidenceOnly' /\ PublicationIs' /\ StatusKept'
    BY <2>2 DEF PublicationInv, Held, HeldWithinLimits, EvidenceOnly, PublicationIs, StatusKept
  <2>5. IsFiniteSet(publication'.claims) /\ \A c \in claims' \cup publication'.claims : OfPublished(c)'
    BY <2>2 DEF PublicationInv, OfPublished
  <2> QED
    BY <2>1, <2>3, <2>4, <2>5 DEF PublicationInv
<1> QED
  BY <1>1, <1>2, <1>3, <1>4, <1>5 DEF Perceive, VisionWorldNext

-----------------------------------------------------------------------------
\* The World and what is published in it.

KnowledgeInv ==
    /\ VisionInv
    /\ part = "world" => WorldInv
    /\ part = "publication" => PublicationInv

LEMMA KnowledgeSafe == ASSUME KnowledgeInv, [Next]_vars PROVE KnowledgeInv'
<1>1. VisionInv'
  BY VisionStepSafe DEF KnowledgeInv
<1>2. /\ part' = part
      /\ part = "world" => [WorldNext]_worldVars
      /\ part = "publication" => Perceive \/ UNCHANGED perceptionVars
  BY PerceptionAlone
<1>3. ASSUME part = "world" PROVE WorldInv'
  BY <1>2, <1>3, WorldNextSafe DEF KnowledgeInv
<1>4. ASSUME part = "publication" PROVE PublicationInv'
  <2>1. PublicationInv /\ VisionInv
    BY <1>4 DEF KnowledgeInv
  <2>2. CASE Perceive
    BY <2>1, <2>2, PerceiveSafe
  <2>3. CASE UNCHANGED perceptionVars
    <3>1. UNCHANGED <<told, seen, claims, payload, publication, published>>
      BY <2>3 DEF perceptionVars, visionVars, trackerVars, worldVars, publicationVars
    <3>2. ToldNamed' /\ \A x \in published' : NameTold(x.name, x.kind)'
      BY <2>1, <3>1 DEF PublicationInv, ToldNamed, NameTold
    <3>3. Held' /\ EvidenceOnly' /\ PublicationIs' /\ StatusKept'
      BY <2>1, <3>1 DEF PublicationInv, Held, HeldWithinLimits, EvidenceOnly, PublicationIs, StatusKept
    <3>4. IsFiniteSet(publication'.claims) /\ \A c \in claims' \cup publication'.claims : OfPublished(c)'
      BY <2>1, <3>1 DEF PublicationInv, OfPublished
    <3> QED
      BY <3>2, <3>3, <3>4 DEF PublicationInv
  <2> QED
    BY <1>2, <1>4, <2>2, <2>3
<1> QED
  BY <1>1, <1>2, <1>3, <1>4 DEF KnowledgeInv

\* world.py of the world and of the vision package: WorldIsSound of a World that callers
\* commit to; and of one that publications are committed to, that nothing makes it doubt what
\* an object is but two captures of one instant that spell its kind in two ways, that it
\* knows nothing that was not published, and that the status a caller is given is how far
\* its publication came.
THEOREM KnownIsSound == Spec => []WorldSound
<1>1. KnowledgeInv => WorldSound
  BY RepeatedHolds, KnownHolds, PublicationHolds
  DEF KnowledgeInv, WorldInv, Held, ProvenanceHolds, VisionInv, TrackerInv, WorldSound
<1>2. Init => KnowledgeInv
  BY VisionInitSafe, WorldInitSafe, PublicationInitSafe DEF Init, KnowledgeInv
<1>3. KnowledgeInv /\ [Next]_vars => KnowledgeInv'
  BY KnowledgeSafe
<1> QED
  BY <1>1, <1>2, <1>3, PTL DEF Spec

-----------------------------------------------------------------------------
\* The transport.

\* What waits is in order, behind low and not after high; the mark of the end is anywhere.
Waits(queue, low, high) ==
    /\ \A i \in DOMAIN queue : queue[i] # Stop => low < queue[i] /\ queue[i] <= high
    /\ \A i, j \in DOMAIN queue :
         i < j /\ queue[i] # Stop /\ queue[j] # Stop => queue[i] < queue[j]

PlaybackWorkers ==
    [pc : {"waits", "observes", "ended"}, chunk : Nat, born : {"open", "closed"}]

WrittenRecords == [chunk : Nat, late : Nat, after : BOOLEAN, born : {"open", "closed"}]

TransportTypes ==
    /\ senders \in [Users -> {"idle", "starting", "started"}]
    /\ playback \in Seq(Nat) /\ sent \in Nat /\ cleared \in 0..sent
    /\ workers \in Seq(PlaybackWorkers) /\ theWorker = Len(workers)
    /\ written \in Seq(WrittenRecords)
    /\ transport \in {"open", "closed"}

\* The chunk the worker has in hand is the next one; if it was cleared, no other one was
\* written for that.
HandSound(w, queue, last, all, since) ==
    w.pc = "observes" =>
      /\ w.chunk \in 1..last /\ Waits(queue, w.chunk, last)
      /\ \A j \in DOMAIN all : all[j].chunk < w.chunk
      /\ w.chunk <= since => \A j \in DOMAIN all : all[j].late # since

\* As long as nobody made a second worker.
OneWorker ==
    /\ Waits(playback, cleared, sent)
    /\ \A j \in DOMAIN written :
         /\ written[j].chunk <= sent /\ written[j].late <= cleared
         /\ Waits(playback, written[j].chunk, sent)
    /\ Len(workers) = 1 =>
         /\ HandSound(workers[1], playback, sent, written, cleared)
         /\ transport # "open" /\ workers[1].born = "open" => workers[1].pc = "ended"
    /\ PlayedInOrder

TransportInv == TransportTypes /\ (Len(workers) <= 1 => OneWorker)

LEMMA WaitsTail ==
    ASSUME NEW q \in Seq(Nat), q # <<>>, NEW low \in Nat, NEW high \in Nat, Waits(q, low, high)
    PROVE  /\ Tail(q) \in Seq(Nat) /\ Waits(Tail(q), low, high)
           /\ Head(q) \in Nat
           /\ Head(q) # Stop => Waits(Tail(q), Head(q), high) /\ low < Head(q) /\ Head(q) <= high
<1>1. /\ Tail(q) \in Seq(Nat) /\ Len(Tail(q)) = Len(q) - 1 /\ Len(q) \in Nat \ {0}
      /\ \A i \in 1..(Len(q) - 1) : Tail(q)[i] = q[i + 1]
      /\ Head(q) = q[1] /\ Head(q) \in Nat
  BY HeadTailProperties, EmptySeq
<1> DEFINE t == Tail(q)
<1>2. \A i \in DOMAIN t : i + 1 \in DOMAIN q /\ t[i] = q[i + 1] /\ 1 \in DOMAIN q /\ 1 < i + 1
  BY <1>1
<1> HIDE DEF t
<1>3. \A i, j \in DOMAIN t : i < j => i + 1 < j + 1
  BY <1>1 DEF t
<1> QED
  BY <1>1, <1>2, <1>3 DEF Waits, t

LEMMA WaitsAppend ==
    ASSUME NEW q \in Seq(Nat), NEW low \in Nat, NEW high \in Nat, low <= high, Waits(q, low, high)
    PROVE  /\ Append(q, high + 1) \in Seq(Nat) /\ Waits(Append(q, high + 1), low, high + 1)
           /\ Append(q, Stop) \in Seq(Nat) /\ Waits(Append(q, Stop), low, high)
<1>1. ASSUME NEW e \in Nat
      PROVE  /\ Append(q, e) \in Seq(Nat) /\ DOMAIN Append(q, e) = 1..(Len(q) + 1)
             /\ \A i \in 1..Len(q) : Append(q, e)[i] = q[i]
             /\ Append(q, e)[Len(q) + 1] = e
  OBVIOUS
<1>2. DOMAIN q = 1..Len(q) /\ Len(q) \in Nat /\ \A i \in DOMAIN q : q[i] \in Nat
  OBVIOUS
<1>3. Append(q, Stop) \in Seq(Nat) /\ Waits(Append(q, Stop), low, high)
  <2> DEFINE z == Append(q, Stop)
  <2>1. /\ z \in Seq(Nat) /\ DOMAIN z = 1..(Len(q) + 1) /\ \A i \in 1..Len(q) : z[i] = q[i]
        /\ z[Len(q) + 1] = Stop
    BY <1>1 DEF Stop
  <2> HIDE DEF z
  <2>2. \A i \in DOMAIN z : z[i] # Stop => i \in DOMAIN q /\ z[i] = q[i]
    BY <1>2, <2>1
  <2> QED
    BY <2>1, <2>2 DEF Waits, z
<1>4. Append(q, high + 1) \in Seq(Nat) /\ Waits(Append(q, high + 1), low, high + 1)
  <2> DEFINE z == Append(q, high + 1)
  <2>1. /\ z \in Seq(Nat) /\ DOMAIN z = 1..(Len(q) + 1) /\ \A i \in 1..Len(q) : z[i] = q[i]
        /\ z[Len(q) + 1] = high + 1
    BY <1>1
  <2> HIDE DEF z
  <2>2. ASSUME NEW i \in DOMAIN z, z[i] # Stop PROVE low < z[i] /\ z[i] <= high + 1
    <3>1. CASE i = Len(q) + 1
      BY <1>2, <2>1, <3>1
    <3>2. CASE i \in DOMAIN q
      <4>1. low < q[i] /\ q[i] <= high /\ q[i] \in Nat /\ z[i] = q[i]
        BY <1>2, <2>1, <2>2, <3>2 DEF Waits
      <4> QED
        BY <4>1
    <3> QED
      BY <1>2, <2>1, <3>1, <3>2
  <2>3. ASSUME NEW i \in DOMAIN z, NEW j \in DOMAIN z, i < j, z[i] # Stop, z[j] # Stop
        PROVE  z[i] < z[j]
    <3>0. i \in 1..Len(q)
      BY <1>2, <2>1, <2>3
    <3>1. i \in DOMAIN q /\ z[i] = q[i] /\ q[i] <= high
      BY <1>2, <2>1, <2>3, <3>0 DEF Waits
    <3>2. CASE j = Len(q) + 1
      BY <1>2, <2>1, <3>1, <3>2
    <3>3. CASE j \in DOMAIN q
      BY <1>2, <2>1, <2>3, <3>1, <3>3 DEF Waits
    <3> QED
      BY <1>2, <2>1, <3>2, <3>3
  <2> QED
    BY <2>1, <2>2, <2>3 DEF Waits, z
<1> QED
  BY <1>3, <1>4

LEMMA DroppingFields ==
    ASSUME NEW q \in Seq(Nat) PROVE Dropping(q) \in Seq(Nat)
<1>1. Len(q) = PlaybackSize => q # <<>>
  BY LocalTransportAssumption
<1>2. q # <<>> => Tail(q) \in Seq(Nat)
  BY HeadTailProperties
<1> QED
  BY <1>1, <1>2 DEF Dropping

LEMMA WaitsDropping ==
    ASSUME NEW q \in Seq(Nat), NEW low \in Nat, NEW high \in Nat, Waits(q, low, high)
    PROVE  Waits(Dropping(q), low, high)
<1>1. Len(q) = PlaybackSize => q # <<>>
  BY LocalTransportAssumption
<1> QED
  BY <1>1, WaitsTail DEF Dropping

LEMMA WrittenFields ==
    ASSUME written \in Seq(WrittenRecords), NEW j \in DOMAIN written
    PROVE  written[j].chunk \in Nat /\ written[j].late \in Nat
<1>1. written[j] \in WrittenRecords
  OBVIOUS
<1> QED
  BY <1>1 DEF WrittenRecords

LEMMA OnlyOne ==
    ASSUME NEW n \in Nat, NEW w \in 1..n, n <= 1 PROVE n = 1 /\ w = 1
  OBVIOUS

LEMMA WorkerFields ==
    ASSUME workers \in Seq(PlaybackWorkers), NEW w \in DOMAIN workers
    PROVE  /\ workers[w] \in PlaybackWorkers /\ Len(workers) \in Nat
           /\ Len(workers) <= 1 => Len(workers) = 1 /\ w = 1
<1>1. workers[w] \in PlaybackWorkers
  OBVIOUS
<1>2. Len(workers) \in Nat /\ w \in 1..Len(workers)
  OBVIOUS
<1>3. Len(workers) <= 1 => Len(workers) = 1 /\ w = 1
  BY <1>2, OnlyOne
<1> QED
  BY <1>1, <1>2, <1>3

LEMMA TransportInitSafe == TransportInit => TransportInv
<1> SUFFICES ASSUME TransportInit PROVE TransportInv
  OBVIOUS
<1>1. TransportTypes
  BY DEF TransportInit, TransportTypes
<1>2. OneWorker
  BY DEF TransportInit, OneWorker, Waits, PlayedInOrder
<1> QED
  BY <1>1, <1>2 DEF TransportInv

LEMMA SendAudioSafe ==
    ASSUME TransportInv, NEW u \in Users, SendAudio(u) PROVE TransportInv'
<1>1. UNCHANGED <<playback, sent, workers, theWorker, written, cleared, transport>>
      /\ senders' \in [Users -> {"idle", "starting", "started"}]
  BY DEF SendAudio, TransportInv, TransportTypes
<1> QED
  BY <1>1 DEF TransportInv, TransportTypes, OneWorker, PlayedInOrder

LEMMA DevicesStartedSafe ==
    ASSUME TransportInv, NEW u \in Users, DevicesStarted(u) PROVE TransportInv'
<1> DEFINE w == [pc |-> "waits", chunk |-> Stop, born |-> transport]
<1>1. /\ w \in PlaybackWorkers /\ w.pc = "waits" /\ w.born = transport
      /\ workers \in Seq(PlaybackWorkers) /\ Len(workers) \in Nat
  BY DEF TransportInv, TransportTypes, PlaybackWorkers, Stop
<1>2. /\ workers' = Append(workers, w) /\ theWorker' = Len(workers) + 1
      /\ UNCHANGED <<playback, sent, written, cleared, transport>>
      /\ senders' \in [Users -> {"idle", "starting", "started"}]
  BY DEF DevicesStarted, TransportInv, TransportTypes
<1> HIDE DEF w
<1>3. workers' \in Seq(PlaybackWorkers) /\ Len(workers') = Len(workers) + 1 /\ workers'[Len(workers) + 1] = w
  BY <1>1, <1>2
<1>4. TransportTypes'
  BY <1>2, <1>3 DEF TransportInv, TransportTypes
<1>5. ASSUME Len(workers') <= 1 PROVE OneWorker'
  <2>1. Len(workers) = 0 /\ workers'[1] = w
    BY <1>1, <1>3, <1>5
  <2> QED
    BY <1>1, <1>2, <2>1 DEF TransportInv, OneWorker, PlayedInOrder, HandSound
<1> QED
  BY <1>4, <1>5 DEF TransportInv

LEMMA EnqueueSafe ==
    ASSUME TransportInv, NEW u \in Users, Enqueue(u) PROVE TransportInv'
<1> DEFINE q == Dropping(playback)
<1>1. /\ playback \in Seq(Nat) /\ sent \in Nat /\ cleared \in 0..sent
      /\ written \in Seq(WrittenRecords)
      /\ workers \in Seq(PlaybackWorkers)
      /\ sent' = sent + 1 /\ playback' = Append(q, sent + 1)
      /\ UNCHANGED <<workers, theWorker, written, cleared, transport>>
      /\ senders' \in [Users -> {"idle", "starting", "started"}]
  BY DEF Enqueue, TransportInv, TransportTypes
<1>2. q \in Seq(Nat)
  BY <1>1, DroppingFields
<1>3. ASSUME NEW low \in Nat, low <= sent, Waits(playback, low, sent) PROVE Waits(playback', low, sent')
  <2>1. Waits(q, low, sent)
    BY <1>1, <1>3, WaitsDropping
  <2> HIDE DEF q
  <2>2. Waits(Append(q, sent + 1), low, sent + 1)
    BY <1>1, <1>2, <1>3, <2>1, WaitsAppend
  <2> QED
    BY <1>1, <2>2
<1> HIDE DEF q
<1>4. TransportTypes'
  <2>1. playback' \in Seq(Nat) /\ sent' \in Nat /\ cleared' \in 0..sent'
    BY <1>1, <1>2
  <2> QED
    BY <1>1, <2>1 DEF TransportInv, TransportTypes
<1>5. ASSUME Len(workers') <= 1 PROVE OneWorker'
  <2>0. OneWorker
    BY <1>1, <1>5 DEF TransportInv
  <2>1. Waits(playback', cleared', sent')
    BY <1>1, <1>3, <2>0 DEF OneWorker
  <2>2. ASSUME NEW j \in DOMAIN written'
        PROVE  /\ written'[j].chunk <= sent' /\ written'[j].late <= cleared'
               /\ Waits(playback', written'[j].chunk, sent')
    <3>1. written[j].chunk \in Nat /\ j \in DOMAIN written
      BY <1>1, <2>2, WrittenFields
    <3> QED
      BY <1>1, <1>3, <2>0, <3>1 DEF OneWorker
  <2>3. ASSUME Len(workers') = 1
        PROVE  /\ HandSound(workers'[1], playback', sent', written', cleared')
               /\ transport' # "open" /\ workers'[1].born = "open" => workers'[1].pc = "ended"
    <3>1. HandSound(workers[1], playback, sent, written, cleared)
      BY <1>1, <2>0, <2>3 DEF OneWorker
    <3>2. ASSUME workers[1].pc = "observes"
          PROVE  /\ workers[1].chunk \in 1..sent' /\ Waits(playback', workers[1].chunk, sent')
      <4>1. workers[1].chunk \in 1..sent /\ Waits(playback, workers[1].chunk, sent)
        BY <3>1, <3>2 DEF HandSound
      <4> QED
        BY <1>1, <1>3, <4>1
    <3> QED
      BY <1>1, <2>0, <2>3, <3>1, <3>2 DEF OneWorker, HandSound
  <2> QED
    BY <1>1, <2>0, <2>1, <2>2, <2>3 DEF OneWorker, PlayedInOrder
<1> QED
  BY <1>4, <1>5 DEF TransportInv

LEMMA ClearOutputSafe == ASSUME TransportInv, ClearOutput PROVE TransportInv'
<1>1. /\ playback' = <<>> /\ cleared' = sent /\ sent \in Nat /\ cleared \in 0..sent
      /\ UNCHANGED <<senders, sent, workers, theWorker, written, transport>>
      /\ written \in Seq(WrittenRecords)
      /\ workers \in Seq(PlaybackWorkers)
  BY DEF ClearOutput, TransportInv, TransportTypes
<1>0. \A j \in DOMAIN written : written[j].late \in Nat
  BY <1>1, WrittenFields
<1>2. TransportTypes'
  BY <1>1 DEF TransportInv, TransportTypes
<1>3. \A low, high : Waits(<<>>, low, high)
  BY DEF Waits
<1>4. ASSUME Len(workers') <= 1 PROVE OneWorker'
  <2>0. OneWorker
    BY <1>1, <1>4 DEF TransportInv
  <2>1. ASSUME NEW j \in DOMAIN written'
        PROVE  /\ written'[j].chunk <= sent' /\ written'[j].late <= cleared'
               /\ Waits(playback', written'[j].chunk, sent')
    BY <1>0, <1>1, <1>3, <2>0, <2>1 DEF OneWorker
  <2>2. ASSUME Len(workers') = 1
        PROVE  /\ HandSound(workers'[1], playback', sent', written', cleared')
               /\ transport' # "open" /\ workers'[1].born = "open" => workers'[1].pc = "ended"
    <3>1. HandSound(workers[1], playback, sent, written, cleared)
      BY <1>1, <2>0, <2>2 DEF OneWorker
    <3>2. ASSUME workers[1].pc = "observes"
          PROVE  \A j \in DOMAIN written : written[j].late # sent
      <4>1. CASE cleared = sent
        BY <1>1, <3>1, <3>2, <4>1 DEF HandSound
      <4>2. CASE cleared < sent
        BY <1>0, <1>1, <2>0, <4>2 DEF OneWorker
      <4> QED
        BY <1>1, <4>1, <4>2
    <3> QED
      BY <1>1, <1>3, <2>0, <2>2, <3>1, <3>2 DEF OneWorker, HandSound
  <2> QED
    BY <1>1, <1>3, <2>0, <2>1, <2>2 DEF OneWorker, PlayedInOrder
<1> QED
  BY <1>2, <1>4 DEF TransportInv

LEMMA WorkerMoved ==
    ASSUME workers \in Seq(PlaybackWorkers), NEW w \in DOMAIN workers, NEW x \in PlaybackWorkers,
           workers' = [workers EXCEPT ![w] = x]
    PROVE  /\ workers' \in Seq(PlaybackWorkers) /\ Len(workers') = Len(workers) /\ Len(workers) \in Nat
           /\ workers[w] \in PlaybackWorkers
           /\ Len(workers) <= 1 => Len(workers) = 1 /\ w = 1 /\ workers'[1] = x
<1>1. workers' \in Seq(PlaybackWorkers) /\ Len(workers') = Len(workers) /\ workers'[w] = x
  OBVIOUS
<1> QED
  BY <1>1, WorkerFields

LEMMA TakeSafe ==
    ASSUME TransportInv, NEW w \in DOMAIN workers, Take(w) PROVE TransportInv'
<1> DEFINE x == IF Head(playback) = Stop THEN [workers[w] EXCEPT !.pc = "ended"]
                ELSE [workers[w] EXCEPT !.pc = "observes", !.chunk = Head(playback)]
<1>1. /\ playback \in Seq(Nat) /\ playback # <<>> /\ sent \in Nat /\ cleared \in 0..sent
      /\ written \in Seq(WrittenRecords)
      /\ workers \in Seq(PlaybackWorkers) /\ workers[w] \in PlaybackWorkers
      /\ playback' = Tail(playback) /\ workers' = [workers EXCEPT ![w] = x]
      /\ UNCHANGED <<senders, sent, theWorker, written, cleared, transport>>
  BY DEF Take, TransportInv, TransportTypes
<1>2. Head(playback) \in Nat /\ playback' \in Seq(Nat)
  BY <1>1, HeadTailProperties
<1>3. /\ x \in PlaybackWorkers /\ x.born = workers[w].born
      /\ Head(playback) = Stop => x.pc = "ended"
      /\ Head(playback) # Stop => x.pc = "observes" /\ x.chunk = Head(playback)
  <2>1. CASE Head(playback) = Stop
    BY <1>1, <2>1 DEF PlaybackWorkers
  <2>2. CASE Head(playback) # Stop
    BY <1>1, <1>2, <2>2 DEF PlaybackWorkers
  <2> QED
    BY <2>1, <2>2
<1> HIDE DEF x
<1>4. /\ workers' \in Seq(PlaybackWorkers) /\ Len(workers') = Len(workers) /\ Len(workers) \in Nat
      /\ Len(workers) <= 1 => Len(workers) = 1 /\ w = 1 /\ workers'[1] = x
  BY <1>1, <1>3, WorkerMoved
<1>5. TransportTypes'
  BY <1>1, <1>2, <1>4 DEF TransportInv, TransportTypes
<1>6. ASSUME NEW low \in Nat, Waits(playback, low, sent)
      PROVE  /\ Waits(playback', low, sent)
             /\ Head(playback) # Stop =>
                  Waits(playback', Head(playback), sent) /\ low < Head(playback) /\ Head(playback) <= sent
  BY <1>1, <1>6, WaitsTail
<1>7. ASSUME Len(workers') <= 1 PROVE OneWorker'
  <2>0. OneWorker /\ workers'[1] = x /\ w = 1 /\ workers[1].pc = "waits"
    BY <1>4, <1>7 DEF TransportInv, Take
  <2>1. Waits(playback', cleared', sent')
    BY <1>1, <1>6, <2>0 DEF OneWorker
  <2>2. ASSUME NEW j \in DOMAIN written'
        PROVE  /\ written'[j].chunk <= sent' /\ written'[j].late <= cleared'
               /\ Waits(playback', written'[j].chunk, sent')
    <3>1. written[j].chunk \in Nat /\ j \in DOMAIN written
      BY <1>1, <2>2, WrittenFields
    <3> QED
      BY <1>1, <1>6, <2>0, <3>1 DEF OneWorker
  <2>3. ASSUME Head(playback) # Stop
        PROVE  /\ Head(playback) \in 1..sent /\ Waits(playback', Head(playback), sent)
               /\ cleared < Head(playback)
               /\ \A j \in DOMAIN written : written[j].chunk < Head(playback)
    <3>1. /\ Waits(playback', Head(playback), sent) /\ cleared < Head(playback)
          /\ Head(playback) <= sent
      BY <1>1, <1>6, <2>0, <2>3 DEF OneWorker
    <3>2. ASSUME NEW j \in DOMAIN written PROVE written[j].chunk < Head(playback)
      <4>1. written[j].chunk \in Nat /\ Waits(playback, written[j].chunk, sent)
        BY <1>1, <2>0, WrittenFields DEF OneWorker
      <4> QED
        BY <1>6, <2>3, <4>1
    <3> QED
      BY <1>1, <1>2, <3>1, <3>2
  <2>4. HandSound(x, playback', sent', written', cleared')
    <3> SUFFICES ASSUME x.pc = "observes"
                 PROVE  HandSound(x, playback', sent', written', cleared')
      BY DEF HandSound
    <3>1. Head(playback) # Stop /\ x.chunk = Head(playback)
      BY <1>3
    <3> QED
      BY <1>1, <1>2, <2>3, <3>1 DEF HandSound
  <2>5. transport' # "open" /\ x.born = "open" => x.pc = "ended"
    BY <1>1, <1>3, <1>4, <1>7, <2>0 DEF OneWorker
  <2> QED
    BY <1>1, <2>0, <2>1, <2>2, <2>4, <2>5 DEF OneWorker, PlayedInOrder
<1> QED
  BY <1>5, <1>7 DEF TransportInv

LEMMA WriteChunkSafe ==
    ASSUME TransportInv, NEW w \in DOMAIN workers, WriteChunk(w) PROVE TransportInv'
<1> DEFINE x == [workers[w] EXCEPT !.pc = "waits"]
           late == IF workers[w].chunk <= cleared THEN cleared ELSE 0
           r == [chunk |-> workers[w].chunk, late |-> late,
                 after |-> transport # "open", born |-> workers[w].born]
<1>1. /\ playback \in Seq(Nat) /\ sent \in Nat /\ cleared \in 0..sent
      /\ written \in Seq(WrittenRecords)
      /\ workers \in Seq(PlaybackWorkers) /\ workers[w] \in PlaybackWorkers
      /\ workers[w].pc = "observes"
      /\ written' = Append(written, r) /\ workers' = [workers EXCEPT ![w] = x]
      /\ UNCHANGED <<senders, playback, sent, theWorker, cleared, transport>>
  BY DEF WriteChunk, TransportInv, TransportTypes
<1>2. /\ x \in PlaybackWorkers /\ x.pc = "waits" /\ x.born = workers[w].born
      /\ workers[w].chunk \in Nat /\ r \in WrittenRecords
      /\ r.chunk = workers[w].chunk /\ r.late = late /\ late \in {0, cleared}
      /\ late # 0 => workers[w].chunk <= cleared /\ late = cleared
      /\ r.after = (transport # "open") /\ r.born = workers[w].born
  <2>1. workers[w].chunk \in Nat /\ workers[w].born \in {"open", "closed"}
    BY <1>1 DEF PlaybackWorkers
  <2>2. x \in PlaybackWorkers /\ x.pc = "waits" /\ x.born = workers[w].born
    BY <1>1 DEF PlaybackWorkers
  <2>3. late \in Nat /\ late \in {0, cleared} /\ (late # 0 => workers[w].chunk <= cleared /\ late = cleared)
    BY <1>1
  <2> HIDE DEF late
  <2>4. /\ r \in WrittenRecords /\ r.chunk = workers[w].chunk /\ r.late = late
        /\ r.after = (transport # "open") /\ r.born = workers[w].born
    BY <2>1, <2>3 DEF WrittenRecords
  <2> QED
    BY <2>1, <2>2, <2>3, <2>4
<1> HIDE DEF x, r, late
<1>3. /\ written' \in Seq(WrittenRecords)
      /\ Len(written) \in Nat /\ DOMAIN written = 1..Len(written)
      /\ DOMAIN written' = 1..(Len(written) + 1) /\ written'[Len(written) + 1] = r
      /\ \A j \in 1..Len(written) : written'[j] = written[j]
  BY <1>1, <1>2
<1>4. /\ workers' \in Seq(PlaybackWorkers) /\ Len(workers') = Len(workers) /\ Len(workers) \in Nat
      /\ Len(workers) <= 1 => Len(workers) = 1 /\ w = 1 /\ workers'[1] = x
  BY <1>1, <1>2, WorkerMoved
<1>5. TransportTypes'
  BY <1>1, <1>3, <1>4 DEF TransportInv, TransportTypes
<1>6. ASSUME Len(workers') <= 1 PROVE OneWorker'
  <2>0. OneWorker /\ workers'[1] = x /\ w = 1 /\ Len(workers) = 1
    BY <1>4, <1>6 DEF TransportInv
  <2>1. /\ workers[1].chunk \in 1..sent /\ Waits(playback, workers[1].chunk, sent)
        /\ \A j \in DOMAIN written : written[j].chunk < workers[1].chunk
        /\ workers[1].chunk <= cleared => \A j \in DOMAIN written : written[j].late # cleared
        /\ ~(transport # "open" /\ workers[1].born = "open")
    BY <1>1, <2>0 DEF OneWorker, HandSound
  <2>2. ASSUME NEW j \in DOMAIN written'
        PROVE  /\ written'[j].chunk <= sent' /\ written'[j].late <= cleared'
               /\ Waits(playback', written'[j].chunk, sent')
    <3>1. CASE j = Len(written) + 1
      BY <1>1, <1>2, <1>3, <2>0, <2>1, <3>1
    <3>2. CASE j \in 1..Len(written)
      BY <1>1, <1>3, <2>0, <3>2 DEF OneWorker
    <3> QED
      BY <1>3, <3>1, <3>2
  <2>3. ASSUME NEW i \in DOMAIN written'
        PROVE  /\ written'[i].after => written'[i].born = "closed"
               /\ \A j \in 1..(i - 1) :
                    /\ written'[j].chunk < written'[i].chunk
                    /\ written'[i].late # 0 => written'[j].late # written'[i].late
    <3>1. CASE i = Len(written) + 1
      <4>1. \A j \in 1..(i - 1) : j \in DOMAIN written /\ written'[j] = written[j]
        BY <1>3, <3>1
      <4>2. written'[i] = r /\ w = 1
        BY <1>3, <2>0, <3>1
      <4>3. r.after => r.born = "closed"
        BY <1>1, <1>2, <2>0, <2>1 DEF PlaybackWorkers
      <4> QED
        BY <1>2, <2>1, <4>1, <4>2, <4>3
    <3>2. CASE i \in 1..Len(written)
      <4>1. \A j \in 1..(i - 1) : j \in 1..Len(written) /\ written'[j] = written[j]
        BY <1>3, <3>2
      <4>2. /\ written[i].after => written[i].born = "closed"
            /\ \A j \in 1..(i - 1) :
                 /\ written[j].chunk < written[i].chunk
                 /\ written[i].late # 0 => written[j].late # written[i].late
        BY <1>3, <2>0, <3>2 DEF OneWorker, PlayedInOrder
      <4> QED
        BY <1>3, <3>2, <4>1, <4>2
    <3> QED
      BY <1>3, <3>1, <3>2
  <2>4. PlayedInOrder'
    BY <2>3 DEF PlayedInOrder
  <2>5. x.pc # "observes" /\ x.born = workers[1].born /\ workers[1].pc = "observes"
    BY <1>1, <1>2, <2>0
  <2>6. ~(transport' # "open" /\ workers'[1].born = "open")
    BY <1>1, <2>0, <2>1, <2>5
  <2> QED
    BY <1>1, <2>0, <2>2, <2>4, <2>5, <2>6 DEF OneWorker, HandSound
<1> QED
  BY <1>5, <1>6 DEF TransportInv

LEMMA CloseTransportSafe == ASSUME TransportInv, CloseTransport PROVE TransportInv'
<1>1. /\ playback \in Seq(Nat) /\ sent \in Nat /\ cleared \in 0..sent
      /\ written \in Seq(WrittenRecords)
      /\ workers \in Seq(PlaybackWorkers) /\ theWorker = Len(workers) /\ Len(workers) \in Nat
      /\ transport' = "closed" /\ UNCHANGED <<senders, sent, theWorker, written, cleared>>
  BY DEF CloseTransport, TransportInv, TransportTypes
<1>2. CASE theWorker = 0
  <2>1. UNCHANGED <<playback, workers>>
    BY <1>2 DEF CloseTransport
  <2>2. Len(workers') = 0 /\ UNCHANGED <<senders, playback, sent, workers, theWorker, written, cleared>>
    BY <1>1, <1>2, <2>1
  <2>3. TransportTypes'
    BY <1>1, <2>2 DEF TransportInv, TransportTypes
  <2>4. OneWorker => OneWorker'
    BY <2>2 DEF OneWorker, PlayedInOrder
  <2> QED
    BY <2>2, <2>3, <2>4 DEF TransportInv
<1>3. CASE theWorker # 0
  <2> DEFINE x == [workers[theWorker] EXCEPT !.pc = "ended"]
             q == Dropping(playback)
  <2>1. playback' = Append(q, Stop) /\ workers' = [workers EXCEPT ![theWorker] = x]
    BY <1>3 DEF CloseTransport
  <2>2. theWorker \in DOMAIN workers /\ x \in PlaybackWorkers /\ x.pc = "ended" /\ q \in Seq(Nat)
    <3>1. theWorker \in DOMAIN workers
      BY <1>1, <1>3
    <3>2. workers[theWorker] \in PlaybackWorkers
      BY <1>1, <3>1, WorkerFields
    <3> QED
      BY <1>1, <3>1, <3>2, DroppingFields DEF PlaybackWorkers
  <2>3. ASSUME NEW low \in Nat, low <= sent, Waits(playback, low, sent) PROVE Waits(playback', low, sent)
    <3>1. Waits(q, low, sent)
      BY <1>1, <2>3, WaitsDropping
    <3> HIDE DEF q
    <3>2. Waits(Append(q, Stop), low, sent)
      BY <1>1, <2>2, <2>3, <3>1, WaitsAppend
    <3> QED
      BY <2>1, <3>2
  <2> HIDE DEF q, x
  <2>4. playback' \in Seq(Nat)
    BY <2>1, <2>2 DEF Stop
  <2>5. /\ workers' \in Seq(PlaybackWorkers) /\ Len(workers') = Len(workers) /\ Len(workers) \in Nat
        /\ Len(workers) <= 1 => Len(workers) = 1 /\ workers'[1] = x
    BY <1>1, <2>1, <2>2, WorkerMoved
  <2>6. TransportTypes'
    BY <1>1, <2>4, <2>5 DEF TransportInv, TransportTypes
  <2>7. ASSUME Len(workers') <= 1 PROVE OneWorker'
    <3>0. OneWorker /\ workers'[1] = x /\ Len(workers) = 1
      BY <2>5, <2>7 DEF TransportInv
    <3>1. Waits(playback', cleared', sent')
      BY <1>1, <2>3, <3>0 DEF OneWorker
    <3>2. ASSUME NEW j \in DOMAIN written'
          PROVE  /\ written'[j].chunk <= sent' /\ written'[j].late <= cleared'
                 /\ Waits(playback', written'[j].chunk, sent')
      <4>1. written[j].chunk \in Nat /\ j \in DOMAIN written
        BY <1>1, <3>2, WrittenFields
      <4> QED
        BY <1>1, <2>3, <3>0, <4>1 DEF OneWorker
    <3> QED
      BY <1>1, <2>2, <2>5, <3>0, <3>1, <3>2 DEF OneWorker, PlayedInOrder, HandSound
  <2> QED
    BY <2>6, <2>7 DEF TransportInv
<1> QED
  BY <1>2, <1>3

LEMMA TransportNextSafe ==
    ASSUME TransportInv, [TransportNext]_transportVars PROVE TransportInv'
<1>1. CASE UNCHANGED transportVars
  BY <1>1 DEF transportVars, TransportInv, TransportTypes, OneWorker, PlayedInOrder
<1> QED
  BY <1>1, SendAudioSafe, DevicesStartedSafe, EnqueueSafe, ClearOutputSafe, TakeSafe,
     WriteChunkSafe, CloseTransportSafe DEF TransportNext

\* transport/local.py:54-98: with one worker the loudspeaker plays in order and once
\* what was sent, of what was cleared the chunk in hand at most, and nothing after close --
\* unless that worker was made after close, for a send_audio that was still starting.
THEOREM PlaysInOrder == TransportSpec => []PlayedInOrder
<1>1. TransportInv => PlayedInOrder
  BY DEF TransportInv, OneWorker, PlayedInOrder
<1> QED
  BY <1>1, TransportInitSafe, TransportNextSafe, PTL DEF TransportSpec

-----------------------------------------------------------------------------
\* The synthesis.

ConnectionRecords == [state : {"opening", "open", "closing", "gone"}, owes : Seq(Nat)]
VoiceItems == [kind : {"delta", "done", "error"}, of : Nat]
PostedRecords == [to : Nat, item : VoiceItems]
VoicePcs == {"none", "connect", "register", "clear", "append", "commit", "read"}
HasQueue == {"clear", "append", "commit", "read"}

VoiceTypes ==
    /\ synthesis \in [call : Nat, pc : VoicePcs, connecting : Nat, attempt : Nat]
    /\ connections \in Seq(ConnectionRecords)
    /\ client \in 0..Len(connections)
    /\ synthesis.pc = "connect" => synthesis.connecting \in 1..Len(connections)
    /\ posted \in Seq(PostedRecords) /\ \A i \in DOMAIN posted : posted[i].to <= Call
    /\ received \in Seq(VoiceItems)
    /\ ttsClosed \in BOOLEAN /\ interrupted \in BOOLEAN

\* The queue that is registered is the one of the call under way.
VoiceControl ==
    /\ synthesis.pc # "none" => Call # Nobody
    /\ registered = Nobody \/ (registered = Call /\ synthesis.pc \in HasQueue)
    /\ synthesis.pc \in HasQueue /\ ~ttsClosed => registered = Call

\* Whoever reads has the end of a response, or of the connection, to come.
Final(item) == item.kind # "delta"
Owing(c) == (c.state = "open" /\ c.owes # <<>>) \/ c.state = "closing"
EndComes ==
    synthesis.pc = "read" /\ ~ttsClosed =>
      \/ \E i \in DOMAIN received : Final(received[i])
      \/ \E i \in DOMAIN posted : posted[i].to = Call /\ Final(posted[i].item)
      \/ \E n \in DOMAIN connections : Owing(connections[n])

\* As long as every call has read to its end: nothing is owed but to the call that reads,
\* by one connection, and only it is sent something; its end is the last of that.
Mine == IF synthesis.pc = "read" THEN {Call, Nobody} ELSE {Nobody}
OwnEnd(item) == item.kind = "done" /\ item.of # Nobody
NothingOwed == \A n \in DOMAIN connections : connections[n].owes = <<>>
OwesTheReader ==
    /\ \A n \in DOMAIN connections :
         connections[n].owes = <<>> \/ (synthesis.pc = "read" /\ connections[n].owes = <<Call>>)
    /\ \A n, m \in DOMAIN connections :
         connections[n].owes # <<>> /\ connections[m].owes # <<>> => n = m
Sent ==
    /\ \A i \in DOMAIN received : received[i].of \in Mine
    /\ \A i \in DOMAIN posted : posted[i].to = Call => posted[i].item.of \in Mine
EndIsLast ==
    /\ \A i \in DOMAIN received : OwnEnd(received[i]) =>
         /\ \A j \in DOMAIN received : i < j => received[j].of = Nobody
         /\ \A j \in DOMAIN posted : posted[j].to = Call => posted[j].item.of = Nobody
         /\ NothingOwed
    /\ \A i \in DOMAIN posted : posted[i].to = Call /\ OwnEnd(posted[i].item) =>
         /\ \A j \in DOMAIN posted : i < j /\ posted[j].to = Call => posted[j].item.of = Nobody
         /\ NothingOwed
OnlyItsOwn == ~interrupted => OwesTheReader /\ Sent /\ EndIsLast

VoiceInv == VoiceTypes /\ VoiceControl /\ EndComes /\ OnlyItsOwn

LEMMA VoiceInitSafe == TTSInit => VoiceInv
<1> SUFFICES ASSUME TTSInit PROVE VoiceInv
  OBVIOUS
<1>0. /\ synthesis = [call |-> 0, pc |-> "none", connecting |-> 0, attempt |-> 0]
      /\ connections = <<>> /\ client = 0 /\ registered = 0 /\ posted = <<>> /\ received = <<>>
      /\ ttsClosed = FALSE /\ interrupted = FALSE
  BY DEF TTSInit, Nobody
<1>1. VoiceTypes
  <2>1. synthesis \in [call : Nat, pc : VoicePcs, connecting : Nat, attempt : Nat]
    BY <1>0 DEF VoicePcs
  <2>2. /\ connections \in Seq(ConnectionRecords) /\ client \in 0..Len(connections)
        /\ posted \in Seq(PostedRecords) /\ DOMAIN posted = {}
        /\ received \in Seq(VoiceItems)
    BY <1>0
  <2> QED
    BY <1>0, <2>1, <2>2 DEF VoiceTypes
<1>3. VoiceControl /\ EndComes
  BY <1>0 DEF VoiceControl, EndComes, Call, Nobody, HasQueue
<1>2. OnlyItsOwn
  BY DEF TTSInit, OnlyItsOwn, OwesTheReader, Sent, EndIsLast
<1> QED
  BY <1>1, <1>2, <1>3 DEF VoiceInv

LEMMA SynthesisFields ==
    ASSUME VoiceTypes
    PROVE  /\ synthesis = [call |-> Call, pc |-> synthesis.pc, connecting |-> synthesis.connecting,
                           attempt |-> synthesis.attempt]
           /\ Call \in Nat /\ synthesis.pc \in VoicePcs /\ synthesis.connecting \in Nat
           /\ synthesis.attempt \in Nat
BY DEF VoiceTypes, Call

LEMMA GoesToFields ==
    ASSUME VoiceTypes, NEW pc \in VoicePcs, GoesTo(pc)
    PROVE  /\ synthesis' \in [call : Nat, pc : VoicePcs, connecting : Nat, attempt : Nat]
           /\ Call' = Call /\ synthesis'.pc = pc /\ synthesis'.connecting = synthesis.connecting
           /\ synthesis'.attempt = synthesis.attempt
BY DEF VoiceTypes, Call, GoesTo

LEMMA ConnectionFields ==
    ASSUME VoiceTypes, NEW n \in DOMAIN connections
    PROVE  /\ connections[n] = [state |-> connections[n].state, owes |-> connections[n].owes]
           /\ connections[n].state \in {"opening", "open", "closing", "gone"}
           /\ connections[n].owes \in Seq(Nat) /\ connections[n] \in ConnectionRecords
           /\ n \in 1..Len(connections) /\ Len(connections) \in Nat
<1>1. connections[n] \in ConnectionRecords /\ n \in 1..Len(connections) /\ Len(connections) \in Nat
  BY DEF VoiceTypes
<1> QED
  BY <1>1 DEF ConnectionRecords

LEMMA ConnectionPut ==
    ASSUME VoiceTypes, NEW n \in DOMAIN connections, NEW c \in ConnectionRecords
    PROVE  LET new == [connections EXCEPT ![n] = c] IN
           /\ new \in Seq(ConnectionRecords) /\ Len(new) = Len(connections)
           /\ DOMAIN new = DOMAIN connections /\ new[n] = c
           /\ \A m \in DOMAIN connections : m # n => new[m] = connections[m]
BY DEF VoiceTypes

LEMMA ConnectionAdded ==
    ASSUME NEW old \in Seq(ConnectionRecords), NEW c \in ConnectionRecords
    PROVE  LET new == Append(old, c) IN
           /\ new \in Seq(ConnectionRecords) /\ Len(new) = Len(old) + 1 /\ Len(old) \in Nat
           /\ DOMAIN new = 1..(Len(old) + 1) /\ DOMAIN old = 1..Len(old) /\ new[Len(old) + 1] = c
           /\ \A m \in DOMAIN old : new[m] = old[m]
  OBVIOUS

LEMMA PostedFields ==
    ASSUME VoiceTypes, NEW i \in DOMAIN posted
    PROVE  posted[i] = [to |-> posted[i].to, item |-> posted[i].item]
           /\ posted[i].to \in Nat /\ posted[i].item \in VoiceItems
<1>0. posted \in Seq(PostedRecords)
  BY DEF VoiceTypes
<1>1. posted[i] \in PostedRecords
  BY <1>0, ElementOfSeq
<1> QED
  BY <1>1 DEF PostedRecords

\* A connection owes what it owed, or nothing.
OwesLess ==
    \A n \in DOMAIN connections' :
       connections'[n].owes = <<>>
       \/ (n \in DOMAIN connections /\ connections'[n].owes = connections[n].owes)

LEMMA AddedOwesLess ==
    ASSUME NEW old \in Seq(ConnectionRecords), NEW c \in ConnectionRecords, c.owes = <<>>,
           DOMAIN old = DOMAIN connections,
           \A m \in DOMAIN connections : old[m].owes = connections[m].owes,
           connections' = Append(old, c)
    PROVE  /\ connections' \in Seq(ConnectionRecords) /\ Len(connections') = Len(old) + 1
           /\ Len(old) \in Nat /\ OwesLess
<1>1. /\ connections' \in Seq(ConnectionRecords) /\ Len(connections') = Len(old) + 1
      /\ Len(old) \in Nat /\ DOMAIN connections' = 1..(Len(old) + 1) /\ DOMAIN old = 1..Len(old)
      /\ connections'[Len(old) + 1] = c /\ \A m \in DOMAIN old : connections'[m] = old[m]
  BY ConnectionAdded
<1>2. OwesLess
  BY <1>1 DEF OwesLess
<1> QED
  BY <1>1, <1>2

LEMMA OwesLessOwn ==
    ASSUME OnlyItsOwn, OwesLess, UNCHANGED <<posted, received, interrupted>>, Call' = Call,
           synthesis'.pc = "read" <=> synthesis.pc = "read"
    PROVE  OnlyItsOwn'
<1> SUFFICES ASSUME ~interrupted PROVE OwesTheReader' /\ Sent' /\ EndIsLast'
  BY DEF OnlyItsOwn
<1>1. OwesTheReader /\ Sent /\ EndIsLast
  BY DEF OnlyItsOwn
<1>2. OwesTheReader'
  BY <1>1 DEF OwesTheReader, OwesLess
<1>3. NothingOwed => NothingOwed'
  BY DEF NothingOwed, OwesLess
<1>4. Mine' = Mine
  BY DEF Mine
<1>5. Sent'
  BY <1>1, <1>4 DEF Sent
<1>6. EndIsLast'
  BY <1>1, <1>3 DEF EndIsLast
<1> QED
  BY <1>2, <1>5, <1>6

\* A call that ends otherwise than with its response.
LEMMA GivesUpSafe ==
    ASSUME VoiceInv, LeavesSynthesis(FALSE), connections' \in Seq(ConnectionRecords),
           Len(connections') = Len(connections), UNCHANGED <<client, posted, received, ttsClosed>>
    PROVE  VoiceInv'
<1>1. /\ VoiceTypes /\ VoiceControl /\ GoesTo("none") /\ interrupted' = TRUE
      /\ registered' = IF registered = Call THEN Nobody ELSE registered
  BY DEF VoiceInv, LeavesSynthesis, VoiceTypes
<1>2. /\ synthesis' \in [call : Nat, pc : VoicePcs, connecting : Nat, attempt : Nat]
      /\ Call' = Call /\ synthesis'.pc = "none"
  BY <1>1, GoesToFields DEF VoicePcs
<1>3. VoiceTypes'
  BY <1>1, <1>2 DEF VoiceTypes
<1>4. VoiceControl'
  BY <1>1, <1>2 DEF VoiceControl, HasQueue
<1> QED
  BY <1>1, <1>2, <1>3, <1>4 DEF VoiceInv, EndComes, OnlyItsOwn

\* A step towards sending: what comes and what is owed stay as they are.
LEMMA ProceedsSafe ==
    ASSUME VoiceInv, NEW pc \in {"connect", "register", "clear", "append", "commit"},
           synthesis.pc # "none", synthesis.pc # "read",
           synthesis' \in [call : Nat, pc : VoicePcs, connecting : Nat, attempt : Nat],
           Call' = Call, synthesis'.pc = pc,
           pc = "connect" => synthesis'.connecting \in 1..Len(connections'),
           connections' \in Seq(ConnectionRecords), OwesLess, client' \in 0..Len(connections'),
           registered' = registered, pc \in HasQueue <=> synthesis.pc \in HasQueue,
           UNCHANGED <<posted, received, ttsClosed, interrupted>>
    PROVE  VoiceInv'
<1>1. VoiceTypes /\ VoiceControl /\ OnlyItsOwn
  BY DEF VoiceInv
<1>2. VoiceTypes'
  BY <1>1 DEF VoiceTypes
<1>3. VoiceControl'
  BY <1>1 DEF VoiceControl
<1>4. OnlyItsOwn'
  BY <1>1, OwesLessOwn
<1>5. EndComes'
  BY DEF EndComes
<1> QED
  BY <1>2, <1>3, <1>4, <1>5 DEF VoiceInv

LEMMA SynthesizeSafe == ASSUME VoiceInv, Synthesize PROVE VoiceInv'
<1> DEFINE new == [state |-> "opening", owes |-> <<>>]
<1>0. new \in ConnectionRecords /\ new.owes = <<>>
  BY DEF ConnectionRecords
<1> HIDE DEF new
<1>1. /\ VoiceTypes /\ VoiceControl /\ OnlyItsOwn /\ synthesis.pc = "none" /\ Call \in Nat
      /\ UNCHANGED <<client, registered, posted, received, ttsClosed, interrupted>>
  BY SynthesisFields DEF VoiceInv, Synthesize
<1>2. /\ synthesis' \in [call : Nat, pc : VoicePcs, connecting : Nat, attempt : Nat]
      /\ Call' = Call + 1 /\ synthesis'.pc \in {"connect", "register"}
      /\ connections' \in Seq(ConnectionRecords) /\ OwesLess
      /\ Len(connections') \in Nat /\ Len(connections) \in Nat /\ Len(connections) <= Len(connections')
      /\ synthesis'.pc = "connect" => synthesis'.connecting \in 1..Len(connections')
  <2>1. CASE client # Nobody
    <3>1. /\ synthesis' = [synthesis EXCEPT !.call = @ + 1, !.pc = "register"]
          /\ connections' = connections
      BY <1>1, <2>1 DEF Synthesize
    <3>2. /\ synthesis' \in [call : Nat, pc : VoicePcs, connecting : Nat, attempt : Nat]
          /\ synthesis'.call = Call + 1 /\ synthesis'.pc = "register"
      <4>1. synthesis \in [call : Nat, pc : VoicePcs, connecting : Nat, attempt : Nat]
        BY <1>1 DEF VoiceTypes
      <4>2. synthesis.call + 1 \in Nat /\ "register" \in VoicePcs
        BY <4>1 DEF VoicePcs
      <4> QED
        BY <3>1, <4>1, <4>2 DEF Call
    <3>3. connections \in Seq(ConnectionRecords) /\ Len(connections) \in Nat
      BY <1>1 DEF VoiceTypes
    <3> QED
      BY <3>1, <3>2, <3>3 DEF OwesLess, Call
  <2>2. CASE client = Nobody
    <3>1. /\ connections' = Append(connections, new)
          /\ synthesis' = [call |-> Call + 1, pc |-> "connect", connecting |-> Len(connections) + 1,
                           attempt |-> 1]
      BY <1>1, <2>2 DEF Synthesize, Dial, new
    <3>2. /\ connections' \in Seq(ConnectionRecords) /\ Len(connections') = Len(connections) + 1
          /\ Len(connections) \in Nat /\ OwesLess
      <4>1. connections \in Seq(ConnectionRecords)
        BY <1>1 DEF VoiceTypes
      <4> QED
        BY <1>0, <3>1, <4>1, AddedOwesLess
    <3>3. /\ synthesis'.call = Call + 1 /\ synthesis'.pc = "connect"
          /\ synthesis'.connecting = Len(connections) + 1
          /\ synthesis' \in [call : Nat, pc : VoicePcs, connecting : Nat, attempt : Nat]
      BY <1>1, <3>1, <3>2 DEF VoicePcs
    <3> QED
      BY <3>2, <3>3 DEF Call
  <2> QED
    BY <2>1, <2>2
<1>3. \A i \in DOMAIN posted : posted[i].to \in Nat /\ posted[i].to <= Call
  BY <1>1, PostedFields DEF VoiceTypes
<1>4. VoiceTypes'
  <2>2. \A i \in DOMAIN posted : posted[i].to <= Call'
    BY <1>1, <1>2, <1>3
  <2> QED
    BY <1>1, <1>2, <2>2 DEF VoiceTypes
<1>5. VoiceControl'
  BY <1>1, <1>2 DEF VoiceControl, HasQueue, Nobody
<1>6. EndComes'
  BY <1>2 DEF EndComes
<1>7. ASSUME ~interrupted' PROVE OwesTheReader' /\ Sent' /\ EndIsLast'
  <2>1. OwesTheReader /\ Sent /\ EndIsLast
    BY <1>1, <1>7 DEF OnlyItsOwn
  <2>2. OwesTheReader'
    BY <1>1, <1>2, <2>1 DEF OwesTheReader, OwesLess
  <2>3. Mine' = {Nobody} /\ Mine = {Nobody}
    BY <1>1, <1>2 DEF Mine
  <2>4. \A i \in DOMAIN posted : posted[i].to # Call'
    BY <1>1, <1>2, <1>3
  <2>5. Sent'
    BY <1>1, <2>1, <2>3, <2>4 DEF Sent
  <2>6. \A i \in DOMAIN received : ~OwnEnd(received[i])
    BY <2>1, <2>3 DEF Sent, OwnEnd
  <2>7. EndIsLast'
    BY <1>1, <2>4, <2>6 DEF EndIsLast
  <2> QED
    BY <2>2, <2>5, <2>7
<1> QED
  BY <1>4, <1>5, <1>6, <1>7 DEF VoiceInv, OnlyItsOwn

LEMMA ConnectedSafe == ASSUME VoiceInv, Connected PROVE VoiceInv'
<1>1. /\ VoiceTypes /\ synthesis.pc = "connect" /\ client' = synthesis.connecting
      /\ GoesTo("register") /\ "register" \in VoicePcs
      /\ UNCHANGED <<connections, registered, posted, received, ttsClosed, interrupted>>
  BY DEF VoiceInv, Connected, VoicePcs
<1>2. /\ synthesis' \in [call : Nat, pc : VoicePcs, connecting : Nat, attempt : Nat]
      /\ Call' = Call /\ synthesis'.pc = "register"
  BY <1>1, GoesToFields
<1>3. OwesLess /\ connections' \in Seq(ConnectionRecords) /\ client' \in 0..Len(connections')
  BY <1>1 DEF OwesLess, VoiceTypes
<1> QED
  BY <1>1, <1>2, <1>3, ProceedsSafe DEF HasQueue

LEMMA ConnectFailsSafe == ASSUME VoiceInv, ConnectFails PROVE VoiceInv'
<1> DEFINE n == synthesis.connecting
           c == [connections[n] EXCEPT !.state = IF @ = "gone" THEN @ ELSE "closing"]
           left == [connections EXCEPT ![n] = c]
           new == [state |-> "opening", owes |-> <<>>]
<1>1. /\ VoiceTypes /\ synthesis.pc = "connect" /\ n \in DOMAIN connections
      /\ UNCHANGED <<client, posted, received, ttsClosed>>
  BY DEF VoiceInv, ConnectFails, VoiceTypes
<1>2. c \in ConnectionRecords /\ c.owes = connections[n].owes
  BY <1>1, ConnectionFields DEF ConnectionRecords
<1> HIDE DEF c
<1>3. /\ left \in Seq(ConnectionRecords) /\ Len(left) = Len(connections) /\ Len(connections) \in Nat
      /\ DOMAIN left = DOMAIN connections
      /\ \A m \in DOMAIN connections : left[m].owes = connections[m].owes
  BY <1>1, <1>2, ConnectionPut, ConnectionFields
<1>4. left = [connections EXCEPT ![n].state = IF @ = "gone" THEN @ ELSE "closing"]
  BY DEF c
<1> HIDE DEF left
<1>5. CASE synthesis.attempt # 1
  <2>1. connections' = left /\ LeavesSynthesis(FALSE)
    BY <1>4, <1>5 DEF ConnectFails
  <2> QED
    BY <1>1, <1>3, <2>1, GivesUpSafe
<1>6. CASE synthesis.attempt = 1
  <2>1. /\ connections' = Append(left, new)
        /\ synthesis' = [synthesis EXCEPT !.connecting = Len(connections) + 1, !.attempt = 2]
        /\ UNCHANGED <<registered, interrupted>>
    BY <1>4, <1>6 DEF ConnectFails
  <2>2. new \in ConnectionRecords /\ new.owes = <<>>
    BY DEF ConnectionRecords
  <2> HIDE DEF new
  <2>3. /\ connections' \in Seq(ConnectionRecords) /\ Len(connections') = Len(connections) + 1
        /\ OwesLess
    BY <1>3, <2>1, <2>2, AddedOwesLess
  <2>4. /\ synthesis' \in [call : Nat, pc : VoicePcs, connecting : Nat, attempt : Nat]
        /\ Call' = Call /\ synthesis'.pc = "connect" /\ synthesis'.connecting = Len(connections) + 1
    <3>1. synthesis \in [call : Nat, pc : VoicePcs, connecting : Nat, attempt : Nat]
      BY <1>1 DEF VoiceTypes
    <3> HIDE DEF n
    <3>2. Len(connections) + 1 \in Nat
      BY <1>3
    <3> QED
      BY <1>1, <2>1, <3>1, <3>2 DEF Call
  <2>5. client' \in 0..Len(connections') /\ synthesis'.connecting \in 1..Len(connections')
    BY <1>1, <1>3, <2>3, <2>4 DEF VoiceTypes
  <2> QED
    BY <1>1, <2>1, <2>3, <2>4, <2>5, ProceedsSafe DEF HasQueue
<1> QED
  BY <1>5, <1>6

LEMMA RegisterQueueSafe == ASSUME VoiceInv, RegisterQueue PROVE VoiceInv'
<1>1. /\ VoiceTypes /\ VoiceControl /\ OnlyItsOwn /\ synthesis.pc = "register"
      /\ UNCHANGED <<connections, client, posted, ttsClosed>>
  BY DEF VoiceInv, RegisterQueue
<1>2. CASE client = Nobody
  <2>1. LeavesSynthesis(FALSE) /\ UNCHANGED received
    BY <1>2 DEF RegisterQueue
  <2> QED
    BY <1>1, <2>1, GivesUpSafe DEF VoiceTypes
<1>3. CASE client # Nobody
  <2>1. /\ registered' = Call /\ received' = <<>> /\ GoesTo("clear") /\ UNCHANGED interrupted
        /\ "clear" \in VoicePcs
    BY <1>3 DEF RegisterQueue, VoicePcs
  <2>2. /\ synthesis' \in [call : Nat, pc : VoicePcs, connecting : Nat, attempt : Nat]
        /\ Call' = Call /\ synthesis'.pc = "clear"
    BY <1>1, <2>1, GoesToFields
  <2>3. VoiceTypes'
    BY <1>1, <2>1, <2>2 DEF VoiceTypes
  <2>4. VoiceControl' /\ EndComes'
    BY <1>1, <2>1, <2>2 DEF VoiceControl, HasQueue, EndComes
  <2>5. ASSUME ~interrupted' PROVE OwesTheReader' /\ Sent' /\ EndIsLast'
    <3>1. OwesTheReader /\ Sent /\ EndIsLast /\ Mine = {Nobody} /\ Mine' = {Nobody}
      BY <1>1, <2>1, <2>2, <2>5 DEF OnlyItsOwn, Mine
    <3>2. OwesTheReader'
      BY <1>1, <2>2, <3>1 DEF OwesTheReader
    <3>3. DOMAIN received' = {}
      BY <2>1
    <3>4. Sent'
      BY <1>1, <2>2, <3>1, <3>3 DEF Sent
    <3>5. EndIsLast'
      BY <1>1, <2>2, <3>1, <3>3 DEF EndIsLast, NothingOwed
    <3> QED
      BY <3>2, <3>4, <3>5
  <2> QED
    BY <2>3, <2>4, <2>5 DEF VoiceInv, OnlyItsOwn
<1> QED
  BY <1>2, <1>3

\* With the commit the response is owed.
LEMMA OwesMore ==
    ASSUME NEW q \in Seq(Nat), NEW e \in Nat
    PROVE  Append(q, e) \in Seq(Nat) /\ Append(q, e) # <<>> /\ (q = <<>> => Append(q, e) = <<e>>)
<1>1. Append(q, e) \in Seq(Nat) /\ Len(Append(q, e)) = Len(q) + 1 /\ Len(q) \in Nat
  OBVIOUS
<1>2. Append(q, e) # <<>>
  BY <1>1, EmptySeq
<1>3. Append(<<>>, e) = <<e>>
  OBVIOUS
<1> QED
  BY <1>1, <1>2, <1>3

LEMMA CommitsSafe ==
    ASSUME VoiceInv, synthesis.pc = "commit", client \in DOMAIN connections,
           connections[client].state = "open", GoesTo("read"),
           connections' = [connections EXCEPT ![client].owes = Append(@, Call)],
           UNCHANGED <<registered, interrupted, client, posted, received, ttsClosed>>
    PROVE  VoiceInv'
<1> DEFINE c == [connections[client] EXCEPT !.owes = Append(connections[client].owes, Call)]
<1>1. /\ VoiceTypes /\ VoiceControl /\ OnlyItsOwn /\ "read" \in VoicePcs /\ Call \in Nat
      /\ connections' = [connections EXCEPT ![client] = c]
  BY SynthesisFields DEF VoiceInv, VoicePcs
<1>2. /\ synthesis' \in [call : Nat, pc : VoicePcs, connecting : Nat, attempt : Nat]
      /\ Call' = Call /\ synthesis'.pc = "read"
  BY <1>1, GoesToFields
<1>3. /\ c \in ConnectionRecords /\ c.owes = Append(connections[client].owes, Call)
      /\ c.owes # <<>> /\ c.state = "open" /\ (connections[client].owes = <<>> => c.owes = <<Call>>)
  <2>1. /\ connections[client].owes \in Seq(Nat) /\ connections[client] \in ConnectionRecords
    BY <1>1, ConnectionFields
  <2>2. Append(connections[client].owes, Call) \in Seq(Nat) /\ Append(connections[client].owes, Call) # <<>>
    BY <1>1, <2>1, OwesMore
  <2>3. connections[client].owes = <<>> => Append(connections[client].owes, Call) = <<Call>>
    BY <1>1, <2>1, OwesMore
  <2> QED
    BY <2>1, <2>2, <2>3 DEF ConnectionRecords
<1> DEFINE new == [connections EXCEPT ![client] = c]
<1> HIDE DEF c
<1>9. /\ new \in Seq(ConnectionRecords) /\ Len(new) = Len(connections)
      /\ DOMAIN new = DOMAIN connections /\ new[client] = c
      /\ \A m \in DOMAIN connections : m # client => new[m] = connections[m]
  BY <1>1, <1>3, ConnectionPut
<1>10. connections' = new
  BY <1>1
<1> HIDE DEF new
<1>4. /\ connections' \in Seq(ConnectionRecords) /\ Len(connections') = Len(connections)
      /\ DOMAIN connections' = DOMAIN connections /\ connections'[client] = c
      /\ \A m \in DOMAIN connections : m # client => connections'[m] = connections[m]
  BY <1>9, <1>10
<1>5. VoiceTypes'
  BY <1>1, <1>2, <1>4 DEF VoiceTypes
<1>6. VoiceControl'
  BY <1>1, <1>2 DEF VoiceControl, HasQueue
<1>7. EndComes'
  BY <1>3, <1>4 DEF EndComes, Owing
<1>8. ASSUME ~interrupted' PROVE OwesTheReader' /\ Sent' /\ EndIsLast'
  <2>1. OwesTheReader /\ Sent /\ EndIsLast /\ Mine = {Nobody} /\ Mine' = {Call, Nobody}
    BY <1>1, <1>2, <1>8 DEF OnlyItsOwn, Mine
  <2>2. NothingOwed
    BY <2>1 DEF OwesTheReader, NothingOwed
  <2>3. c.owes = <<Call>>
    BY <1>3, <2>2 DEF NothingOwed
  <2>4. OwesTheReader'
    BY <1>2, <1>4, <2>2, <2>3 DEF OwesTheReader, NothingOwed
  <2>5. Sent'
    BY <1>2, <2>1 DEF Sent
  <2>6. /\ \A i \in DOMAIN received : ~OwnEnd(received[i])
        /\ \A i \in DOMAIN posted : posted[i].to = Call => ~OwnEnd(posted[i].item)
    BY <2>1 DEF Sent, OwnEnd
  <2>7. EndIsLast'
    BY <1>2, <2>6 DEF EndIsLast
  <2> QED
    BY <2>4, <2>5, <2>7
<1> QED
  BY <1>5, <1>6, <1>7, <1>8 DEF VoiceInv, OnlyItsOwn

LEMMA SendSafe == ASSUME VoiceInv, Send PROVE VoiceInv'
<1>1. /\ VoiceTypes /\ synthesis.pc \in {"clear", "append", "commit"}
      /\ UNCHANGED <<client, posted, received, ttsClosed>>
  BY DEF VoiceInv, Send
<1>2. CASE client = Nobody \/ connections[client].state # "open"
  <2>1. LeavesSynthesis(FALSE) /\ UNCHANGED connections
    BY <1>2 DEF Send
  <2> QED
    BY <1>1, <2>1, GivesUpSafe DEF VoiceTypes
<1>3. CASE ~(client = Nobody \/ connections[client].state # "open")
  <2>1. UNCHANGED <<registered, interrupted>> /\ client \in DOMAIN connections
    <3>1. client \in 0..Len(connections) /\ connections \in Seq(ConnectionRecords) /\ client # 0
      BY <1>1, <1>3 DEF VoiceTypes, Nobody
    <3> QED
      BY <1>3, <3>1 DEF Send
  <2>2. CASE synthesis.pc = "commit"
    BY <1>1, <1>3, <2>1, <2>2, CommitsSafe DEF Send
  <2>3. CASE synthesis.pc # "commit"
    <3>1. PICK pc \in {"append", "commit"} : GoesTo(pc)
      BY <1>1, <1>3, <2>3 DEF Send
    <3>2. pc \in VoicePcs /\ connections' = connections
      BY <1>3, <2>3 DEF Send, VoicePcs
    <3>3. /\ synthesis' \in [call : Nat, pc : VoicePcs, connecting : Nat, attempt : Nat]
          /\ Call' = Call /\ synthesis'.pc = pc
      BY <1>1, <3>1, <3>2, GoesToFields
    <3>4. OwesLess /\ connections' \in Seq(ConnectionRecords) /\ client' \in 0..Len(connections')
      BY <1>1, <3>2 DEF OwesLess, VoiceTypes
    <3> QED
      BY <1>1, <2>1, <2>3, <3>3, <3>4, ProceedsSafe DEF HasQueue
  <2> QED
    BY <2>2, <2>3
<1> QED
  BY <1>2, <1>3

LEMMA ReceivedFields ==
    ASSUME VoiceTypes, received # <<>>
    PROVE  /\ Tail(received) \in Seq(VoiceItems) /\ 1 \in DOMAIN received
           /\ Head(received) = received[1] /\ received[1] \in VoiceItems
           /\ \A i \in DOMAIN Tail(received) :
                i + 1 \in DOMAIN received /\ 1 < i + 1 /\ Tail(received)[i] = received[i + 1]
           /\ \A i, j \in DOMAIN Tail(received) : i < j => i + 1 < j + 1
           /\ \A i \in DOMAIN received : i # 1 => i - 1 \in DOMAIN Tail(received)
                                             /\ Tail(received)[i - 1] = received[i]
<1>1. /\ Tail(received) \in Seq(VoiceItems) /\ Len(Tail(received)) = Len(received) - 1
      /\ Len(received) \in Nat \ {0} /\ DOMAIN received = 1..Len(received)
      /\ \A i \in 1..(Len(received) - 1) : Tail(received)[i] = received[i + 1]
      /\ Head(received) = received[1] /\ Head(received) \in VoiceItems
  BY HeadTailProperties, EmptySeq DEF VoiceTypes
<1> DEFINE t == Tail(received)
           n == Len(received)
<1>2. DOMAIN t = 1..(n - 1)
  BY <1>1
<1> HIDE DEF t, n
<1>3. \A i \in DOMAIN t : i + 1 \in 1..n /\ 1 < i + 1 /\ t[i] = received[i + 1]
  BY <1>1, <1>2 DEF t, n
<1>4. \A i, j \in DOMAIN t : i < j => i + 1 < j + 1
  BY <1>2
<1>5. \A i \in 1..n : i # 1 => i - 1 \in DOMAIN t /\ (i - 1) + 1 = i
  BY <1>1, <1>2 DEF n
<1>6. \A i \in 1..n : i # 1 => t[i - 1] = received[i]
  BY <1>3, <1>5
<1> QED
  BY <1>1, <1>3, <1>4, <1>5, <1>6 DEF t, n

LEMMA ReadSafe == ASSUME VoiceInv, Read PROVE VoiceInv'
<1>1. /\ VoiceTypes /\ VoiceControl /\ OnlyItsOwn /\ EndComes /\ synthesis.pc = "read"
      /\ received # <<>> /\ received' = Tail(received)
      /\ UNCHANGED <<connections, client, posted, ttsClosed>> /\ Call \in Nat /\ Call # Nobody
  BY SynthesisFields DEF VoiceInv, Read, VoiceControl
<1>2. /\ received' \in Seq(VoiceItems) /\ 1 \in DOMAIN received
      /\ Head(received) = received[1] /\ received[1] \in VoiceItems
      /\ \A i \in DOMAIN received' :
           i + 1 \in DOMAIN received /\ 1 < i + 1 /\ received'[i] = received[i + 1]
      /\ \A i, j \in DOMAIN received' : i < j => i + 1 < j + 1
      /\ \A i \in DOMAIN received : i # 1 => i - 1 \in DOMAIN received' /\ received'[i - 1] = received[i]
  BY <1>1, ReceivedFields
<1>3. CASE Head(received).kind = "delta"
  <2>1. UNCHANGED <<synthesis, registered, interrupted>> /\ Call' = Call
    BY <1>3 DEF Read, Call
  <2>2. VoiceTypes' /\ VoiceControl'
    BY <1>1, <1>2, <2>1 DEF VoiceTypes, VoiceControl
  <2>3. EndComes'
    <3>1. (\E i \in DOMAIN received : Final(received[i])) => \E i \in DOMAIN received' : Final(received'[i])
      BY <1>2, <1>3 DEF Final
    <3> QED
      BY <1>1, <2>1, <3>1 DEF EndComes
  <2>4. ASSUME ~interrupted' PROVE OwesTheReader' /\ Sent' /\ EndIsLast'
    <3>1. OwesTheReader /\ Sent /\ EndIsLast /\ Mine' = Mine
      BY <1>1, <2>1, <2>4 DEF OnlyItsOwn, Mine
    <3>2. OwesTheReader' /\ Sent'
      BY <1>1, <1>2, <2>1, <3>1 DEF OwesTheReader, Sent
    <3>3. EndIsLast'
      BY <1>1, <1>2, <2>1, <3>1 DEF EndIsLast, NothingOwed
    <3> QED
      BY <3>1, <3>2, <3>3
  <2> QED
    BY <2>2, <2>3, <2>4 DEF VoiceInv, OnlyItsOwn
<1>4. CASE Head(received).kind # "delta"
  <2>1. /\ GoesTo("none") /\ "none" \in VoicePcs
        /\ registered' = IF registered = Call THEN Nobody ELSE registered
        /\ interrupted' = (interrupted \/ ~(Head(received) = [kind |-> "done", of |-> Call]))
    BY <1>4 DEF Read, LeavesSynthesis, VoicePcs
  <2>2. /\ synthesis' \in [call : Nat, pc : VoicePcs, connecting : Nat, attempt : Nat]
        /\ Call' = Call /\ synthesis'.pc = "none"
    BY <1>1, <2>1, GoesToFields
  <2>3. VoiceTypes'
    BY <1>1, <1>2, <2>1, <2>2 DEF VoiceTypes
  <2>4. VoiceControl' /\ EndComes'
    BY <1>1, <2>1, <2>2 DEF VoiceControl, HasQueue, EndComes
  <2>5. ASSUME ~interrupted' PROVE OwesTheReader' /\ Sent' /\ EndIsLast'
    <3>1. ~interrupted /\ received[1] = [kind |-> "done", of |-> Call]
      BY <1>2, <2>1, <2>5
    <3>2. OwesTheReader /\ Sent /\ EndIsLast /\ Mine' = {Nobody}
      BY <1>1, <2>2, <3>1 DEF OnlyItsOwn, Mine
    <3>3. OwnEnd(received[1])
      BY <1>1, <3>1 DEF OwnEnd
    <3>4. /\ \A j \in DOMAIN received : 1 < j => received[j].of = Nobody
          /\ \A j \in DOMAIN posted : posted[j].to = Call => posted[j].item.of = Nobody
          /\ NothingOwed
      BY <1>2, <3>2, <3>3 DEF EndIsLast
    <3>5. OwesTheReader'
      BY <1>1, <3>4 DEF OwesTheReader, NothingOwed
    <3>6. Sent'
      BY <1>1, <1>2, <2>2, <3>2, <3>4 DEF Sent
    <3>7. /\ \A i \in DOMAIN received' : ~OwnEnd(received'[i])
          /\ \A i \in DOMAIN posted : posted[i].to = Call => ~OwnEnd(posted[i].item)
      BY <1>1, <1>2, <3>4 DEF OwnEnd
    <3>8. EndIsLast'
      BY <1>1, <2>2, <3>7 DEF EndIsLast
    <3> QED
      BY <3>5, <3>6, <3>8
  <2> QED
    BY <2>3, <2>4, <2>5 DEF VoiceInv, OnlyItsOwn
<1> QED
  BY <1>3, <1>4

LEMMA AbandonSafe == ASSUME VoiceInv, Abandon PROVE VoiceInv'
<1>1. LeavesSynthesis(FALSE) /\ UNCHANGED <<connections, client, posted, received, ttsClosed>>
  BY DEF Abandon
<1> QED
  BY <1>1, GivesUpSafe DEF VoiceInv, VoiceTypes

\* Where one connection changes and owes what it owed, or nothing.
LEMMA ConnectionMoves ==
    ASSUME VoiceInv, NEW n \in DOMAIN connections, NEW c \in ConnectionRecords,
           c.owes = <<>> \/ c.owes = connections[n].owes, connections' = [connections EXCEPT ![n] = c]
    PROVE  /\ connections' \in Seq(ConnectionRecords) /\ Len(connections') = Len(connections)
           /\ Len(connections) \in Nat /\ DOMAIN connections' = DOMAIN connections /\ connections'[n] = c
           /\ \A m \in DOMAIN connections : m # n => connections'[m] = connections[m]
           /\ OwesLess
<1>1. /\ connections' \in Seq(ConnectionRecords) /\ Len(connections') = Len(connections)
      /\ DOMAIN connections' = DOMAIN connections /\ connections'[n] = c
      /\ \A m \in DOMAIN connections : m # n => connections'[m] = connections[m]
  BY ConnectionPut DEF VoiceInv
<1>2. OwesLess
  BY <1>1 DEF OwesLess
<1> QED
  BY <1>1, <1>2, ConnectionFields DEF VoiceInv

LEMMA CloseTTSSafe == ASSUME VoiceInv, CloseTTS PROVE VoiceInv'
<1>1. /\ VoiceTypes /\ VoiceControl /\ OnlyItsOwn /\ ttsClosed' = TRUE
      /\ client' = Nobody /\ registered' = Nobody
      /\ UNCHANGED <<synthesis, posted, received, interrupted>>
  BY DEF VoiceInv, CloseTTS
<1>2. /\ connections' \in Seq(ConnectionRecords) /\ Len(connections') = Len(connections)
      /\ OwesLess /\ Len(connections) \in Nat
  <2>1. CASE client # Nobody /\ connections[client].state = "open"
    <3> DEFINE c == [connections[client] EXCEPT !.state = "closing"]
    <3>1. client \in DOMAIN connections
      <4>1. client \in 0..Len(connections) /\ connections \in Seq(ConnectionRecords) /\ client # 0
        BY <1>1, <2>1 DEF VoiceTypes, Nobody
      <4> QED
        BY <4>1
    <3>2. c \in ConnectionRecords /\ c.owes = connections[client].owes
      BY <1>1, <3>1, ConnectionFields DEF ConnectionRecords
    <3>3. connections' = [connections EXCEPT ![client] = c]
      BY <2>1 DEF CloseTTS
    <3> QED
      BY <3>1, <3>2, <3>3, ConnectionMoves
  <2>2. CASE ~(client # Nobody /\ connections[client].state = "open")
    BY <1>1, <2>2 DEF CloseTTS, VoiceTypes, OwesLess
  <2> QED
    BY <2>1, <2>2
<1>3. Call' = Call
  BY <1>1 DEF Call
<1>4. VoiceTypes'
  BY <1>1, <1>2, <1>3 DEF VoiceTypes, Nobody
<1>5. VoiceControl' /\ EndComes'
  BY <1>1, <1>3 DEF VoiceControl, EndComes
<1>6. OnlyItsOwn'
  BY <1>1, <1>2, <1>3, OwesLessOwn
<1> QED
  BY <1>4, <1>5, <1>6 DEF VoiceInv

LEMMA OpensSafe ==
    ASSUME VoiceInv, NEW n \in DOMAIN connections, Opens(n) PROVE VoiceInv'
<1> DEFINE c == [connections[n] EXCEPT !.state = "open"]
<1>1. /\ VoiceTypes /\ VoiceControl /\ OnlyItsOwn /\ EndComes
      /\ connections[n].state = "opening" /\ connections' = [connections EXCEPT ![n] = c]
      /\ UNCHANGED <<synthesis, client, registered, posted, received, ttsClosed, interrupted>>
  BY DEF VoiceInv, Opens
<1>2. c \in ConnectionRecords /\ c.owes = connections[n].owes /\ c.state = "open"
  BY <1>1, ConnectionFields DEF ConnectionRecords
<1> HIDE DEF c
<1>3. /\ connections' \in Seq(ConnectionRecords) /\ Len(connections') = Len(connections)
      /\ Len(connections) \in Nat /\ DOMAIN connections' = DOMAIN connections /\ connections'[n] = c
      /\ \A m \in DOMAIN connections : m # n => connections'[m] = connections[m]
      /\ OwesLess
  BY <1>1, <1>2, ConnectionMoves
<1>4. Call' = Call
  BY <1>1 DEF Call
<1>5. VoiceTypes'
  BY <1>1, <1>3, <1>4 DEF VoiceTypes
<1>6. VoiceControl'
  BY <1>1, <1>4 DEF VoiceControl
<1>7. EndComes'
  <2>1. \A m \in DOMAIN connections : Owing(connections[m]) => Owing(connections'[m])
    BY <1>1, <1>3 DEF Owing
  <2> QED
    BY <1>1, <1>3, <1>4, <2>1 DEF EndComes
<1>8. OnlyItsOwn'
  BY <1>1, <1>3, <1>4, OwesLessOwn
<1> QED
  BY <1>5, <1>6, <1>7, <1>8 DEF VoiceInv

LEMMA PostsFields ==
    ASSUME VoiceTypes, NEW item \in VoiceItems, Posts(item), registered \in {Nobody, Call}
    PROVE  /\ posted' \in Seq(PostedRecords)
           /\ DOMAIN posted \subseteq DOMAIN posted'
           /\ \A i \in DOMAIN posted : posted'[i] = posted[i]
           /\ \A i \in DOMAIN posted' :
                i \notin DOMAIN posted => /\ posted'[i].to = Call /\ posted'[i].item = item
                                          /\ \A j \in DOMAIN posted' : ~(i < j)
           /\ registered # Nobody => \E i \in DOMAIN posted' : posted'[i].to = Call /\ posted'[i].item = item
<1> DEFINE e == [to |-> registered, item |-> item]
<1>1. posted \in Seq(PostedRecords) /\ Call \in Nat
  BY SynthesisFields DEF VoiceTypes
<1>2. CASE registered = Nobody
  BY <1>1, <1>2 DEF Posts
<1>3. CASE registered # Nobody
  <2>1. posted' = Append(posted, e) /\ registered = Call
    BY <1>3 DEF Posts
  <2>2. e \in PostedRecords /\ e.to = Call /\ e.item = item
    BY <1>1, <2>1 DEF PostedRecords
  <2> HIDE DEF e
  <2>3. /\ posted' \in Seq(PostedRecords) /\ Len(posted) \in Nat
        /\ DOMAIN posted = 1..Len(posted) /\ DOMAIN posted' = 1..(Len(posted) + 1)
        /\ posted'[Len(posted) + 1] = e
        /\ \A i \in 1..Len(posted) : posted'[i] = posted[i]
    BY <1>1, <2>1, <2>2
  <2>4. \A i \in DOMAIN posted' : i \notin DOMAIN posted =>
           i = Len(posted) + 1 /\ \A j \in DOMAIN posted' : ~(i < j)
    BY <2>3
  <2> QED
    BY <2>2, <2>3, <2>4
<1> QED
  BY <1>2, <1>3

\* A callback: what it posts, if anything, goes behind the rest.
LEMMA CallsBackSafe ==
    ASSUME VoiceInv, NEW item \in VoiceItems, Posts(item), ~interrupted => OwesLess,
           connections' \in Seq(ConnectionRecords), Len(connections') = Len(connections),
           client' \in {Nobody, client},
           UNCHANGED <<synthesis, registered, received, ttsClosed, interrupted>>,
           \/ Final(item)
           \/ \A n \in DOMAIN connections : n \in DOMAIN connections' /\ connections'[n] = connections[n],
           ~interrupted => \/ item.of = Nobody
                           \/ synthesis.pc = "read" /\ item.of = Call /\ ~NothingOwed
                              /\ (OwnEnd(item) => NothingOwed')
    PROVE  VoiceInv'
<1>1. VoiceTypes /\ VoiceControl /\ OnlyItsOwn /\ EndComes /\ Call' = Call
  BY DEF VoiceInv, Call
<1>2. /\ posted' \in Seq(PostedRecords)
      /\ DOMAIN posted \subseteq DOMAIN posted'
      /\ \A i \in DOMAIN posted : posted'[i] = posted[i]
      /\ \A i \in DOMAIN posted' :
           i \notin DOMAIN posted => /\ posted'[i].to = Call /\ posted'[i].item = item
                                     /\ \A j \in DOMAIN posted' : ~(i < j)
      /\ registered # Nobody => \E i \in DOMAIN posted' : posted'[i].to = Call /\ posted'[i].item = item
  BY <1>1, PostsFields DEF VoiceControl
<1>3. \A i \in DOMAIN posted' : posted'[i].to <= Call
  <2>1. Call \in Nat /\ \A i \in DOMAIN posted : posted[i].to <= Call
    BY <1>1, SynthesisFields DEF VoiceTypes
  <2> QED
    BY <1>2, <2>1
<1>4. VoiceTypes'
  <2>1. Nobody \in 0..Len(connections) /\ client \in 0..Len(connections)
    BY <1>1 DEF VoiceTypes, Nobody
  <2> QED
    BY <1>1, <1>2, <1>3, <2>1 DEF VoiceTypes
<1>5. VoiceControl'
  BY <1>1 DEF VoiceControl
<1>6. EndComes'
  <2> SUFFICES ASSUME synthesis.pc = "read", ~ttsClosed PROVE EndComes'
    BY DEF EndComes
  <2>1. registered # Nobody
    BY <1>1 DEF VoiceControl, HasQueue
  <2>2. CASE Final(item)
    BY <1>1, <1>2, <2>1, <2>2 DEF EndComes
  <2>3. CASE \A n \in DOMAIN connections : n \in DOMAIN connections' /\ connections'[n] = connections[n]
    BY <1>1, <1>2, <2>3 DEF EndComes
  <2> QED
    BY <2>2, <2>3
<1>7. ASSUME ~interrupted' PROVE OwesTheReader' /\ Sent' /\ EndIsLast'
  <2>1. OwesTheReader /\ Sent /\ EndIsLast /\ Mine' = Mine
    BY <1>1, <1>7 DEF OnlyItsOwn, Mine
  <2>2. OwesTheReader'
    BY <1>1, <1>7, <2>1 DEF OwesTheReader, OwesLess
  <2>3. NothingOwed => NothingOwed'
    BY <1>7 DEF NothingOwed, OwesLess
  <2>4. item.of \in Mine
    BY <1>7 DEF Mine
  <2>5. Sent'
    BY <1>1, <1>2, <2>1, <2>4 DEF Sent
  <2>6. OwnEnd(item) => NothingOwed'
    BY <1>7 DEF OwnEnd
  <2>7. NothingOwed => item.of = Nobody
    BY <1>7
  <2>8. ASSUME NEW i \in DOMAIN received, OwnEnd(received[i])
        PROVE  /\ \A j \in DOMAIN received : i < j => received[j].of = Nobody
               /\ \A j \in DOMAIN posted' : posted'[j].to = Call => posted'[j].item.of = Nobody
               /\ NothingOwed'
    <3>1. /\ \A j \in DOMAIN received : i < j => received[j].of = Nobody
          /\ \A j \in DOMAIN posted : posted[j].to = Call => posted[j].item.of = Nobody
          /\ NothingOwed
      BY <2>1, <2>8 DEF EndIsLast
    <3> QED
      BY <1>2, <2>3, <2>7, <3>1
  <2>9. ASSUME NEW i \in DOMAIN posted', posted'[i].to = Call, OwnEnd(posted'[i].item)
        PROVE  /\ \A j \in DOMAIN posted' : i < j /\ posted'[j].to = Call => posted'[j].item.of = Nobody
               /\ NothingOwed'
    <3>1. CASE i \in DOMAIN posted
      <4>1. /\ \A j \in DOMAIN posted : i < j /\ posted[j].to = Call => posted[j].item.of = Nobody
            /\ NothingOwed
        BY <1>2, <2>1, <2>9, <3>1 DEF EndIsLast
      <4> QED
        BY <1>2, <2>3, <2>7, <4>1
    <3>2. CASE i \notin DOMAIN posted
      BY <1>2, <2>6, <2>9, <3>2
    <3> QED
      BY <3>1, <3>2
  <2>10. EndIsLast'
    BY <1>1, <2>8, <2>9 DEF EndIsLast
  <2> QED
    BY <2>2, <2>5, <2>10
<1> QED
  BY <1>4, <1>5, <1>6, <1>7 DEF VoiceInv, OnlyItsOwn

LEMMA RespondsSafe ==
    ASSUME VoiceInv, NEW n \in DOMAIN connections, Responds(n) PROVE VoiceInv'
<1> DEFINE q == connections[n].owes
           c == [connections[n] EXCEPT !.owes = Tail(q)]
           of == Head(q)
<1>1. /\ VoiceTypes /\ OnlyItsOwn /\ q # <<>> /\ q \in Seq(Nat) /\ connections[n] \in ConnectionRecords
      /\ UNCHANGED <<synthesis, client, registered, received, ttsClosed, interrupted>>
  BY ConnectionFields DEF VoiceInv, Responds
<1>2. of \in Nat /\ Tail(q) \in Seq(Nat)
  BY <1>1, HeadTailProperties
<1>3. ASSUME ~interrupted
      PROVE  /\ synthesis.pc = "read" /\ of = Call /\ ~NothingOwed /\ Tail(q) = <<>>
             /\ \A m \in DOMAIN connections : m # n => connections[m].owes = <<>>
  <2>1. OwesTheReader
    BY <1>1, <1>3 DEF OnlyItsOwn
  <2>2. q = <<Call>> /\ synthesis.pc = "read"
    BY <1>1, <2>1 DEF OwesTheReader
  <2>3. Head(<<Call>>) = Call /\ Tail(<<Call>>) = <<>>
    OBVIOUS
  <2> QED
    BY <1>1, <2>1, <2>2, <2>3 DEF OwesTheReader, NothingOwed
<1>4. CASE Posts([kind |-> "delta", of |-> of]) /\ UNCHANGED connections
  <2> DEFINE item == [kind |-> "delta", of |-> of]
  <2>1. item \in VoiceItems /\ item.of = of /\ ~OwnEnd(item) /\ Posts(item)
    BY <1>2, <1>4 DEF VoiceItems, OwnEnd
  <2> HIDE DEF item, of
  <2>2. OwesLess /\ connections' \in Seq(ConnectionRecords) /\ Len(connections') = Len(connections)
    BY <1>1, <1>4 DEF OwesLess, VoiceTypes
  <2> QED
    BY <1>1, <1>3, <1>4, <2>1, <2>2, CallsBackSafe
<1>5. CASE /\ Posts([kind |-> "done", of |-> of])
           /\ connections' = [connections EXCEPT ![n].owes = Tail(@)]
  <2> DEFINE item == [kind |-> "done", of |-> of]
             new == [connections EXCEPT ![n] = c]
  <2>1. item \in VoiceItems /\ item.of = of /\ Final(item) /\ Posts(item)
    BY <1>2, <1>5 DEF VoiceItems, Final
  <2>2. c \in ConnectionRecords /\ c.owes = Tail(q) /\ connections' = new
    BY <1>1, <1>2, <1>5 DEF ConnectionRecords
  <2> HIDE DEF item, of, c
  <2>3. /\ new \in Seq(ConnectionRecords) /\ Len(new) = Len(connections)
        /\ DOMAIN new = DOMAIN connections /\ new[n] = c
        /\ \A m \in DOMAIN connections : m # n => new[m] = connections[m]
    BY <1>1, <2>2, ConnectionPut
  <2>4. /\ connections' \in Seq(ConnectionRecords) /\ Len(connections') = Len(connections)
        /\ DOMAIN connections' = DOMAIN connections /\ connections'[n] = c
        /\ \A m \in DOMAIN connections : m # n => connections'[m] = connections[m]
    BY <2>2, <2>3
  <2>5. ~interrupted => NothingOwed' /\ OwesLess
    BY <1>3, <2>2, <2>4 DEF NothingOwed, OwesLess
  <2> QED
    BY <1>1, <1>3, <2>1, <2>4, <2>5, CallsBackSafe
<1> QED
  BY <1>4, <1>5 DEF Responds

LEMMA OnCloseSafe ==
    ASSUME VoiceInv, NEW n \in DOMAIN connections, OnClose(n) PROVE VoiceInv'
<1> DEFINE c == [state |-> "gone", owes |-> <<>>]
           item == [kind |-> "error", of |-> Nobody]
<1>1. /\ connections' = [connections EXCEPT ![n] = c] /\ client' = Nobody /\ Posts(item)
      /\ UNCHANGED <<synthesis, registered, received, ttsClosed, interrupted>>
  BY DEF OnClose
<1>2. c \in ConnectionRecords /\ c.owes = <<>>
  BY DEF ConnectionRecords
<1>3. item \in VoiceItems /\ item.of = Nobody /\ Final(item)
  BY DEF VoiceItems, Nobody, Final
<1> HIDE DEF c, item
<1>4. OwesLess /\ connections' \in Seq(ConnectionRecords) /\ Len(connections') = Len(connections)
  BY <1>1, <1>2, ConnectionMoves
<1> QED
  BY <1>1, <1>3, <1>4, CallsBackSafe

LEMMA PostedHead ==
    ASSUME VoiceTypes, posted # <<>>
    PROVE  /\ Tail(posted) \in Seq(PostedRecords) /\ 1 \in DOMAIN posted /\ Head(posted) = posted[1]
           /\ \A i \in DOMAIN Tail(posted) :
                i + 1 \in DOMAIN posted /\ 1 < i + 1 /\ Tail(posted)[i] = posted[i + 1]
           /\ \A i, j \in DOMAIN Tail(posted) : i < j => i + 1 < j + 1
           /\ \A i \in DOMAIN posted : i # 1 => i - 1 \in DOMAIN Tail(posted)
                                           /\ Tail(posted)[i - 1] = posted[i]
<1>1. /\ Tail(posted) \in Seq(PostedRecords) /\ Len(Tail(posted)) = Len(posted) - 1
      /\ Len(posted) \in Nat \ {0} /\ DOMAIN posted = 1..Len(posted)
      /\ \A i \in 1..(Len(posted) - 1) : Tail(posted)[i] = posted[i + 1]
      /\ Head(posted) = posted[1]
  BY HeadTailProperties, EmptySeq DEF VoiceTypes
<1> DEFINE t == Tail(posted)
           n == Len(posted)
<1>2. DOMAIN t = 1..(n - 1)
  BY <1>1
<1> HIDE DEF t, n
<1>3. \A i \in DOMAIN t : i + 1 \in 1..n /\ 1 < i + 1 /\ t[i] = posted[i + 1]
  BY <1>1, <1>2 DEF t, n
<1>4. \A i, j \in DOMAIN t : i < j => i + 1 < j + 1
  BY <1>2
<1>5. \A i \in 1..n : i # 1 => i - 1 \in DOMAIN t /\ (i - 1) + 1 = i
  BY <1>1, <1>2 DEF n
<1>6. \A i \in 1..n : i # 1 => t[i - 1] = posted[i]
  BY <1>3, <1>5
<1> QED
  BY <1>1, <1>3, <1>4, <1>5, <1>6 DEF t, n

LEMMA DeliverSafe == ASSUME VoiceInv, Deliver PROVE VoiceInv'
<1> DEFINE item == Head(posted).item
<1>1. /\ VoiceTypes /\ VoiceControl /\ OnlyItsOwn /\ EndComes /\ posted # <<>>
      /\ posted' = Tail(posted) /\ Call' = Call /\ received \in Seq(VoiceItems)
      /\ UNCHANGED <<synthesis, connections, client, registered, ttsClosed, interrupted>>
  BY DEF VoiceInv, Deliver, Call, VoiceTypes
<1>2. /\ posted' \in Seq(PostedRecords) /\ 1 \in DOMAIN posted /\ Head(posted) = posted[1]
      /\ \A i \in DOMAIN posted' : i + 1 \in DOMAIN posted /\ 1 < i + 1 /\ posted'[i] = posted[i + 1]
      /\ \A i, j \in DOMAIN posted' : i < j => i + 1 < j + 1
      /\ \A i \in DOMAIN posted : i # 1 => i - 1 \in DOMAIN posted' /\ posted'[i - 1] = posted[i]
  BY <1>1, PostedHead
<1>3. item = posted[1].item /\ item \in VoiceItems
  BY <1>1, <1>2, PostedFields
<1>4. CASE posted[1].to = Call /\ synthesis.pc # "none"
  <2>1. /\ received' = Append(received, item)
    BY <1>2, <1>4 DEF Deliver
  <2> HIDE DEF item
  <2>2. /\ received' \in Seq(VoiceItems) /\ Len(received) \in Nat
        /\ DOMAIN received = 1..Len(received) /\ DOMAIN received' = 1..(Len(received) + 1)
        /\ received'[Len(received) + 1] = item
        /\ \A i \in 1..Len(received) : received'[i] = received[i]
    BY <1>1, <1>3, <2>1
  <2>3. /\ \A i \in DOMAIN received : i \in DOMAIN received' /\ received'[i] = received[i]
        /\ \A i \in DOMAIN received' : i \notin DOMAIN received =>
              received'[i] = item /\ \A j \in DOMAIN received' : ~(i < j)
        /\ \E i \in DOMAIN received' : received'[i] = item
    BY <2>2
  <2>4. VoiceTypes'
    BY <1>1, <1>2, <2>2 DEF VoiceTypes
  <2>5. VoiceControl'
    BY <1>1 DEF VoiceControl
  <2>6. EndComes'
    <3>1. \A i \in DOMAIN posted : posted[i].to = Call /\ Final(posted[i].item) =>
             \/ \E k \in DOMAIN posted' : posted'[k].to = Call /\ Final(posted'[k].item)
             \/ \E k \in DOMAIN received' : Final(received'[k])
      BY <1>2, <1>3, <2>3
    <3>2. (\E i \in DOMAIN received : Final(received[i])) => \E i \in DOMAIN received' : Final(received'[i])
      BY <2>3
    <3> QED
      BY <1>1, <3>1, <3>2 DEF EndComes
  <2>7. ASSUME ~interrupted' PROVE OwesTheReader' /\ Sent' /\ EndIsLast'
    <3>1. OwesTheReader /\ Sent /\ EndIsLast /\ Mine' = Mine
      BY <1>1, <2>7 DEF OnlyItsOwn, Mine
    <3>2. item.of \in Mine
      BY <1>2, <1>3, <1>4, <3>1 DEF Sent
    <3>3. OwesTheReader' /\ Sent'
      BY <1>1, <1>2, <2>3, <3>1, <3>2 DEF OwesTheReader, Sent
    <3>4. OwnEnd(item) => /\ \A j \in DOMAIN posted : 1 < j /\ posted[j].to = Call => posted[j].item.of = Nobody
                          /\ NothingOwed
      BY <1>2, <1>3, <1>4, <3>1 DEF EndIsLast
    <3>5. ASSUME NEW i \in DOMAIN received', OwnEnd(received'[i])
          PROVE  /\ \A j \in DOMAIN received' : i < j => received'[j].of = Nobody
                 /\ \A j \in DOMAIN posted' : posted'[j].to = Call => posted'[j].item.of = Nobody
                 /\ NothingOwed
      <4>1. CASE i \in DOMAIN received
        <5>1. /\ \A j \in DOMAIN received : i < j => received[j].of = Nobody
              /\ \A j \in DOMAIN posted : posted[j].to = Call => posted[j].item.of = Nobody
              /\ NothingOwed
          BY <2>3, <3>1, <3>5, <4>1 DEF EndIsLast
        <5>2. item.of = Nobody
          BY <1>2, <1>3, <1>4, <5>1
        <5> QED
          BY <1>2, <2>3, <5>1, <5>2
      <4>2. CASE i \notin DOMAIN received
        BY <1>2, <2>3, <3>4, <3>5, <4>2
      <4> QED
        BY <4>1, <4>2
    <3>6. ASSUME NEW i \in DOMAIN posted', posted'[i].to = Call, OwnEnd(posted'[i].item)
          PROVE  /\ \A j \in DOMAIN posted' : i < j /\ posted'[j].to = Call => posted'[j].item.of = Nobody
                 /\ NothingOwed
      BY <1>2, <3>1, <3>6 DEF EndIsLast
    <3>7. EndIsLast'
      BY <1>1, <3>5, <3>6 DEF EndIsLast, NothingOwed
    <3> QED
      BY <3>3, <3>7
  <2> QED
    BY <2>4, <2>5, <2>6, <2>7 DEF VoiceInv, OnlyItsOwn
<1>5. CASE ~(posted[1].to = Call /\ synthesis.pc # "none")
  <2>1. received' = received
    BY <1>2, <1>5 DEF Deliver
  <2>2. VoiceTypes' /\ VoiceControl'
    BY <1>1, <1>2, <2>1 DEF VoiceTypes, VoiceControl
  <2>3. EndComes'
    <3> SUFFICES ASSUME synthesis.pc = "read", ~ttsClosed PROVE EndComes'
      BY <1>1 DEF EndComes
    <3>1. \A i \in DOMAIN posted : posted[i].to = Call => i # 1
      BY <1>5
    <3>2. (\E i \in DOMAIN posted : posted[i].to = Call /\ Final(posted[i].item))
            => \E i \in DOMAIN posted' : posted'[i].to = Call' /\ Final(posted'[i].item)
      <4>1. Call' = Call
        BY <1>1 DEF Call
      <4> QED
        BY <1>2, <3>1, <4>1
    <3>3. \/ \E i \in DOMAIN received : Final(received[i])
          \/ \E i \in DOMAIN posted : posted[i].to = Call /\ Final(posted[i].item)
          \/ \E n \in DOMAIN connections : Owing(connections[n])
      BY <1>1 DEF EndComes
    <3>4. /\ (\E i \in DOMAIN received : Final(received[i]))
               => \E i \in DOMAIN received' : Final(received'[i])
          /\ (\E n \in DOMAIN connections : Owing(connections[n]))
               => \E n \in DOMAIN connections' : Owing(connections'[n])
      BY <1>1, <2>1
    <3> QED
      BY Zenon, <3>2, <3>3, <3>4 DEF EndComes
  <2>4. ASSUME ~interrupted' PROVE OwesTheReader' /\ Sent' /\ EndIsLast'
    <3>1. OwesTheReader /\ Sent /\ EndIsLast /\ Mine' = Mine
      BY <1>1, <2>4 DEF OnlyItsOwn, Mine
    <3>2. OwesTheReader' /\ Sent'
      BY <1>1, <1>2, <2>1, <3>1 DEF OwesTheReader, Sent
    <3>3. EndIsLast'
      BY <1>1, <1>2, <2>1, <3>1 DEF EndIsLast, NothingOwed
    <3> QED
      BY <3>2, <3>3
  <2> QED
    BY <2>2, <2>3, <2>4 DEF VoiceInv, OnlyItsOwn
<1> QED
  BY <1>4, <1>5

LEMMA VoiceNextSafe == ASSUME VoiceInv, [TTSNext]_ttsVars PROVE VoiceInv'
<1>1. CASE UNCHANGED ttsVars
  BY <1>1 DEF ttsVars, VoiceInv, VoiceTypes, VoiceControl, EndComes, OnlyItsOwn, OwesTheReader, Sent,
     EndIsLast, NothingOwed, Mine, Call
<1> QED
  BY <1>1, SynthesizeSafe, ConnectedSafe, ConnectFailsSafe, RegisterQueueSafe, SendSafe, ReadSafe,
     AbandonSafe, CloseTTSSafe, OpensSafe, RespondsSafe, OnCloseSafe, DeliverSafe DEF TTSNext

LEMMA VoiceIsSound == VoiceInv => VoiceSound
<1> SUFFICES ASSUME VoiceInv PROVE VoiceSound
  OBVIOUS
<1>1. VoiceTypes /\ VoiceControl /\ EndComes /\ OnlyItsOwn
  BY DEF VoiceInv
<1>2. NeverDeaf
  <2> SUFFICES ASSUME synthesis.pc = "read", received = <<>>, ~ttsClosed,
                      \A i \in DOMAIN posted : posted[i].to # Call
               PROVE  /\ registered = Call
                      /\ \E n \in DOMAIN connections : Owing(connections[n])
    BY DEF NeverDeaf, Owing
  <2>1. DOMAIN received = {}
    OBVIOUS
  <2> QED
    BY <1>1, <2>1 DEF VoiceControl, EndComes, HasQueue
<1>3. OwnAudio
  BY <1>1 DEF OnlyItsOwn, Sent, Mine, OwnAudio
<1> QED
  BY <1>2, <1>3 DEF VoiceSound

\* tts/dashscope.py:65-132: whatever breaks, fails or is given up meanwhile, a call that
\* reads has audio or an end to come until close(), and, as long as every call has read its
\* response to the end, what it is given is its own.
THEOREM VoiceIsHeard == TTSSpec => []VoiceSound
<1> QED
  BY VoiceInitSafe, VoiceNextSafe, VoiceIsSound, PTL DEF TTSSpec

-----------------------------------------------------------------------------
\* The capture: what one recognition is given.

AsrRecords ==
    [queue : Seq(Nat), writer : {"none", "getting", "writing", "done", "failed"}, writing : Nat,
     sent : Seq(Nat), consumer : {"none", "reading", "closing", "done"}, committed : BOOLEAN]

EverythingOf(r) == ToSet(r.sent) \cup ToSet(r.queue) \cup {r.writing}

\* What was sent, what is being written and what waits are in order, up to high, and the
\* mark of the end is behind all of it.
RecordSound(r, high) ==
    /\ r \in AsrRecords
    /\ r.writer = "none" => r = NewAsr
    /\ r.writer = "writing" <=> r.writing # STOP
    /\ r.writer = "done" => r.queue = <<>>
    /\ r.committed => r.writer \in {"done", "failed"}
    /\ \A i \in DOMAIN r.queue : r.queue[i] = STOP => i = Len(r.queue)
    /\ Waits(r.queue, 0, high)
    /\ \A i \in DOMAIN r.sent : /\ r.sent[i] \in 1..high /\ Waits(r.queue, r.sent[i], high)
                                /\ r.writing # STOP => r.sent[i] < r.writing
    /\ \A i, j \in DOMAIN r.sent : i < j => r.sent[i] < r.sent[j]
    /\ r.writing # STOP => r.writing \in 1..high /\ Waits(r.queue, r.writing, high)

\* More may be put into its queue.
OpenRecord(r) ==
    r.writer \in {"getting", "writing", "failed"} /\ \A i \in DOMAIN r.queue : r.queue[i] # STOP

LEMMA WaitsLater ==
    ASSUME NEW q \in Seq(Nat), NEW low \in Nat, NEW high \in Nat, Waits(q, low, high)
    PROVE  Waits(q, low, high + 1)
<1>1. \A i \in DOMAIN q : q[i] \in Nat
  OBVIOUS
<1> QED
  BY <1>1 DEF Waits

LEMMA AsrFields ==
    ASSUME NEW r \in AsrRecords
    PROVE  /\ r.queue \in Seq(Nat) /\ r.writing \in Nat /\ r.sent \in Seq(Nat) /\ r.committed \in BOOLEAN
           /\ r.writer \in {"none", "getting", "writing", "done", "failed"}
           /\ r.consumer \in {"none", "reading", "closing", "done"}
BY DEF AsrRecords

\* What a full queue gives up is counted, and the rest stays in its order.
LEMMA GivesUpOldest ==
    ASSUME NEW q \in Seq(Nat)
    PROVE  LET p == IF Len(q) = AsrSize THEN Tail(q) ELSE q IN
           /\ p \in Seq(Nat) /\ ToSet(p) \subseteq ToSet(q)
           /\ ToSet(q) \subseteq ToSet(p) \cup Dropped(q) \cup {STOP}
           /\ (\A i \in DOMAIN q : q[i] # STOP) => (\A i \in DOMAIN p : p[i] # STOP)
           /\ \A low, high \in Nat : Waits(q, low, high) => Waits(p, low, high)
<1>1. CASE Len(q) # AsrSize
  BY <1>1
<1>2. CASE Len(q) = AsrSize
  <2>1. q # <<>>
    BY <1>2, CaptureAssumption
  <2>2. /\ Tail(q) \in Seq(Nat) /\ Len(Tail(q)) = Len(q) - 1 /\ Len(q) \in Nat \ {0}
        /\ Head(q) = q[1] /\ DOMAIN q = 1..Len(q)
        /\ \A i \in 1..(Len(q) - 1) : Tail(q)[i] = q[i + 1]
    BY <2>1, HeadTailProperties, EmptySeq
  <2> DEFINE t == Tail(q)
  <2>3. DOMAIN t = 1..(Len(q) - 1)
    BY <2>2
  <2> HIDE DEF t
  <2>4. \A i \in DOMAIN t : i + 1 \in DOMAIN q /\ t[i] = q[i + 1]
    BY <2>2, <2>3 DEF t
  <2>5. \A i \in DOMAIN q : i # 1 => i - 1 \in DOMAIN t /\ t[i - 1] = q[i]
    <3> SUFFICES ASSUME NEW i \in DOMAIN q, i # 1 PROVE i - 1 \in DOMAIN t /\ t[i - 1] = q[i]
      OBVIOUS
    <3>1. i - 1 \in DOMAIN t /\ (i - 1) + 1 = i
      BY <2>2, <2>3
    <3> QED
      BY <2>4, <3>1
  <2>6. ToSet(t) \subseteq ToSet(q)
    BY <2>4 DEF ToSet
  <2>7. ToSet(q) \subseteq ToSet(t) \cup Dropped(q) \cup {STOP}
    BY <1>2, <2>2, <2>5 DEF ToSet, Dropped
  <2>8. (\A i \in DOMAIN q : q[i] # STOP) => (\A i \in DOMAIN t : t[i] # STOP)
    BY <2>4
  <2>9. \A low, high \in Nat : Waits(q, low, high) => Waits(t, low, high)
    BY <2>1, WaitsTail DEF t
  <2> QED
    BY <1>2, <2>2, <2>6, <2>7, <2>8, <2>9 DEF t
<1> QED
  BY <1>1, <1>2

LEMMA AppendSet ==
    ASSUME NEW q \in Seq(Nat), NEW e \in Nat
    PROVE  /\ Append(q, e) \in Seq(Nat) /\ ToSet(Append(q, e)) = ToSet(q) \cup {e}
           /\ Len(Append(q, e)) = Len(q) + 1 /\ Len(q) \in Nat
           /\ DOMAIN q = 1..Len(q) /\ DOMAIN Append(q, e) = 1..(Len(q) + 1)
           /\ \A i \in DOMAIN q : Append(q, e)[i] = q[i]
           /\ Append(q, e)[Len(q) + 1] = e
<1> DEFINE z == Append(q, e)
<1>1. /\ z \in Seq(Nat) /\ Len(z) = Len(q) + 1 /\ Len(q) \in Nat /\ DOMAIN q = 1..Len(q)
      /\ DOMAIN z = 1..(Len(q) + 1) /\ \A i \in 1..Len(q) : z[i] = q[i]
      /\ z[Len(q) + 1] = e
  OBVIOUS
<1> HIDE DEF z
<1>2. DOMAIN z = DOMAIN q \cup {Len(q) + 1}
  BY <1>1
<1>3. ToSet(z) = ToSet(q) \cup {e}
  BY <1>1, <1>2 DEF ToSet
<1> QED
  BY <1>1, <1>3 DEF z

\* _enqueue_asr of a frame, and of _STOP, into the queue of a turn under way.
LEMMA FrameEnqueued ==
    ASSUME NEW r, NEW high \in Nat, RecordSound(r, high), OpenRecord(r),
           NEW z \in AsrRecords, z.queue = Enqueued(r.queue, high + 1), z.sent = r.sent,
           z.writing = r.writing, z.writer = r.writer, z.committed = r.committed
    PROVE  /\ RecordSound(z, high + 1) /\ OpenRecord(z)
           /\ z.sent = r.sent /\ z.writing = r.writing /\ z.writer = r.writer
           /\ high + 1 \in EverythingOf(z)
           /\ EverythingOf(z) \subseteq EverythingOf(r) \cup {high + 1}
           /\ EverythingOf(r) \subseteq EverythingOf(z) \cup Dropped(r.queue) \cup {STOP}
<1> DEFINE q == r.queue
           p == IF Len(q) = AsrSize THEN Tail(q) ELSE q
           n == Enqueued(q, high + 1)
<1>1. /\ r \in AsrRecords /\ q \in Seq(Nat) /\ \A i \in DOMAIN q : q[i] # STOP
      /\ r.writing \in Nat /\ r.sent \in Seq(Nat) /\ r.writer \in {"getting", "writing", "failed"}
  BY AsrFields DEF RecordSound, OpenRecord
<1>2. /\ p \in Seq(Nat) /\ ToSet(p) \subseteq ToSet(q)
      /\ ToSet(q) \subseteq ToSet(p) \cup Dropped(q) \cup {STOP}
      /\ \A i \in DOMAIN p : p[i] # STOP
      /\ \A low, h \in Nat : Waits(q, low, h) => Waits(p, low, h)
  BY <1>1, GivesUpOldest
<1>3. n = Append(p, high + 1)
  BY DEF Enqueued
<1> HIDE DEF p, n
<1>4. /\ n \in Seq(Nat) /\ ToSet(n) = ToSet(p) \cup {high + 1} /\ DOMAIN n = 1..(Len(p) + 1)
      /\ Len(p) \in Nat /\ DOMAIN p = 1..Len(p) /\ n[Len(p) + 1] = high + 1
      /\ \A i \in DOMAIN p : n[i] = p[i]
  BY <1>2, <1>3, AppendSet
<1>5. \A i \in DOMAIN n : n[i] # STOP
  BY <1>2, <1>4 DEF STOP
<1>6. /\ z.queue = n /\ z.sent = r.sent /\ z.writing = r.writing /\ z.writer = r.writer
      /\ z.committed = r.committed /\ z \in AsrRecords
  BY DEF n
<1>7. ASSUME NEW low \in Nat, low <= high, Waits(q, low, high) PROVE Waits(n, low, high + 1)
  BY <1>2, <1>3, <1>7, WaitsAppend
<1>8. ASSUME NEW i \in DOMAIN r.sent
      PROVE  /\ r.sent[i] \in 1..(high + 1) /\ Waits(n, r.sent[i], high + 1)
             /\ r.writing # STOP => r.sent[i] < r.writing
  <2>1. /\ r.sent[i] \in 1..high /\ Waits(q, r.sent[i], high)
        /\ r.writing # STOP => r.sent[i] < r.writing
    BY <1>8 DEF RecordSound
  <2> QED
    BY <1>7, <2>1
<1>9. ASSUME r.writing # STOP PROVE r.writing \in 1..(high + 1) /\ Waits(n, r.writing, high + 1)
  <2>1. r.writing \in 1..high /\ Waits(q, r.writing, high)
    BY <1>9 DEF RecordSound
  <2> QED
    BY <1>7, <2>1
<1>10. Waits(n, 0, high + 1)
  BY <1>7 DEF RecordSound
<1>11. RecordSound(z, high + 1)
  <2>1. z.writer # "none" /\ z.writer # "done" /\ (z.writer = "writing" <=> z.writing # STOP)
        /\ (z.committed => z.writer \in {"done", "failed"})
    BY <1>1, <1>6 DEF RecordSound
  <2>2. \A i, j \in DOMAIN z.sent : i < j => z.sent[i] < z.sent[j]
    BY <1>6 DEF RecordSound
  <2> QED
    BY <1>5, <1>6, <1>8, <1>9, <1>10, <2>1, <2>2 DEF RecordSound
<1> QED
  BY <1>1, <1>2, <1>4, <1>5, <1>6, <1>11 DEF OpenRecord, EverythingOf

LEMMA StopEnqueued ==
    ASSUME NEW r, NEW high \in Nat, RecordSound(r, high), OpenRecord(r),
           NEW z \in AsrRecords, z.queue = Enqueued(r.queue, STOP), z.sent = r.sent,
           z.writing = r.writing, z.writer = r.writer, z.committed = r.committed
    PROVE  /\ RecordSound(z, high) /\ z.writer = r.writer /\ z.committed = r.committed
           /\ EverythingOf(z) \subseteq EverythingOf(r) \cup {STOP}
           /\ EverythingOf(r) \subseteq EverythingOf(z) \cup Dropped(r.queue) \cup {STOP}
<1> DEFINE q == r.queue
           p == IF Len(q) = AsrSize THEN Tail(q) ELSE q
           n == Enqueued(q, STOP)
<1>1. /\ r \in AsrRecords /\ q \in Seq(Nat) /\ \A i \in DOMAIN q : q[i] # STOP
      /\ r.writing \in Nat /\ r.sent \in Seq(Nat) /\ r.writer \in {"getting", "writing", "failed"}
  BY AsrFields DEF RecordSound, OpenRecord
<1>2. /\ p \in Seq(Nat) /\ ToSet(p) \subseteq ToSet(q)
      /\ ToSet(q) \subseteq ToSet(p) \cup Dropped(q) \cup {STOP}
      /\ \A i \in DOMAIN p : p[i] # STOP
      /\ \A low, h \in Nat : Waits(q, low, h) => Waits(p, low, h)
  BY <1>1, GivesUpOldest
<1>3. n = Append(p, STOP) /\ STOP \in Nat /\ STOP = Stop
  BY DEF Enqueued, STOP, Stop
<1> HIDE DEF p, n
<1>4. /\ n \in Seq(Nat) /\ ToSet(n) = ToSet(p) \cup {STOP} /\ DOMAIN n = 1..(Len(p) + 1)
      /\ Len(p) \in Nat /\ DOMAIN p = 1..Len(p) /\ Len(n) = Len(p) + 1
      /\ \A i \in DOMAIN p : n[i] = p[i]
  BY <1>2, <1>3, AppendSet
<1>5. \A i \in DOMAIN n : n[i] = STOP => i = Len(n)
  BY <1>2, <1>4
<1>6. /\ z.queue = n /\ z.sent = r.sent /\ z.writing = r.writing /\ z.writer = r.writer
      /\ z.committed = r.committed /\ z \in AsrRecords
  BY DEF n
<1>7. ASSUME NEW low \in Nat, low <= high, Waits(q, low, high) PROVE Waits(n, low, high)
  BY <1>2, <1>3, <1>7, WaitsAppend
<1>8. ASSUME NEW i \in DOMAIN r.sent
      PROVE  /\ r.sent[i] \in 1..high /\ Waits(n, r.sent[i], high)
             /\ r.writing # STOP => r.sent[i] < r.writing
  <2>1. /\ r.sent[i] \in 1..high /\ Waits(q, r.sent[i], high)
        /\ r.writing # STOP => r.sent[i] < r.writing
    BY <1>8 DEF RecordSound
  <2> QED
    BY <1>7, <2>1
<1>9. ASSUME r.writing # STOP PROVE r.writing \in 1..high /\ Waits(n, r.writing, high)
  <2>1. r.writing \in 1..high /\ Waits(q, r.writing, high)
    BY <1>9 DEF RecordSound
  <2> QED
    BY <1>7, <2>1
<1>10. Waits(n, 0, high)
  BY <1>7 DEF RecordSound
<1>11. RecordSound(z, high)
  <2>1. z.writer # "none" /\ z.writer # "done" /\ (z.writer = "writing" <=> z.writing # STOP)
        /\ (z.committed => z.writer \in {"done", "failed"})
    BY <1>1, <1>6 DEF RecordSound
  <2>2. \A i, j \in DOMAIN z.sent : i < j => z.sent[i] < z.sent[j]
    BY <1>6 DEF RecordSound
  <2> QED
    BY <1>5, <1>6, <1>8, <1>9, <1>10, <2>1, <2>2 DEF RecordSound
<1> QED
  BY <1>1, <1>2, <1>4, <1>6, <1>11 DEF EverythingOf

LEMMA RecordLater ==
    ASSUME NEW r, NEW high \in Nat, RecordSound(r, high) PROVE RecordSound(r, high + 1)
<1>1. r \in AsrRecords /\ r.queue \in Seq(Nat) /\ r.writing \in Nat
  BY AsrFields DEF RecordSound
<1>2. ASSUME NEW i \in DOMAIN r.sent
      PROVE  r.sent[i] \in 1..(high + 1) /\ Waits(r.queue, r.sent[i], high + 1)
  <2>1. r.sent[i] \in 1..high /\ Waits(r.queue, r.sent[i], high)
    BY <1>2 DEF RecordSound
  <2> QED
    BY <1>1, <2>1, WaitsLater
<1>3. Waits(r.queue, 0, high + 1)
  BY <1>1, WaitsLater DEF RecordSound
<1>4. ASSUME r.writing # STOP PROVE r.writing \in 1..(high + 1) /\ Waits(r.queue, r.writing, high + 1)
  <2>1. r.writing \in 1..high /\ Waits(r.queue, r.writing, high)
    BY <1>4 DEF RecordSound
  <2> QED
    BY <1>1, <2>1, WaitsLater
<1> QED
  BY <1>2, <1>3, <1>4 DEF RecordSound

LEMMA TakesNext ==
    ASSUME NEW r, NEW high \in Nat, RecordSound(r, high), r.writer = "getting", r.queue # <<>>,
           NEW z \in AsrRecords, z.queue = Tail(r.queue), z.writing = Head(r.queue),
           z.writer = (IF Head(r.queue) = STOP THEN "done" ELSE "writing"),
           z.sent = r.sent, z.committed = r.committed
    PROVE  /\ RecordSound(z, high) /\ z.committed = r.committed
           /\ EverythingOf(z) \subseteq EverythingOf(r)
           /\ EverythingOf(r) \subseteq EverythingOf(z) \cup {STOP}
           /\ OpenRecord(r) => OpenRecord(z)
<1> DEFINE q == r.queue
           h == Head(q)
           t == Tail(q)
<1>1. /\ r \in AsrRecords /\ q \in Seq(Nat) /\ r.writing = STOP /\ r.sent \in Seq(Nat)
      /\ Stop = STOP /\ STOP \in Nat
  BY AsrFields DEF RecordSound, STOP, Stop
<1>2. /\ t \in Seq(Nat) /\ Len(t) = Len(q) - 1 /\ Len(q) \in Nat \ {0} /\ h \in Nat
      /\ h = q[1] /\ DOMAIN q = 1..Len(q) /\ DOMAIN t = 1..Len(t)
      /\ \A i \in 1..(Len(q) - 1) : t[i] = q[i + 1]
  BY <1>1, HeadTailProperties, EmptySeq
<1>3. ASSUME NEW low \in Nat, Waits(q, low, high)
      PROVE  /\ Waits(t, low, high)
             /\ h # STOP => Waits(t, h, high) /\ low < h /\ h <= high
  BY <1>1, <1>3, WaitsTail
<1> HIDE DEF t, h
<1>4. \A i \in DOMAIN t : i + 1 \in DOMAIN q /\ t[i] = q[i + 1]
  BY <1>2
<1>5. \A i \in DOMAIN q : i = 1 \/ (i - 1 \in DOMAIN t /\ t[i - 1] = q[i])
  <2> SUFFICES ASSUME NEW i \in DOMAIN q, i # 1 PROVE i - 1 \in DOMAIN t /\ t[i - 1] = q[i]
    OBVIOUS
  <2>1. i - 1 \in DOMAIN t /\ (i - 1) + 1 = i
    BY <1>2
  <2> QED
    BY <1>4, <2>1
<1>6. 1 \in DOMAIN q
  BY <1>2
<1>7. ToSet(q) = ToSet(t) \cup {h}
  <2>1. ToSet(q) \subseteq ToSet(t) \cup {h}
    <3> SUFFICES ASSUME NEW i \in DOMAIN q PROVE q[i] \in ToSet(t) \cup {h}
      BY DEF ToSet
    <3>1. CASE i = 1
      BY <1>2, <3>1
    <3>2. CASE i # 1
      <4>1. i - 1 \in DOMAIN t /\ t[i - 1] = q[i]
        BY <1>5, <3>2
      <4> QED
        BY <4>1 DEF ToSet
    <3> QED
      BY <3>1, <3>2
  <2>2. h \in ToSet(q)
    BY <1>2, <1>6 DEF ToSet
  <2>3. ToSet(t) \subseteq ToSet(q)
    BY <1>4 DEF ToSet
  <2> QED
    BY <2>1, <2>2, <2>3
<1>8. \A i \in DOMAIN q : q[i] = STOP => i = Len(q)
  BY DEF RecordSound
<1>9. ASSUME h = STOP PROVE t = <<>>
  <2>1. 1 = Len(q)
    BY <1>2, <1>6, <1>8, <1>9
  <2>2. Len(t) = 0
    BY <1>2, <2>1
  <2> QED
    BY <1>2, <2>2, EmptySeq
<1>10. \A i \in DOMAIN t : t[i] = STOP => i = Len(t)
  <2> SUFFICES ASSUME NEW i \in DOMAIN t, t[i] = STOP PROVE i = Len(t)
    OBVIOUS
  <2>1. i + 1 = Len(q)
    BY <1>4, <1>8
  <2> QED
    BY <1>2, <2>1
<1>11. /\ z.queue = t /\ z.writing = h /\ z.sent = r.sent /\ z.committed = r.committed
       /\ z.writer = IF h = STOP THEN "done" ELSE "writing"
       /\ z \in AsrRecords
  BY DEF t, h
<1>12. ASSUME NEW i \in DOMAIN r.sent
       PROVE  /\ r.sent[i] \in 1..high /\ Waits(t, r.sent[i], high)
              /\ h # STOP => r.sent[i] < h
  <2>1. r.sent[i] \in 1..high /\ Waits(q, r.sent[i], high)
    BY <1>12 DEF RecordSound
  <2> QED
    BY <1>3, <2>1
<1>13. Waits(t, 0, high) /\ (h # STOP => h \in 1..high /\ Waits(t, h, high))
  BY <1>2, <1>3 DEF RecordSound
<1>14. ~r.committed /\ \A i, j \in DOMAIN r.sent : i < j => r.sent[i] < r.sent[j]
  BY DEF RecordSound
<1>15. RecordSound(z, high)
  <2>1. /\ z.writer = "none" => z = NewAsr
        /\ z.writer = "writing" <=> z.writing # STOP
        /\ z.writer = "done" => z.queue = <<>>
        /\ z.committed => z.writer \in {"done", "failed"}
    BY <1>9, <1>11, <1>14
  <2>2. \A i \in DOMAIN z.queue : z.queue[i] = STOP => i = Len(z.queue)
    BY <1>10, <1>11
  <2>3. \A i \in DOMAIN z.sent : /\ z.sent[i] \in 1..high /\ Waits(z.queue, z.sent[i], high)
                                 /\ z.writing # STOP => z.sent[i] < z.writing
    BY <1>11, <1>12
  <2>4. \A i, j \in DOMAIN z.sent : i < j => z.sent[i] < z.sent[j]
    BY <1>11, <1>14
  <2>5. Waits(z.queue, 0, high) /\ (z.writing # STOP => z.writing \in 1..high /\ Waits(z.queue, z.writing, high))
    BY <1>11, <1>13
  <2> QED
    BY <1>11, <2>1, <2>2, <2>3, <2>4, <2>5 DEF RecordSound
<1>16. ToSet(r.queue) = ToSet(z.queue) \cup {z.writing}
  BY <1>7, <1>11
<1>17. OpenRecord(r) => OpenRecord(z)
  BY <1>2, <1>4, <1>6, <1>11 DEF OpenRecord
<1> QED
  BY <1>1, <1>11, <1>15, <1>16, <1>17 DEF EverythingOf

\* The frame is written.
LEMMA IsWritten ==
    ASSUME NEW r, NEW high \in Nat, RecordSound(r, high), r.writer = "writing",
           NEW z \in AsrRecords, z.sent = Append(r.sent, r.writing), z.writing = STOP,
           z.writer = "getting", z.queue = r.queue, z.committed = r.committed
    PROVE  /\ RecordSound(z, high) /\ z.committed = r.committed
           /\ EverythingOf(z) \subseteq EverythingOf(r) \cup {STOP}
           /\ EverythingOf(r) \subseteq EverythingOf(z)
           /\ OpenRecord(r) => OpenRecord(z)
<1> DEFINE f == r.writing
           b == r.sent
           n == Append(b, f)
<1>1. /\ r \in AsrRecords /\ r.queue \in Seq(Nat) /\ f # STOP /\ f \in Nat /\ b \in Seq(Nat)
      /\ STOP \in Nat
  BY AsrFields DEF RecordSound, STOP
<1>2. /\ f \in 1..high /\ Waits(r.queue, f, high) /\ ~r.committed
      /\ \A i \in DOMAIN b : b[i] \in 1..high /\ b[i] < f /\ Waits(r.queue, b[i], high)
      /\ \A i, j \in DOMAIN b : i < j => b[i] < b[j]
  BY <1>1 DEF RecordSound
<1>3. /\ n \in Seq(Nat) /\ ToSet(n) = ToSet(b) \cup {f} /\ Len(b) \in Nat
      /\ DOMAIN b = 1..Len(b) /\ DOMAIN n = 1..(Len(b) + 1)
      /\ \A i \in DOMAIN b : n[i] = b[i]
      /\ n[Len(b) + 1] = f
  BY <1>1, AppendSet
<1>4. /\ z.queue = r.queue /\ z.writing = STOP /\ z.sent = n /\ z.committed = r.committed
      /\ z.writer = "getting" /\ z \in AsrRecords
  OBVIOUS
<1> HIDE DEF n, b, f
<1>5. \A i \in DOMAIN n : n[i] \in 1..high /\ Waits(r.queue, n[i], high)
  BY <1>2, <1>3
<1>6. ASSUME NEW i \in DOMAIN n, NEW j \in DOMAIN n, i < j PROVE n[i] < n[j]
  <2>1. i \in DOMAIN b /\ (j \in DOMAIN b \/ j = Len(b) + 1)
    BY <1>3, <1>6
  <2> QED
    BY <1>2, <1>3, <1>6, <2>1
<1>7. RecordSound(z, high)
  <2>1. /\ Waits(r.queue, 0, high) /\ \A i \in DOMAIN r.queue : r.queue[i] = STOP => i = Len(r.queue)
    BY DEF RecordSound
  <2> QED
    BY <1>2, <1>4, <1>5, <1>6, <2>1 DEF RecordSound
<1> QED
  BY <1>3, <1>4, <1>7 DEF EverythingOf, OpenRecord, f, b

LEMMA IsLeft ==
    ASSUME NEW r, NEW high \in Nat, RecordSound(r, high), r.writer = "writing",
           NEW z \in AsrRecords, z.writing = STOP, z.writer = "failed", z.sent = r.sent,
           z.queue = r.queue, z.committed = r.committed
    PROVE  /\ RecordSound(z, high) /\ z.committed = r.committed
           /\ EverythingOf(z) \subseteq EverythingOf(r) \cup {STOP}
           /\ EverythingOf(r) \subseteq EverythingOf(z) \cup {r.writing}
           /\ OpenRecord(r) => OpenRecord(z)
<1>1. /\ r \in AsrRecords /\ r.queue \in Seq(Nat) /\ r.sent \in Seq(Nat) /\ STOP \in Nat
  BY AsrFields DEF RecordSound, STOP
<1>2. /\ z.queue = r.queue /\ z.writing = STOP /\ z.sent = r.sent /\ z.committed = r.committed
      /\ z.writer = "failed" /\ z \in AsrRecords
  OBVIOUS
<1>3. RecordSound(z, high)
  BY <1>2 DEF RecordSound
<1> QED
  BY <1>2, <1>3 DEF EverythingOf, OpenRecord

\* What the consumer and the commit change of it.
LEMMA IsHeard ==
    ASSUME NEW r, NEW high \in Nat, RecordSound(r, high), r.writer # "none",
           NEW z \in AsrRecords, z.queue = r.queue, z.writing = r.writing, z.sent = r.sent,
           z.writer = r.writer, z.committed => r.committed \/ r.writer \in {"done", "failed"}
    PROVE  /\ RecordSound(z, high) /\ EverythingOf(z) = EverythingOf(r)
           /\ OpenRecord(r) => OpenRecord(z)
<1>1. RecordSound(z, high)
  BY DEF RecordSound
<1> QED
  BY <1>1 DEF EverythingOf, OpenRecord

\* A sequence with a first element is not empty.
LEMMA NotEmpty ==
    ASSUME NEW q, 1 \in DOMAIN q
    PROVE  q # <<>>
OBVIOUS

\* A new recognition is sound with what it is given to write.
LEMMA FreshIsSound ==
    ASSUME NEW high \in Nat, NEW n \in Seq(Nat), Waits(n, 0, high),
           \A i \in DOMAIN n : 0 < n[i] /\ n[i] <= high,
           NEW z \in AsrRecords, z.queue = n, z.writing = STOP, z.sent = <<>>, z.committed = FALSE,
           z.writer = "getting"
    PROVE  RecordSound(z, high) /\ OpenRecord(z) /\ EverythingOf(z) = ToSet(n) \cup {STOP}
<1>1. \A i \in DOMAIN n : n[i] # STOP
  BY DEF STOP
<1>2. \A i \in DOMAIN z.sent : FALSE
  OBVIOUS
<1>3. RecordSound(z, high)
  <2>1. z.writer # "none" /\ (z.writer = "writing" <=> z.writing # STOP) /\ z.writer # "done"
    OBVIOUS
  <2>2. \A i \in DOMAIN z.queue : z.queue[i] # STOP
    BY <1>1
  <2> QED
    BY <1>2, <2>1, <2>2 DEF RecordSound
<1>4. ToSet(z.sent) = {}
  BY <1>2 DEF ToSet
<1> QED
  BY <1>1, <1>3, <1>4 DEF EverythingOf, OpenRecord

\* A new recognition is sent the pre-roll: the latest of it, when that is too much.
LEMMA PreRollEnqueued ==
    ASSUME NEW high \in Nat, NEW q \in Seq(Nat), Len(q) <= high,
           \A i \in DOMAIN q : q[i] = (high - Len(q)) + i,
           NEW z, z = [NewAsr EXCEPT !.writer = "getting", !.consumer = "reading",
                                     !.queue = EnqueuedAll(q)]
    PROVE  /\ RecordSound(z, high) /\ OpenRecord(z) /\ ~z.committed
           /\ ToSet(EnqueuedAll(q)) \subseteq EverythingOf(z)
           /\ EverythingOf(z) \subseteq ToSet(q) \cup {STOP}
<1> DEFINE n == EnqueuedAll(q)
           m == Len(q) - Len(n)
<1>1. /\ n \in Seq(Nat) /\ Len(n) \in Nat /\ Len(q) \in Nat /\ Len(n) <= Len(q)
      /\ DOMAIN n = 1..Len(n) /\ DOMAIN q = 1..Len(q)
      /\ \A i \in 1..Len(n) : n[i] = q[m + i]
  <2>1. CASE Len(q) > AsrSize
    <3>1. AsrSize \in Nat \ {0} /\ Len(q) \in Nat
      BY CaptureAssumption
    <3>2. n = SubSeq(q, Len(q) - AsrSize + 1, Len(q))
      BY <2>1 DEF EnqueuedAll
    <3> DEFINE a == Len(q) - AsrSize + 1
    <3>3. a \in Int /\ Len(q) \in Int /\ 1 <= a /\ a <= Len(q) /\ Len(q) - a + 1 = AsrSize
      BY <2>1, <3>1
    <3>4. a - 1 = Len(q) - AsrSize
      BY <3>1
    <3> HIDE DEF a
    <3>5. \A i \in a..Len(q) : q[i] \in Nat
      BY <3>1, <3>3
    <3>6. /\ SubSeq(q, a, Len(q)) \in Seq(Nat)
          /\ Len(SubSeq(q, a, Len(q))) = IF a <= Len(q) THEN Len(q) - a + 1 ELSE 0
          /\ \A i \in 1..Len(q) - a + 1 : SubSeq(q, a, Len(q))[i] = q[a + i - 1]
      BY SMTT(30), <3>3, <3>5, SubSeqProperties
    <3>7. n = SubSeq(q, a, Len(q))
      BY <3>2 DEF a
    <3> HIDE DEF n
    <3>8. n \in Seq(Nat) /\ Len(n) = AsrSize /\ \A i \in 1..AsrSize : n[i] = q[a + i - 1]
      BY <3>3, <3>6, <3>7
    <3>9. m = a - 1
      BY <3>4, <3>8
    <3> HIDE DEF m
    <3>10. \A i \in 1..AsrSize : a + i - 1 = m + i
      BY <3>1, <3>3, <3>9
    <3>11. \A i \in 1..AsrSize : n[i] = q[m + i]
      BY <3>8, <3>10
    <3>12. DOMAIN n = 1..AsrSize /\ DOMAIN q = 1..Len(q)
      BY <3>8
    <3> QED
      BY <2>1, <3>1, <3>8, <3>11, <3>12
  <2>2. CASE ~(Len(q) > AsrSize)
    <3>1. n = q
      BY <2>2 DEF EnqueuedAll
    <3> HIDE DEF n
    <3> QED
      BY <3>1
  <2> QED
    BY <2>1, <2>2
<1>2. \A i \in DOMAIN n : m + i \in DOMAIN q /\ n[i] = q[m + i] /\ n[i] = (high - Len(n)) + i
  <2> DEFINE k == Len(n)
             l == Len(q)
  <2>1. m = l - k /\ k \in Nat /\ l \in Nat /\ k <= l /\ l <= high
    BY <1>1
  <2>2. DOMAIN n = 1..k /\ DOMAIN q = 1..l /\ \A i \in 1..k : n[i] = q[m + i]
    BY <1>1
  <2>3. \A i \in 1..l : q[i] = (high - l) + i
    BY <2>2
  <2> HIDE DEF k, l, m, n
  <2> SUFFICES ASSUME NEW i \in 1..k
               PROVE  m + i \in 1..l /\ n[i] = q[m + i] /\ n[i] = (high - k) + i
    BY <2>2 DEF k
  <2>4. m + i \in 1..l /\ (high - l) + (m + i) = (high - k) + i
    BY <2>1
  <2> QED
    BY <2>2, <2>3, <2>4
<1>3. /\ z.queue = n /\ z.writing = STOP /\ z.sent = <<>> /\ z.committed = FALSE
      /\ z.writer = "getting" /\ z.consumer = "reading" /\ z \in AsrRecords
  <2>1. NewAsr \in AsrRecords /\ NewAsr.writing = STOP /\ NewAsr.sent = <<>> /\ ~NewAsr.committed
    BY EmptySeq DEF AsrRecords, NewAsr, STOP
  <2> HIDE DEF n
  <2> QED
    BY <1>1, <2>1 DEF AsrRecords, n
<1> HIDE DEF n, m
<1>4. \A i \in DOMAIN n : n[i] = (high - Len(n)) + i /\ 0 < n[i] /\ n[i] <= high
  <2> DEFINE k == Len(n)
  <2>1. k \in Nat /\ k <= high /\ DOMAIN n = 1..k
    BY <1>1
  <2>2. \A i \in DOMAIN n : n[i] = (high - k) + i
    BY <1>2
  <2> HIDE DEF k
  <2>3. \A i \in 1..k : 0 < (high - k) + i /\ (high - k) + i <= high
    BY <2>1
  <2> QED
    BY <2>1, <2>2, <2>3 DEF k
<1>5. Waits(n, 0, high)
  <2> DEFINE k == Len(n)
  <2>1. k \in Nat /\ DOMAIN n = 1..k
    BY <1>1
  <2>2. \A i \in DOMAIN n : n[i] = (high - k) + i
    BY <1>2
  <2> HIDE DEF k
  <2>3. \A i, j \in 1..k : i < j => (high - k) + i < (high - k) + j
    BY <2>1
  <2>4. \A i, j \in DOMAIN n : i < j => n[i] < n[j]
    BY <2>1, <2>2, <2>3
  <2> QED
    BY <1>4, <2>4 DEF Waits
<1>6. RecordSound(z, high) /\ OpenRecord(z) /\ EverythingOf(z) = ToSet(n) \cup {STOP}
  <2>1. /\ z \in AsrRecords /\ z.queue = n /\ z.writing = STOP /\ z.sent = <<>>
        /\ z.committed = FALSE /\ z.writer = "getting"
    BY <1>3
  <2>2. n \in Seq(Nat) /\ \A i \in DOMAIN n : 0 < n[i] /\ n[i] <= high
    BY <1>1, <1>4
  <2> QED
    BY <1>5, <2>1, <2>2, FreshIsSound
<1>7. ToSet(n) \subseteq ToSet(q)
  BY <1>2 DEF ToSet
<1>8. ToSet(EnqueuedAll(q)) \subseteq EverythingOf(z)
  BY <1>6 DEF n
<1> QED
  BY <1>3, <1>6, <1>7, <1>8

-----------------------------------------------------------------------------
\* The capture: the audio task, the VAD and the turns.

AudioRecords ==
    [pc : {"getting", "frames", "starting", "completing", "finishing", "stopping", "done", "dead"},
     todo : Nat, stopping : BOOLEAN]

CaptureTypes ==
    /\ audio \in AudioRecords /\ frames \in Nat /\ onset \in Nat
    /\ vad \in [state : {"quiet", "starting", "speaking", "stopping"}, seen : Nat, quiet : Nat,
                units : Nat]
    /\ detector \in [speaking : BOOLEAN, quiet : BOOLEAN, valid : BOOLEAN]
    /\ turnActive \in BOOLEAN /\ preRoll \in Seq(Nat)
    /\ {current, attached} \subseteq AsrSessions \cup {0}
    /\ asr \in [AsrSessions -> AsrRecords] /\ owed \in [AsrSessions -> SUBSET Nat]

\* The audio task, the turn under way and its session.
TurnSound ==
    /\ audio.pc \in {"frames", "starting"} => audio.todo >= 1
    /\ audio.pc = "stopping" => audio.todo = 0 /\ audio.stopping
    /\ audio.pc = "starting" =>
         /\ turnActive /\ detector.speaking /\ vad.state = "speaking" /\ current = 0
    /\ audio.pc \in {"getting", "frames"} => turnActive = detector.speaking
    /\ audio.pc \in {"completing", "finishing"} =>
         /\ ~turnActive
         /\ detector.speaking => audio.todo = 0 /\ audio.stopping
    /\ audio.pc = "finishing" => current = 0 /\ attached \in AsrSessions
    /\ current # 0 => /\ attached = current /\ OpenRecord(asr[current])
                      /\ audio.pc # "starting" /\ (turnActive \/ audio.pc = "completing")

\* The pre-roll is the latest frames.
PreRollSound ==
    /\ Len(preRoll) <= PreRollSize /\ Len(preRoll) <= frames
    /\ \A i \in DOMAIN preRoll : preRoll[i] = (frames - Len(preRoll)) + i

\* What is heard of an utterance that has yet to start fits in the pre-roll.
VadSound ==
    /\ vad.units \in 0..7 /\ vad.units <= 5 * frames
    /\ vad.state # "starting" => vad.seen = 0
    /\ vad.state = "starting" =>
         vad.seen < StartWindows /\ 5 * (frames - onset) < 8 * vad.seen + vad.units
    /\ vad.state \in {"starting", "speaking"} => onset \in 1..frames

AsrSound ==
    /\ \A s \in AsrSessions : RecordSound(asr[s], frames)
    /\ \A s, t \in AsrSessions :
         s # t => EverythingOf(asr[s]) \cap EverythingOf(asr[t]) \subseteq {STOP}
    /\ (~turnActive \/ audio.pc = "starting") =>
         \A s \in AsrSessions : \A e \in EverythingOf(asr[s]) : e <= frames - Len(preRoll)

\* What became of a frame.
Accounted(f) ==
    f \in missed \/ f \in lost \/ \E s \in AsrSessions : f \in EverythingOf(asr[s])

Rolls(f) == f > frames - Len(preRoll)

NothingUnheard ==
    /\ \A f \in 1..frames : frames - PreRollSize < f /\ ~Rolls(f) => Accounted(f)
    /\ turnActive /\ audio.pc \notin {"starting", "dead"} =>
         \A f \in 1..frames : Rolls(f) => Accounted(f)
    /\ vad.state = "speaking" /\ audio.pc # "dead" =>
         \A f \in onset..frames : Accounted(f) \/ (audio.pc = "starting" /\ Rolls(f))
    /\ \A s \in AsrSessions : \A f \in owed[s] : f \in 1..frames /\ Accounted(f)

CaptureInv ==
    CaptureTypes /\ TurnSound /\ PreRollSound /\ VadSound /\ AsrSound /\ NothingUnheard

LEMMA OnwardGoes ==
    ASSUME NEW a \in AudioRecords, NEW b, b = Onward(a)
    PROVE  /\ b \in AudioRecords /\ b.pc \in {"frames", "stopping", "getting"}
           /\ b.pc = "frames" => b.todo >= 1
           /\ b.pc = "stopping" => b.todo = 0 /\ b.stopping
           /\ a.todo = 0 /\ a.stopping => b.pc = "stopping"
BY DEF Onward, AudioRecords

LEMMA InRecord ==
    ASSUME NEW r, NEW high \in Nat, RecordSound(r, high), NEW e \in EverythingOf(r)
    PROVE  e \in 0..high
<1>1. /\ r \in AsrRecords /\ r.queue \in Seq(Nat) /\ r.writing \in Nat /\ r.sent \in Seq(Nat)
  BY AsrFields DEF RecordSound
<1>2. CASE e = r.writing
  BY <1>1, <1>2 DEF RecordSound, STOP
<1>3. CASE e \in ToSet(r.sent)
  <2>1. PICK i \in DOMAIN r.sent : e = r.sent[i]
    BY <1>3 DEF ToSet
  <2> QED
    BY <2>1 DEF RecordSound
<1>4. CASE e \in ToSet(r.queue)
  <2>1. PICK i \in DOMAIN r.queue : e = r.queue[i]
    BY <1>4 DEF ToSet
  <2>2. r.queue[i] \in Nat /\ (r.queue[i] # Stop => r.queue[i] <= high)
    BY <1>1, <2>1 DEF RecordSound, Waits
  <2> QED
    BY <2>1, <2>2 DEF Stop
<1> QED
  BY <1>2, <1>3, <1>4 DEF EverythingOf

LEMMA UnitsOf == /\ Unit.frame = 5 /\ Unit.window = 8
                 /\ StartWindows \in Nat \ {0} /\ PreRollSize \in Nat \ {0} /\ AsrSize \in Nat \ {0}
                 /\ (PreRollSize - 1) * 5 >= StartWindows * 8
BY CaptureAssumption DEF Unit

\* An utterance that starts is in the pre-roll with its first frame.
LEMMA HeardFromTheStart ==
    ASSUME NEW n \in Nat, NEW u \in 0..7, u <= 5 * n, NEW d, d = (u + 4) \div 5
    PROVE  d \in 0..2 /\ d <= n /\ 5 * d < u + 5
BY SMT

LEMMA JudgedSound ==
    ASSUME CaptureTypes, VadSound, frames' = frames + 1, NEW speech \in BOOLEAN, Judged(speech)
    PROVE  /\ vad' \in [state : {"quiet", "starting", "speaking", "stopping"}, seen : Nat,
                        quiet : Nat, units : Nat]
           /\ onset' \in Nat /\ VadSound'
           /\ vad'.state = "speaking" =>
                \/ vad.state = "speaking" /\ onset' = onset
                \/ onset' > frames' - PreRollSize
<1> DEFINE u == vad.units + 5
           next == Advance(vad, speech)
           first == frames + 1 - (vad.units + 4) \div 5
<1>1. /\ frames \in Nat /\ onset \in Nat
      /\ vad \in [state : {"quiet", "starting", "speaking", "stopping"}, seen : Nat, quiet : Nat,
                  units : Nat]
      /\ vad.units \in 0..7 /\ vad.units <= 5 * frames /\ vad.seen \in Nat
  BY DEF CaptureTypes, VadSound
<1>2. CASE u < 8
  <2>1. vad' = [vad EXCEPT !.units = u] /\ onset' = onset
    BY <1>2, UnitsOf DEF Judged
  <2>2. /\ vad'.units = u /\ vad'.state = vad.state /\ vad'.seen = vad.seen
        /\ vad' \in [state : {"quiet", "starting", "speaking", "stopping"}, seen : Nat,
                     quiet : Nat, units : Nat]
    BY <1>1, <2>1
  <2>3. VadSound'
    BY <1>1, <1>2, <2>1, <2>2 DEF VadSound
  <2> QED
    BY <1>1, <2>1, <2>2, <2>3
<1>3. CASE ~(u < 8)
  <2>1. /\ vad' = [next EXCEPT !.units = u - 8]
        /\ onset' = IF speech /\ vad.state \in {"quiet", "stopping"} THEN first ELSE onset
    <3>1. vad.units + Unit.frame - 1 = vad.units + 4
      BY <1>1, UnitsOf
    <3> QED
      BY <1>3, <3>1, UnitsOf DEF Judged
  <2>2. /\ first \in 1..(frames + 1) /\ 5 * (frames + 1 - first) < 8 + (u - 8)
        /\ frames + 1 - first <= 2
    <3> DEFINE d == (vad.units + 4) \div 5
    <3>1. d \in 0..2 /\ d <= frames /\ 5 * d < vad.units + 5
      BY <1>1, HeardFromTheStart
    <3>2. first = frames + 1 - d
      OBVIOUS
    <3> HIDE DEF d, first
    <3> QED
      BY <1>1, <3>1, <3>2
  <2> HIDE DEF first
  <2>3. /\ next \in [state : {"quiet", "starting", "speaking", "stopping"}, seen : Nat,
                     quiet : Nat, units : Nat]
        /\ ~speech => next.seen = 0 /\ next.state \in {"quiet", "stopping"}
        /\ speech => next.state \in {"starting", "speaking"}
        /\ speech /\ vad.state = "speaking" => next.state = "speaking"
        /\ next.state = "speaking" => next.seen = 0
        /\ speech /\ vad.state # "speaking" /\ next.state = "speaking" => vad.seen + 1 >= StartWindows
        /\ next.state = "starting" => next.seen = vad.seen + 1 /\ next.seen < StartWindows
    <3>1. CASE speech
      <4> DEFINE windows == IF vad.state = "speaking" THEN 0 ELSE vad.seen + 1
      <4>1. next = [vad EXCEPT !.quiet = 0,
                               !.state = IF vad.state = "speaking" \/ windows >= StartWindows
                                         THEN "speaking" ELSE "starting",
                               !.seen = IF windows >= StartWindows THEN 0 ELSE windows]
        BY <3>1 DEF Advance
      <4>2. windows \in Nat /\ (vad.state # "speaking" => windows = vad.seen + 1)
            /\ (vad.state = "speaking" => windows = 0)
        BY <1>1
      <4> HIDE DEF windows, next
      <4>3. CASE windows >= StartWindows
        <5>1. next = [vad EXCEPT !.quiet = 0, !.state = "speaking", !.seen = 0]
          BY <4>1, <4>3
        <5>2. /\ next.state = "speaking" /\ next.seen = 0
              /\ next \in [state : {"quiet", "starting", "speaking", "stopping"}, seen : Nat,
                           quiet : Nat, units : Nat]
          BY <1>1, <5>1
        <5> QED
          BY <3>1, <4>2, <4>3, <5>2
      <4>4. CASE ~(windows >= StartWindows)
        <5>1. windows < StartWindows
          BY <4>2, <4>4, UnitsOf
        <5>2. CASE vad.state = "speaking"
          <6>1. next = [vad EXCEPT !.quiet = 0, !.state = "speaking", !.seen = windows]
            BY <4>1, <4>4, <5>2
          <6>2. /\ next.state = "speaking" /\ next.seen = 0
                /\ next \in [state : {"quiet", "starting", "speaking", "stopping"}, seen : Nat,
                             quiet : Nat, units : Nat]
            BY <1>1, <4>2, <5>2, <6>1
          <6> QED
            BY <3>1, <5>2, <6>2
        <5>3. CASE vad.state # "speaking"
          <6>1. next = [vad EXCEPT !.quiet = 0, !.state = "starting", !.seen = windows]
            BY <4>1, <4>4, <5>3
          <6>2. /\ next.state = "starting" /\ next.seen = windows
                /\ next \in [state : {"quiet", "starting", "speaking", "stopping"}, seen : Nat,
                             quiet : Nat, units : Nat]
            BY <1>1, <4>2, <6>1
          <6> QED
            BY <3>1, <4>2, <5>1, <5>3, <6>2
        <5> QED
          BY <5>2, <5>3
      <4> QED
        BY <4>3, <4>4
    <3>2. CASE ~speech
      <4> DEFINE quiet == vad.quiet + (IF vad.state \in {"speaking", "stopping"} THEN 1 ELSE 0)
      <4>1. next = [vad EXCEPT !.seen = 0,
                               !.quiet = IF quiet >= StopWindows THEN 0 ELSE quiet,
                               !.state = IF vad.state \in {"speaking", "stopping"} /\ quiet < StopWindows
                                         THEN "stopping" ELSE "quiet"]
        BY <3>2 DEF Advance
      <4>2. quiet \in Nat
        BY <1>1
      <4> HIDE DEF quiet, next
      <4> QED
        BY <1>1, <3>2, <4>1, <4>2
    <3> QED
      BY <3>1, <3>2
  <2> HIDE DEF next
  <2>4. /\ vad' \in [state : {"quiet", "starting", "speaking", "stopping"}, seen : Nat,
                     quiet : Nat, units : Nat]
        /\ vad'.units = u - 8 /\ vad'.state = next.state /\ vad'.seen = next.seen
    BY <1>1, <1>3, <2>1, <2>3
  <2>5. onset' \in Nat
    BY <1>1, <2>1, <2>2
  <2>6. u - 8 \in 0..7 /\ u - 8 <= 5 * (frames + 1)
    BY <1>1, <1>3
  <2>7. vad.state = "starting" => vad.seen < StartWindows /\ 5 * (frames - onset) < 8 * vad.seen + vad.units
    BY DEF VadSound
  <2>8. vad.state \in {"starting", "speaking"} => onset \in 1..frames
    BY DEF VadSound
  <2>9. vad'.state \in {"starting", "speaking"} => speech /\ onset' \in 1..(frames + 1)
    BY <1>1, <2>1, <2>2, <2>3, <2>4, <2>8
  <2>10. vad.state # "starting" => vad.seen = 0
    BY DEF VadSound
  <2>11. ASSUME vad'.state = "starting"
         PROVE  vad'.seen < StartWindows /\ 5 * (frames' - onset') < 8 * vad'.seen + vad'.units
    <3>1. vad'.seen = vad.seen + 1 /\ vad'.seen < StartWindows /\ speech /\ vad'.units = u - 8
          /\ vad.state # "speaking"
      BY <2>3, <2>4, <2>9, <2>11
    <3>2. CASE vad.state = "starting"
      <4>1. onset' = onset /\ 5 * (frames - onset) < 8 * vad.seen + vad.units
        BY <2>1, <2>7, <3>2
      <4> QED
        BY <1>1, <3>1, <4>1
    <3>3. CASE vad.state # "starting"
      <4>1. onset' = first /\ vad.seen = 0
        BY <1>1, <2>1, <2>10, <3>1, <3>3
      <4> QED
        BY <1>1, <2>2, <3>1, <4>1
    <3> QED
      BY <3>2, <3>3
  <2>12. ASSUME vad'.state = "speaking", vad.state # "speaking"
         PROVE  onset' > frames' - PreRollSize
    <3>1. vad.seen + 1 >= StartWindows /\ speech
      BY <2>3, <2>4, <2>9, <2>12
    <3>2. CASE vad.state = "starting"
      <4>1. onset' = onset /\ 5 * (frames - onset) < 8 * vad.seen + vad.units /\ vad.seen + 1 = StartWindows
        BY <1>1, <2>1, <2>7, <3>1, <3>2, UnitsOf
      <4>2. 5 * (frames + 1 - onset) < 8 * StartWindows + 5
        BY <1>1, <4>1, UnitsOf
      <4>3. 5 * (frames + 1 - onset) < 5 * PreRollSize
        BY <1>1, <4>2, UnitsOf
      <4> QED
        BY <1>1, <4>1, <4>3, UnitsOf
    <3>3. CASE vad.state # "starting"
      <4>1. onset' = first
        BY <1>1, <2>1, <2>12, <3>1, <3>3
      <4>2. PreRollSize > 2
        BY UnitsOf
      <4> QED
        BY <1>1, <2>2, <4>1, <4>2, UnitsOf
    <3> QED
      BY <3>2, <3>3
  <2>13. vad'.state # "starting" => vad'.seen = 0
    BY <2>3, <2>4, <2>9
  <2>14. VadSound'
    BY <2>4, <2>6, <2>9, <2>11, <2>13 DEF VadSound
  <2>15. vad'.state = "speaking" /\ vad.state = "speaking" => onset' = onset
    BY <2>1
  <2> QED
    BY <2>4, <2>5, <2>12, <2>14, <2>15
<1> QED
  BY <1>2, <1>3

LEMMA RolledSound ==
    ASSUME PreRollSound, preRoll \in Seq(Nat), frames \in Nat, NEW p, p = Rolled(frames + 1)
    PROVE  /\ p \in Seq(Nat) /\ Len(p) \in Nat /\ Len(preRoll) \in Nat
           /\ Len(p) <= PreRollSize /\ Len(p) <= frames + 1 /\ 1 <= Len(p)
           /\ \A i \in DOMAIN p : p[i] = (frames + 1 - Len(p)) + i
           /\ \/ frames + 1 - Len(p) = frames - Len(preRoll)
              \/ Len(p) = PreRollSize /\ frames + 1 - Len(p) >= frames - Len(preRoll)
<1> DEFINE a == Append(preRoll, frames + 1)
<1>1. /\ a \in Seq(Nat) /\ Len(a) = Len(preRoll) + 1 /\ Len(preRoll) \in Nat
      /\ DOMAIN a = 1..(Len(preRoll) + 1) /\ DOMAIN preRoll = 1..Len(preRoll)
      /\ \A i \in DOMAIN preRoll : a[i] = preRoll[i]
      /\ a[Len(preRoll) + 1] = frames + 1
  BY AppendSet
<1> DEFINE k == Len(preRoll)
           n == PreRollSize
<1>2. /\ p = IF Len(a) > n THEN Tail(a) ELSE a
      /\ k <= n /\ k <= frames /\ n \in Nat \ {0} /\ k \in Nat
      /\ \A i \in DOMAIN preRoll : preRoll[i] = (frames - k) + i
  BY <1>1, UnitsOf DEF Rolled, PreRollSound
<1>3. Len(a) = k + 1 /\ DOMAIN a = 1..(k + 1) /\ a[k + 1] = frames + 1 /\ DOMAIN preRoll = 1..k
  BY <1>1
<1> HIDE DEF a, n, k
<1>4. \A i \in DOMAIN a : a[i] = (frames - k) + i
  <2> SUFFICES ASSUME NEW i \in DOMAIN a PROVE a[i] = (frames - k) + i
    OBVIOUS
  <2>1. CASE i = k + 1
    BY <1>2, <1>3, <2>1
  <2>2. CASE i # k + 1
    <3>1. i \in DOMAIN preRoll
      BY <1>2, <1>3, <2>2
    <3> QED
      BY <1>1, <1>2, <3>1
  <2> QED
    BY <2>1, <2>2
<1>5. CASE k + 1 > n
  <2>1. p = Tail(a) /\ k = n
    <3>1. Len(a) > n
      BY <1>3, <1>5
    <3> QED
      BY <1>2, <1>5, <3>1
  <2>2. a # <<>>
    <3>1. k \in Nat /\ DOMAIN a = 1..(k + 1)
      BY Zenon, <1>2, <1>3
    <3>2. 1 \in 1..(k + 1)
      BY <3>1
    <3> QED
      BY Zenon, <3>1, <3>2, NotEmpty
  <2>3. /\ p \in Seq(Nat) /\ Len(p) = Len(a) - 1
        /\ \A i \in 1..(Len(a) - 1) : p[i] = a[i + 1]
    <3>1. /\ Tail(a) \in Seq(Nat) /\ Len(Tail(a)) = Len(a) - 1
          /\ \A i \in 1..(Len(a) - 1) : Tail(a)[i] = a[i + 1]
      <4>1. a \in Seq(Nat)
        BY <1>1
      <4> QED
        BY <2>2, <4>1, HeadTailProperties
    <3> QED
      BY Zenon, <2>1, <3>1
  <2>4. Len(p) = k /\ DOMAIN p = 1..k /\ Len(a) - 1 = k
    BY <1>2, <1>3, <2>3
  <2>5. ASSUME NEW i \in DOMAIN p PROVE p[i] = (frames + 1 - k) + i
    <3>1. i + 1 \in DOMAIN a /\ i \in Nat
      BY <1>2, <1>3, <2>4
    <3>2. p[i] = a[i + 1]
      BY <2>3, <2>4
    <3>3. p[i] = (frames - k) + (i + 1)
      BY <1>4, <3>1, <3>2
    <3> QED
      BY <1>2, <3>1, <3>3
  <2>6. k <= frames + 1 /\ 1 <= k /\ frames + 1 - k >= frames - k
    BY <1>2, <2>1
  <2> QED
    BY <1>2, <2>1, <2>3, <2>4, <2>5, <2>6 DEF n, k
<1>6. CASE ~(k + 1 > n)
  <2>1. p = a /\ Len(p) = k + 1
    <3>1. ~(Len(a) > n)
      BY <1>3, <1>6
    <3> QED
      BY <1>2, <1>3, <3>1
  <2>2. k + 1 <= n /\ k + 1 <= frames + 1 /\ frames + 1 - (k + 1) = frames - k /\ 1 <= k + 1
    BY <1>2, <1>6
  <2>3. \A i \in DOMAIN p : p[i] = (frames + 1 - (k + 1)) + i
    BY <1>4, <2>1, <2>2
  <2>4. Len(p) = k + 1 /\ p \in Seq(Nat)
    BY <1>1, <2>1
  <2>5. /\ \A i \in DOMAIN p : p[i] = (frames + 1 - Len(p)) + i
        /\ Len(p) \in Nat /\ k \in Nat /\ Len(p) <= n /\ Len(p) <= frames + 1 /\ 1 <= Len(p)
        /\ frames + 1 - Len(p) = frames - k
    <3>1. \A i \in DOMAIN p : p[i] = (frames + 1 - Len(p)) + i
      BY <2>3, <2>4
    <3>2. k \in Nat /\ Len(p) = k + 1
      BY <1>2, <2>4
    <3>3. Len(p) \in Nat /\ Len(p) <= n /\ Len(p) <= frames + 1 /\ 1 <= Len(p)
      BY <2>2, <3>2
    <3>4. frames + 1 - Len(p) = frames - k
      BY <2>2, <3>2
    <3> QED
      BY <3>1, <3>2, <3>3, <3>4
  <2>6. k = Len(preRoll) /\ n = PreRollSize
    BY DEF n, k
  <2>7. p \in Seq(Nat)
    BY <2>4
  <2>8. frames + 1 - Len(p) = frames - Len(preRoll) /\ Len(preRoll) \in Nat
    BY <2>5, <2>6
  <2>9. Len(p) <= PreRollSize
    BY <2>5, <2>6
  <2> QED
    BY <2>5, <2>7, <2>8, <2>9
<1> QED
  BY <1>5, <1>6

\* One record changes: it keeps what it had but for what is counted, and may be given
\* frames that no other one has.
LEMMA OneRecordChanges ==
    ASSUME asr \in [AsrSessions -> AsrRecords], AsrSound, frames \in Nat,
           frames' \in {frames, frames + 1}, NEW s \in AsrSessions, NEW z, NEW fresh,
           asr' = [asr EXCEPT ![s] = z], RecordSound(z, frames'),
           EverythingOf(z) \subseteq EverythingOf(asr[s]) \cup fresh \cup {STOP},
           \A t \in AsrSessions : \A e \in EverythingOf(asr[t]) : e \notin fresh,
           EverythingOf(asr[s]) \subseteq EverythingOf(z) \cup lost' \cup missed' \cup {STOP},
           lost \subseteq lost', missed \subseteq missed'
    PROVE  /\ asr' \in [AsrSessions -> AsrRecords] /\ asr'[s] = z
           /\ \A t \in AsrSessions : t # s => asr'[t] = asr[t]
           /\ \A t \in AsrSessions : RecordSound(asr'[t], frames')
           /\ \A t, v \in AsrSessions :
                t # v => EverythingOf(asr'[t]) \cap EverythingOf(asr'[v]) \subseteq {STOP}
           /\ \A t \in AsrSessions :
                EverythingOf(asr'[t]) \subseteq EverythingOf(asr[t]) \cup fresh \cup {STOP}
           /\ \A f \in Nat : f # STOP /\ Accounted(f) => Accounted(f)'
           /\ \A f \in EverythingOf(z) : Accounted(f)'
<1>1. /\ z \in AsrRecords /\ asr' \in [AsrSessions -> AsrRecords] /\ asr'[s] = z
      /\ \A t \in AsrSessions : t # s => asr'[t] = asr[t]
  BY DEF RecordSound
<1>2. \A t \in AsrSessions : RecordSound(asr[t], frames')
  BY RecordLater DEF AsrSound
<1>3. \A t \in AsrSessions : RecordSound(asr'[t], frames')
  BY <1>1, <1>2
<1>4. \A t, v \in AsrSessions :
        t # v => EverythingOf(asr[t]) \cap EverythingOf(asr[v]) \subseteq {STOP}
  BY DEF AsrSound
<1>5. \A t \in AsrSessions : t # s =>
        /\ EverythingOf(asr'[t]) \cap EverythingOf(z) \subseteq {STOP}
        /\ EverythingOf(asr'[t]) = EverythingOf(asr[t])
  BY <1>1, <1>4
<1>6. \A t, v \in AsrSessions :
        t # v => EverythingOf(asr'[t]) \cap EverythingOf(asr'[v]) \subseteq {STOP}
  BY <1>1, <1>4, <1>5
<1>7. ASSUME NEW f \in Nat, f # STOP, Accounted(f) PROVE Accounted(f)'
  <2>1. CASE f \in missed \/ f \in lost
    BY <2>1 DEF Accounted
  <2>2. CASE \E t \in AsrSessions : f \in EverythingOf(asr[t])
    <3>1. PICK t \in AsrSessions : f \in EverythingOf(asr[t])
      BY <2>2
    <3>2. CASE t = s
      <4>1. f \in EverythingOf(asr'[s]) \/ f \in lost' \/ f \in missed'
        BY <1>1, <1>7, <3>1, <3>2
      <4> QED
        BY <4>1 DEF Accounted
    <3>3. CASE t # s
      <4>1. f \in EverythingOf(asr'[t])
        BY <1>5, <3>1, <3>3
      <4> QED
        BY <4>1 DEF Accounted
    <3> QED
      BY <3>2, <3>3
  <2> QED
    BY <1>7, <2>1, <2>2 DEF Accounted
<1>8. \A f \in EverythingOf(z) : Accounted(f)'
  BY <1>1 DEF Accounted
<1>9. \A t \in AsrSessions : EverythingOf(asr'[t]) \subseteq EverythingOf(asr[t]) \cup fresh \cup {STOP}
  BY <1>1, <1>5
<1> QED
  BY <1>1, <1>3, <1>6, <1>7, <1>8, <1>9

\* What is heard stays heard, as long as no frame is processed.
LEMMA StillHeard ==
    ASSUME CaptureTypes, NothingUnheard, PreRollSound,
           UNCHANGED <<frames, preRoll, vad, onset, owed>>,
           \A f \in Nat : f # STOP /\ Accounted(f) => Accounted(f)',
           turnActive' /\ audio'.pc \notin {"starting", "dead"} =>
             turnActive /\ audio.pc \notin {"starting", "dead"},
           VadSound,
           audio'.pc # "dead" => audio.pc # "dead" /\ (audio.pc = "starting" => audio'.pc = "starting")
    PROVE  NothingUnheard'
<1>1. /\ frames \in Nat /\ onset \in Nat /\ vad.state = "speaking" => onset \in Nat
      /\ \A f : Rolls(f) = Rolls(f)'
  BY DEF CaptureTypes, Rolls
<1>2. \A f \in 1..frames : Accounted(f) => Accounted(f)'
  BY <1>1 DEF STOP
<1>3. \A f \in 1..frames' : frames' - PreRollSize < f /\ ~Rolls(f)' => Accounted(f)'
  BY <1>1, <1>2 DEF NothingUnheard
<1>4. turnActive' /\ audio'.pc \notin {"starting", "dead"} =>
        \A f \in 1..frames' : Rolls(f)' => Accounted(f)'
  BY <1>1, <1>2 DEF NothingUnheard
<1>5. \A s \in AsrSessions : \A f \in owed'[s] : f \in 1..frames' /\ Accounted(f)'
  BY <1>2 DEF NothingUnheard
<1>6. ASSUME vad'.state = "speaking", audio'.pc # "dead", NEW f \in onset'..frames'
      PROVE  Accounted(f)' \/ (audio'.pc = "starting" /\ Rolls(f)')
  <2>1. Accounted(f) \/ (audio.pc = "starting" /\ Rolls(f))
    BY <1>6 DEF NothingUnheard
  <2>2. f \in Nat /\ f # STOP /\ (Accounted(f) => Accounted(f)')
    <3>1. onset \in 1..frames
      BY <1>6 DEF VadSound
    <3>2. f \in 1..frames
      BY <1>1, <1>6, <3>1
    <3> QED
      BY <1>2, <3>2 DEF STOP
  <2> QED
    BY <1>1, <1>6, <2>1, <2>2
<1> QED
  BY <1>3, <1>4, <1>5, <1>6 DEF NothingUnheard

\* Only the audio task moves on, and the turn it is in stays.
LEMMA AudioOnward ==
    ASSUME CaptureInv, audio' \in AudioRecords,
           UNCHANGED <<frames, vad, detector, onset, turnActive, preRoll, current, attached,
                       asr, owed, missed, lost>>,
           audio'.pc = "frames" => audio'.todo >= 1,
           audio'.pc = "stopping" => audio'.todo = 0 /\ audio'.stopping,
           audio'.pc \in {"frames", "stopping", "getting"}, audio.pc = "getting"
    PROVE  CaptureInv'
<1>1. CaptureTypes'
  BY DEF CaptureInv, CaptureTypes
<1>2. TurnSound'
  BY DEF CaptureInv, TurnSound, OpenRecord
<1>3. PreRollSound' /\ VadSound'
  BY DEF CaptureInv, PreRollSound, VadSound
<1>4. AsrSound'
  BY DEF CaptureInv, AsrSound
<1>5. \A f : Accounted(f) => Accounted(f)'
  BY DEF Accounted
<1>6. NothingUnheard'
  BY <1>5, StillHeard DEF CaptureInv
<1> QED
  BY <1>1, <1>2, <1>3, <1>4, <1>6 DEF CaptureInv

LEMMA AudioEndsSafe == ASSUME CaptureInv, AudioEnds PROVE CaptureInv'
<1>1. UNCHANGED <<audio, frames, vad, detector, onset, turnActive, preRoll, current, attached,
                  asr, owed, missed, lost>>
  BY DEF AudioEnds, judging
<1>2. \A f : Accounted(f) = Accounted(f)' /\ Rolls(f) = Rolls(f)'
  BY <1>1 DEF Accounted, Rolls
<1> QED
  BY <1>1, <1>2 DEF CaptureInv, CaptureTypes, TurnSound, PreRollSound, VadSound, AsrSound,
     NothingUnheard

LEMMA GetAudioSafe == ASSUME CaptureInv, GetAudio \/ GetStop PROVE CaptureInv'
<1>1. audio \in AudioRecords /\ audio.pc = "getting"
  BY DEF GetAudio, GetStop, CaptureInv, CaptureTypes
<1>2. PICK n \in 0..2, b \in BOOLEAN :
        audio' = Onward([audio EXCEPT !.todo = n, !.stopping = b])
  <2>1. CASE GetAudio
    <3>1. PICK n \in 1..2 : audio' = Onward([audio EXCEPT !.todo = n])
      BY <2>1 DEF GetAudio
    <3>2. [audio EXCEPT !.todo = n] = [audio EXCEPT !.todo = n, !.stopping = audio.stopping]
          /\ audio.stopping \in BOOLEAN
      BY <1>1 DEF AudioRecords
    <3>3. n \in 0..2
      OBVIOUS
    <3> QED
      BY <3>1, <3>2, <3>3
  <2>2. CASE GetStop
    <3>1. PICK n \in 0..1 : audio' = Onward([audio EXCEPT !.todo = n, !.stopping = TRUE])
      BY <2>2 DEF GetStop
    <3>2. n \in 0..2
      OBVIOUS
    <3> QED
      BY <3>1, <3>2
  <2> QED
    BY <2>1, <2>2
<1>3. [audio EXCEPT !.todo = n, !.stopping = b] \in AudioRecords
  <2>1. n \in Nat
    OBVIOUS
  <2> QED
    BY <1>1, <2>1 DEF AudioRecords
<1>4. /\ audio' \in AudioRecords /\ audio'.pc \in {"frames", "stopping", "getting"}
      /\ audio'.pc = "frames" => audio'.todo >= 1
      /\ audio'.pc = "stopping" => audio'.todo = 0 /\ audio'.stopping
  BY <1>2, <1>3, OnwardGoes
<1>5. UNCHANGED <<frames, vad, detector, onset, turnActive, preRoll, current, attached,
                  asr, owed, missed, lost>>
  BY DEF GetAudio, GetStop, judging
<1> QED
  BY <1>1, <1>4, <1>5, AudioOnward

\* A record of the writer or of the consumer changes, and nothing of the audio task.
LEMMA RecordMoves ==
    ASSUME CaptureInv, NEW s \in AsrSessions, NEW z,
           asr' = [asr EXCEPT ![s] = z], RecordSound(z, frames),
           EverythingOf(z) \subseteq EverythingOf(asr[s]) \cup {STOP},
           EverythingOf(asr[s]) \subseteq EverythingOf(z) \cup lost' \cup missed' \cup {STOP},
           OpenRecord(asr[s]) => OpenRecord(z),
           lost \subseteq lost', missed \subseteq missed',
           current' \in {current, 0},
           UNCHANGED <<audio, frames, vad, detector, onset, turnActive, preRoll, attached, owed>>
    PROVE  CaptureInv'
<1>1. /\ asr \in [AsrSessions -> AsrRecords] /\ AsrSound /\ frames \in Nat /\ Len(preRoll) \in Nat
      /\ Len(preRoll) <= frames
  BY DEF CaptureInv, CaptureTypes, PreRollSound
<1>2. /\ asr' \in [AsrSessions -> AsrRecords] /\ asr'[s] = z
      /\ \A t \in AsrSessions : t # s => asr'[t] = asr[t]
      /\ \A t \in AsrSessions : RecordSound(asr'[t], frames')
      /\ \A t, v \in AsrSessions :
           t # v => EverythingOf(asr'[t]) \cap EverythingOf(asr'[v]) \subseteq {STOP}
      /\ \A t \in AsrSessions : EverythingOf(asr'[t]) \subseteq EverythingOf(asr[t]) \cup {STOP}
      /\ \A f \in Nat : f # STOP /\ Accounted(f) => Accounted(f)'
  <2> DEFINE fresh == {}
  <2>1. /\ EverythingOf(z) \subseteq EverythingOf(asr[s]) \cup fresh \cup {STOP}
        /\ \A t \in AsrSessions : \A e \in EverythingOf(asr[t]) : e \notin fresh
        /\ RecordSound(z, frames') /\ frames' \in {frames, frames + 1}
    OBVIOUS
  <2>2. \A t \in AsrSessions : EverythingOf(asr[t]) \cup fresh \cup {STOP} = EverythingOf(asr[t]) \cup {STOP}
    OBVIOUS
  <2> HIDE DEF fresh
  <2> QED
    BY <1>1, <2>1, <2>2, OneRecordChanges
<1>3. CaptureTypes'
  BY <1>2 DEF CaptureInv, CaptureTypes
<1>4. TurnSound'
  <2>1. ASSUME current' # 0 PROVE OpenRecord(asr'[current'])
    <3>1. current' = current /\ current \in AsrSessions /\ OpenRecord(asr[current])
      BY <2>1 DEF CaptureInv, CaptureTypes, TurnSound
    <3> QED
      BY <1>2, <3>1
  <2> QED
    BY <2>1 DEF CaptureInv, TurnSound
<1>5. PreRollSound' /\ VadSound'
  BY DEF CaptureInv, PreRollSound, VadSound
<1>6. AsrSound'
  <2>1. ASSUME ~turnActive' \/ audio'.pc = "starting", NEW t \in AsrSessions,
               NEW e \in EverythingOf(asr'[t])
        PROVE  e <= frames' - Len(preRoll')
    <3>1. e \in EverythingOf(asr[t]) \/ e = STOP
      BY <1>2, <2>1
    <3>2. e \in EverythingOf(asr[t]) => e <= frames - Len(preRoll)
      BY <2>1 DEF CaptureInv, AsrSound
    <3> QED
      BY <1>1, <3>1, <3>2 DEF STOP
  <2> QED
    BY <1>2, <2>1 DEF AsrSound
<1>7. NothingUnheard'
  BY <1>2, StillHeard DEF CaptureInv
<1> QED
  BY <1>3, <1>4, <1>5, <1>6, <1>7 DEF CaptureInv

LEMMA WriteAsrSafe ==
    ASSUME CaptureInv, NEW s \in AsrSessions, WriteAsr(s) PROVE CaptureInv'
<1>0. PICK r : r = asr[s]
  OBVIOUS
<1>1. /\ RecordSound(r, frames) /\ frames \in Nat /\ r \in AsrRecords
      /\ r.queue \in Seq(Nat) /\ r.writing \in Nat /\ r.sent \in Seq(Nat)
  BY <1>0, AsrFields DEF CaptureInv, CaptureTypes, AsrSound
<1>2. UNCHANGED <<audio, frames, vad, detector, onset, turnActive, preRoll, attached, owed, current, lost>>
  BY DEF WriteAsr, judging
<1>3. CASE r.writer = "getting"
  <2> DEFINE h == Head(r.queue)
             w == IF h = STOP THEN "done" ELSE "writing"
  <2>1. PICK y : y = [r EXCEPT !.queue = Tail(r.queue), !.writing = h, !.writer = w]
    OBVIOUS
  <2>2. r.queue # <<>> /\ missed' = missed /\ asr' = [asr EXCEPT ![s] = y]
    BY <1>0, <1>3, <2>1 DEF WriteAsr
  <2>3. h \in Nat /\ Tail(r.queue) \in Seq(Nat) /\ w \in {"done", "writing"}
    BY <1>1, <2>2, HeadTailProperties
  <2>4. y \in AsrRecords /\ y.queue = Tail(r.queue) /\ y.writing = h /\ y.writer = w
        /\ y.sent = r.sent /\ y.committed = r.committed
    <3> HIDE DEF h, w
    <3> QED
      BY <1>1, <2>1, <2>3 DEF AsrRecords
  <2>5. /\ RecordSound(y, frames) /\ EverythingOf(y) \subseteq EverythingOf(r)
        /\ EverythingOf(r) \subseteq EverythingOf(y) \cup {STOP}
        /\ OpenRecord(r) => OpenRecord(y)
    BY <1>1, <1>3, <2>2, <2>4, TakesNext
  <2> HIDE DEF h, w
  <2> QED
    BY <1>0, <1>2, <2>2, <2>5, RecordMoves
<1>4. CASE r.writer = "writing"
  <2>1. CASE missed' = missed /\ asr' = [asr EXCEPT ![s] = [r EXCEPT !.sent = Append(r.sent, r.writing),
                                                           !.writing = STOP, !.writer = "getting"]]
    <3>1. PICK y : y = [r EXCEPT !.sent = Append(r.sent, r.writing), !.writing = STOP, !.writer = "getting"]
      OBVIOUS
    <3>2. Append(r.sent, r.writing) \in Seq(Nat) /\ STOP \in Nat
      BY <1>1 DEF STOP
    <3>3. y \in AsrRecords /\ y.sent = Append(r.sent, r.writing) /\ y.writing = STOP
          /\ y.writer = "getting" /\ y.queue = r.queue /\ y.committed = r.committed
      BY <1>1, <3>1, <3>2 DEF AsrRecords
    <3>4. /\ RecordSound(y, frames) /\ EverythingOf(y) \subseteq EverythingOf(r) \cup {STOP}
          /\ EverythingOf(r) \subseteq EverythingOf(y)
          /\ OpenRecord(r) => OpenRecord(y)
      BY <1>1, <1>4, <3>3, IsWritten
    <3>5. asr' = [asr EXCEPT ![s] = y]
      BY <2>1, <3>1
    <3> QED
      BY <1>0, <1>2, <2>1, <3>4, <3>5, RecordMoves
  <2>2. CASE /\ missed' = missed \cup {r.writing}
             /\ asr' = [asr EXCEPT ![s] = [r EXCEPT !.writing = STOP, !.writer = "failed"]]
    <3>1. PICK y : y = [r EXCEPT !.writing = STOP, !.writer = "failed"]
      OBVIOUS
    <3>2. STOP \in Nat
      BY DEF STOP
    <3>3. y \in AsrRecords /\ y.sent = r.sent /\ y.writing = STOP
          /\ y.writer = "failed" /\ y.queue = r.queue /\ y.committed = r.committed
      BY <1>1, <3>1, <3>2 DEF AsrRecords
    <3>4. /\ RecordSound(y, frames) /\ EverythingOf(y) \subseteq EverythingOf(r) \cup {STOP}
          /\ EverythingOf(r) \subseteq EverythingOf(y) \cup {r.writing}
          /\ OpenRecord(r) => OpenRecord(y)
      BY <1>1, <1>4, <3>3, IsLeft
    <3>5. asr' = [asr EXCEPT ![s] = y]
      BY <2>2, <3>1
    <3>6. missed \subseteq missed' /\ EverythingOf(r) \subseteq EverythingOf(y) \cup lost' \cup missed' \cup {STOP}
      BY <2>2, <3>4
    <3> QED
      BY <1>0, <1>2, <3>4, <3>5, <3>6, RecordMoves
  <2>3. \/ missed' = missed /\ asr' = [asr EXCEPT ![s] = [r EXCEPT !.sent = Append(r.sent, r.writing),
                                                         !.writing = STOP, !.writer = "getting"]]
        \/ /\ missed' = missed \cup {r.writing}
           /\ asr' = [asr EXCEPT ![s] = [r EXCEPT !.writing = STOP, !.writer = "failed"]]
    BY <1>0, <1>4 DEF WriteAsr
  <2> QED
    BY <2>1, <2>2, <2>3
<1> QED
  BY <1>0, <1>3, <1>4 DEF WriteAsr

LEMMA HeardSafe ==
    ASSUME CaptureInv, NEW s \in AsrSessions, HearFinal(s) \/ CloseAsr(s) PROVE CaptureInv'
<1>0. PICK r : r = asr[s]
  OBVIOUS
<1>1. /\ RecordSound(r, frames) /\ frames \in Nat /\ r \in AsrRecords
  BY <1>0 DEF CaptureInv, CaptureTypes, AsrSound
<1>2. r.writer # "none"
  <2>1. r.consumer # "none"
    BY <1>0 DEF HearFinal, CloseAsr
  <2>2. r.writer = "none" => r = NewAsr
    BY <1>1 DEF RecordSound
  <2> QED
    BY <2>1, <2>2 DEF NewAsr
<1>3. PICK c \in {"none", "reading", "closing", "done"} :
        asr' = [asr EXCEPT ![s] = [r EXCEPT !.consumer = c]]
  BY <1>0 DEF HearFinal, CloseAsr
<1>4. PICK y : y = [r EXCEPT !.consumer = c]
  OBVIOUS
<1>5. /\ y \in AsrRecords /\ y.queue = r.queue /\ y.writing = r.writing /\ y.sent = r.sent
      /\ y.writer = r.writer /\ y.committed = r.committed
  BY <1>1, <1>4 DEF AsrRecords
<1>6. RecordSound(y, frames) /\ EverythingOf(y) = EverythingOf(r) /\ (OpenRecord(r) => OpenRecord(y))
  BY <1>1, <1>2, <1>5, IsHeard
<1>7. asr' = [asr EXCEPT ![s] = y]
  BY <1>3, <1>4
<1>8. /\ UNCHANGED <<audio, frames, vad, detector, onset, turnActive, preRoll, attached, owed, missed, lost>>
      /\ current' \in {current, 0}
  BY DEF HearFinal, CloseAsr, judging
<1> QED
  BY <1>0, <1>6, <1>7, <1>8, RecordMoves

\* A turn is over, and the audio task goes on or ends.
LEMMA TurnLeft ==
    ASSUME CaptureInv, audio.pc \in {"completing", "finishing"}, audio' \in AudioRecords,
           audio'.pc \in {"frames", "stopping", "getting", "dead"},
           audio'.pc = "frames" => audio'.todo >= 1,
           audio'.pc = "stopping" => audio'.todo = 0 /\ audio'.stopping,
           audio.todo = 0 /\ audio.stopping => audio'.pc \in {"stopping", "dead"},
           current = 0, current' = 0, attached' \in AsrSessions \cup {0},
           asr' \in [AsrSessions -> AsrRecords],
           \A s \in AsrSessions : /\ RecordSound(asr'[s], frames)
                                  /\ EverythingOf(asr'[s]) = EverythingOf(asr[s]),
           UNCHANGED <<frames, vad, detector, onset, turnActive, preRoll, owed, missed, lost>>
    PROVE  CaptureInv'
<1>1. CaptureTypes'
  BY DEF CaptureInv, CaptureTypes
<1>2. ~turnActive /\ (detector.speaking => audio.todo = 0 /\ audio.stopping)
      /\ detector.speaking \in BOOLEAN /\ turnActive \in BOOLEAN
  BY DEF CaptureInv, TurnSound, CaptureTypes
<1>3. TurnSound'
  BY <1>2 DEF TurnSound
<1>4. PreRollSound' /\ VadSound'
  BY DEF CaptureInv, PreRollSound, VadSound
<1>5. AsrSound'
  BY <1>2 DEF CaptureInv, AsrSound
<1>6. \A f : Accounted(f) => Accounted(f)'
  BY DEF Accounted
<1>7. NothingUnheard'
  <2>1. ~turnActive' /\ audio.pc # "dead" /\ audio.pc # "starting"
    BY <1>2
  <2> QED
    BY <1>6, <2>1, StillHeard DEF CaptureInv
<1> QED
  BY <1>1, <1>3, <1>4, <1>5, <1>7 DEF CaptureInv

LEMMA CommitAsrSafe == ASSUME CaptureInv, CommitAsr PROVE CaptureInv'
<1>1. /\ audio \in AudioRecords /\ audio.pc = "finishing" /\ attached \in AsrSessions /\ current = 0
      /\ asr \in [AsrSessions -> AsrRecords] /\ frames \in Nat
      /\ \A s \in AsrSessions : RecordSound(asr[s], frames) /\ asr[s] \in AsrRecords
  BY DEF CaptureInv, CaptureTypes, TurnSound, AsrSound, CommitAsr
<1>2. /\ UNCHANGED <<frames, vad, detector, onset, turnActive, preRoll, owed, missed, lost, current>>
      /\ attached' = 0
  BY DEF CommitAsr, judging
<1>3. CASE audio' = Onward(audio) /\ asr' = [asr EXCEPT ![attached].committed = TRUE]
  <2>1. /\ audio' \in AudioRecords /\ audio'.pc \in {"frames", "stopping", "getting"}
        /\ audio'.pc = "frames" => audio'.todo >= 1
        /\ audio'.pc = "stopping" => audio'.todo = 0 /\ audio'.stopping
        /\ audio.todo = 0 /\ audio.stopping => audio'.pc = "stopping"
    BY <1>1, <1>3, OnwardGoes
  <2>2. PICK r : r = asr[attached]
    OBVIOUS
  <2>3. r \in AsrRecords /\ RecordSound(r, frames) /\ r.writer \in {"done", "failed"}
    BY <1>1, <2>2 DEF CommitAsr, WriterOver
  <2>4. PICK y : y = [r EXCEPT !.committed = TRUE]
    OBVIOUS
  <2>5. /\ y \in AsrRecords /\ y.queue = r.queue /\ y.writing = r.writing /\ y.sent = r.sent
        /\ y.writer = r.writer
    BY <2>3, <2>4 DEF AsrRecords
  <2>6. RecordSound(y, frames) /\ EverythingOf(y) = EverythingOf(r)
    <3>1. r.writer # "none"
      BY <2>3
    <3> QED
      BY <1>1, <2>3, <2>5, <3>1, IsHeard
  <2>8. y \in AsrRecords
    BY <2>5
  <2>9. asr' = [asr EXCEPT ![attached] = y]
    BY <1>3, <2>2, <2>4
  <2>10. /\ asr' \in [AsrSessions -> AsrRecords]
         /\ \A s \in AsrSessions : /\ RecordSound(asr'[s], frames)
                                   /\ EverythingOf(asr'[s]) = EverythingOf(asr[s])
    BY <1>1, <2>2, <2>6, <2>8, <2>9
  <2> QED
    BY <1>1, <1>2, <2>1, <2>10, TurnLeft
<1>4. CASE audio' = [audio EXCEPT !.pc = "dead"] /\ asr' = asr
  <2>1. audio' \in AudioRecords /\ audio'.pc = "dead"
    BY <1>1, <1>4 DEF AudioRecords
  <2>2. /\ asr' \in [AsrSessions -> AsrRecords]
        /\ \A s \in AsrSessions : /\ RecordSound(asr'[s], frames)
                                  /\ EverythingOf(asr'[s]) = EverythingOf(asr[s])
    BY <1>1, <1>4
  <2> QED
    BY <1>1, <1>2, <2>1, <2>2, TurnLeft
<1> QED
  BY <1>3, <1>4 DEF CommitAsr

LEMMA FinishTurnSafe == ASSUME CaptureInv, FinishTurn PROVE CaptureInv'
<1>1. /\ audio \in AudioRecords /\ audio.pc = "completing"
      /\ asr \in [AsrSessions -> AsrRecords] /\ frames \in Nat /\ AsrSound
      /\ \A s \in AsrSessions : RecordSound(asr[s], frames) /\ asr[s] \in AsrRecords
      /\ Len(preRoll) \in Nat /\ Len(preRoll) <= frames
  BY DEF CaptureInv, CaptureTypes, AsrSound, FinishTurn, PreRollSound
<1>2. /\ UNCHANGED <<frames, vad, detector, onset, turnActive, preRoll, owed, missed>>
      /\ current \in AsrSessions \cup {0} /\ attached \in AsrSessions \cup {0}
  BY DEF FinishTurn, judging, CaptureInv, CaptureTypes
<1>3. CASE current = 0
  <2>1. audio' = Onward(audio) /\ UNCHANGED <<current, attached, asr, lost>>
    BY <1>3 DEF FinishTurn
  <2>2. /\ audio' \in AudioRecords /\ audio'.pc \in {"frames", "stopping", "getting"}
        /\ audio'.pc = "frames" => audio'.todo >= 1
        /\ audio'.pc = "stopping" => audio'.todo = 0 /\ audio'.stopping
        /\ audio.todo = 0 /\ audio.stopping => audio'.pc = "stopping"
    BY <1>1, <2>1, OnwardGoes
  <2>3. /\ asr' \in [AsrSessions -> AsrRecords]
        /\ \A s \in AsrSessions : /\ RecordSound(asr'[s], frames)
                                  /\ EverythingOf(asr'[s]) = EverythingOf(asr[s])
    BY <1>1, <2>1
  <2> QED
    BY <1>1, <1>2, <1>3, <2>1, <2>2, <2>3, TurnLeft
<1>4. CASE current # 0
  <2>1. PICK c : c = current
    OBVIOUS
  <2>2. PICK r : r = asr[c]
    OBVIOUS
  <2>3. c \in AsrSessions /\ r \in AsrRecords /\ RecordSound(r, frames) /\ OpenRecord(r)
    BY <1>1, <1>2, <1>4, <2>1, <2>2 DEF CaptureInv, TurnSound
  <2>4. PICK z : z = [r EXCEPT !.queue = Enqueued(r.queue, STOP)]
    OBVIOUS
  <2>5. /\ asr' = [asr EXCEPT ![c] = z] /\ lost' = lost \cup Dropped(r.queue)
        /\ audio' = [audio EXCEPT !.pc = "finishing"] /\ attached' = c /\ current' = 0
    BY <1>4, <2>1, <2>2, <2>4 DEF FinishTurn
  <2>6. Enqueued(r.queue, STOP) \in Seq(Nat)
    <3>1. r.queue \in Seq(Nat)
      BY <2>3, AsrFields
    <3>2. (IF Len(r.queue) = AsrSize THEN Tail(r.queue) ELSE r.queue) \in Seq(Nat)
      BY <3>1, GivesUpOldest
    <3> QED
      BY <3>2 DEF Enqueued, STOP
  <2>7. /\ z \in AsrRecords /\ z.queue = Enqueued(r.queue, STOP) /\ z.sent = r.sent
        /\ z.writing = r.writing /\ z.writer = r.writer /\ z.committed = r.committed
    BY <2>3, <2>4, <2>6 DEF AsrRecords
  <2>8. /\ RecordSound(z, frames)
        /\ EverythingOf(z) \subseteq EverythingOf(r) \cup {STOP}
        /\ EverythingOf(r) \subseteq EverythingOf(z) \cup Dropped(r.queue) \cup {STOP}
    BY <1>1, <2>3, <2>7, StopEnqueued
  <2>9. PICK fresh : fresh = {}
    OBVIOUS
  <2>10. /\ EverythingOf(z) \subseteq EverythingOf(asr[c]) \cup fresh \cup {STOP}
         /\ \A t \in AsrSessions : \A e \in EverythingOf(asr[t]) : e \notin fresh
         /\ EverythingOf(asr[c]) \subseteq EverythingOf(z) \cup lost' \cup missed' \cup {STOP}
         /\ lost \subseteq lost' /\ missed \subseteq missed'
         /\ RecordSound(z, frames') /\ frames' \in {frames, frames + 1}
    BY <1>2, <2>2, <2>5, <2>8, <2>9
  <2>11. /\ asr' \in [AsrSessions -> AsrRecords] /\ asr'[c] = z
         /\ \A t \in AsrSessions : RecordSound(asr'[t], frames')
         /\ \A t, v \in AsrSessions :
              t # v => EverythingOf(asr'[t]) \cap EverythingOf(asr'[v]) \subseteq {STOP}
         /\ \A t \in AsrSessions : EverythingOf(asr'[t]) \subseteq EverythingOf(asr[t]) \cup fresh \cup {STOP}
         /\ \A f \in Nat : f # STOP /\ Accounted(f) => Accounted(f)'
    BY <1>1, <2>3, <2>5, <2>10, OneRecordChanges
  <2>12. /\ audio' \in AudioRecords /\ audio'.pc = "finishing" /\ audio'.todo = audio.todo
         /\ audio'.stopping = audio.stopping
    BY <1>1, <2>5 DEF AudioRecords
  <2>13. CaptureTypes'
    BY <1>2, <2>3, <2>5, <2>11, <2>12 DEF CaptureInv, CaptureTypes
  <2>14. ~turnActive /\ (detector.speaking => audio.todo = 0 /\ audio.stopping)
    BY <1>1 DEF CaptureInv, TurnSound
  <2>15. TurnSound'
    BY <1>2, <2>3, <2>5, <2>12, <2>14 DEF TurnSound
  <2>16. PreRollSound' /\ VadSound'
    BY <1>2 DEF CaptureInv, PreRollSound, VadSound
  <2>17. AsrSound'
    <3>1. ASSUME NEW t \in AsrSessions, NEW e \in EverythingOf(asr'[t])
          PROVE  e <= frames' - Len(preRoll')
      <4>1. e \in EverythingOf(asr[t]) \/ e = STOP
        BY <2>9, <2>11, <3>1
      <4>2. e \in EverythingOf(asr[t]) => e <= frames - Len(preRoll)
        BY <2>14 DEF CaptureInv, AsrSound
      <4> QED
        BY <1>1, <1>2, <4>1, <4>2 DEF STOP
    <3> QED
      BY <2>11, <3>1 DEF AsrSound
  <2>18. NothingUnheard'
    BY <1>1, <1>2, <2>11, <2>12, <2>14, StillHeard DEF CaptureInv
  <2> QED
    BY <2>13, <2>15, <2>16, <2>17, <2>18 DEF CaptureInv
<1> QED
  BY <1>3, <1>4

LEMMA SilentSafe == ASSUME CaptureInv, Silent PROVE CaptureInv'
<1>1. /\ audio \in AudioRecords /\ frames \in Nat /\ audio.pc \in {"getting", "stopping"}
      /\ turnActive \in BOOLEAN /\ onset \in Nat
      /\ detector \in [speaking : BOOLEAN, quiet : BOOLEAN, valid : BOOLEAN]
  BY DEF CaptureInv, CaptureTypes, Silent
<1>2. UNCHANGED <<frames, vad, onset, current, attached, asr, owed, missed, lost>>
  BY DEF Silent
<1>3. \A f : Accounted(f) = Accounted(f)'
  BY <1>2 DEF Accounted
<1>4. /\ detector' \in [speaking : BOOLEAN, quiet : BOOLEAN, valid : BOOLEAN]
      /\ audio.pc = "stopping" => detector' = detector
      /\ audio.pc = "getting" => ~detector'.speaking
  <2>1. CASE audio.pc = "stopping"
    <3>1. detector' = detector
      BY <2>1 DEF Silent
    <3> QED
      BY <1>1, <2>1, <3>1
  <2>2. CASE audio.pc # "stopping"
    <3>1. PICK b \in BOOLEAN : detector' = [speaking |-> FALSE, quiet |-> FALSE, valid |-> b]
      BY <2>2 DEF Silent
    <3> QED
      BY <2>2, <3>1
  <2> QED
    BY <2>1, <2>2
<1>5. CASE turnActive
  <2>1. audio' = [audio EXCEPT !.pc = "completing"] /\ turnActive' = FALSE /\ preRoll' = <<>>
    BY <1>5 DEF Silent
  <2>2. /\ audio' \in AudioRecords /\ audio'.pc = "completing" /\ audio'.todo = audio.todo
        /\ audio'.stopping = audio.stopping
    BY <1>1, <2>1 DEF AudioRecords
  <2>3. /\ preRoll' \in Seq(Nat) /\ Len(preRoll') = 0 /\ DOMAIN preRoll' = {}
    BY <2>1
  <2>4. CaptureTypes'
    BY <1>2, <1>4, <2>1, <2>2, <2>3 DEF CaptureInv, CaptureTypes
  <2>5. TurnSound'
    BY <1>1, <1>2, <1>4, <2>1, <2>2 DEF CaptureInv, TurnSound
  <2>6. PreRollSound' /\ VadSound'
    BY <1>1, <1>2, <2>3, UnitsOf DEF CaptureInv, PreRollSound, VadSound
  <2>7. AsrSound'
    <3>1. ASSUME NEW s \in AsrSessions, NEW e \in EverythingOf(asr'[s])
          PROVE  e <= frames' - Len(preRoll')
      <4>1. RecordSound(asr[s], frames) /\ e \in EverythingOf(asr[s])
        BY <1>2, <3>1 DEF CaptureInv, AsrSound
      <4>2. e \in 0..frames
        BY <1>1, <4>1, InRecord
      <4> QED
        BY <1>1, <1>2, <2>3, <4>2
    <3>2. /\ \A s \in AsrSessions : RecordSound(asr'[s], frames')
          /\ \A s, t \in AsrSessions :
               s # t => EverythingOf(asr'[s]) \cap EverythingOf(asr'[t]) \subseteq {STOP}
      BY <1>2 DEF CaptureInv, AsrSound
    <3> QED
      BY <3>1, <3>2 DEF AsrSound
  <2>8. NothingUnheard'
    <3>1. \A f \in 1..frames : frames - PreRollSize < f => Accounted(f)'
      BY <1>1, <1>3, <1>5 DEF CaptureInv, NothingUnheard
    <3>2. \A f \in 1..frames : ~Rolls(f)'
      BY <1>1, <1>2, <2>3 DEF Rolls
    <3>3. vad.state = "speaking" => \A f \in onset..frames : Accounted(f)'
      BY <1>1, <1>3 DEF CaptureInv, NothingUnheard
    <3>4. \A s \in AsrSessions : \A f \in owed[s] : f \in 1..frames /\ Accounted(f)'
      BY <1>3 DEF CaptureInv, NothingUnheard
    <3> QED
      BY <1>2, <2>1, <3>1, <3>3, <3>4 DEF NothingUnheard
  <2> QED
    BY <2>4, <2>5, <2>6, <2>7, <2>8 DEF CaptureInv
<1>6. CASE ~turnActive
  <2>1. audio.pc = "stopping" /\ detector' = detector
    BY <1>1, <1>4, <1>6 DEF Silent, CaptureInv, TurnSound
  <2>2. audio' = [audio EXCEPT !.pc = "done"] /\ UNCHANGED <<turnActive, preRoll>>
    BY <1>6, <2>1 DEF Silent
  <2>3. audio' \in AudioRecords /\ audio'.pc = "done"
    BY <1>1, <2>2 DEF AudioRecords
  <2>4. CaptureTypes'
    BY <1>2, <2>1, <2>2, <2>3 DEF CaptureInv, CaptureTypes
  <2>5. TurnSound'
    BY <1>2, <2>1, <2>2, <2>3 DEF CaptureInv, TurnSound
  <2>6. PreRollSound' /\ VadSound' /\ AsrSound'
    BY <1>2, <2>1, <2>2, <2>3 DEF CaptureInv, PreRollSound, VadSound, AsrSound
  <2>7. NothingUnheard'
    BY <1>2, <1>3, <1>6, <2>1, <2>2, <2>3, StillHeard DEF CaptureInv
  <2> QED
    BY <2>4, <2>5, <2>6, <2>7 DEF CaptureInv
<1> QED
  BY <1>1, <1>5, <1>6

LEMMA SeqOfLatest ==
    ASSUME PreRollSound, preRoll \in Seq(Nat), frames \in Nat
    PROVE  /\ Len(preRoll) \in Nat /\ Len(preRoll) <= frames
           /\ \A f \in 1..frames : Rolls(f) => f \in ToSet(preRoll)
           /\ \A f \in ToSet(preRoll) : f \in 1..frames /\ frames - Len(preRoll) < f
<1> DEFINE k == Len(preRoll)
<1>1. /\ k \in Nat /\ DOMAIN preRoll = 1..k /\ k <= frames
      /\ \A i \in DOMAIN preRoll : preRoll[i] = (frames - k) + i
  BY DEF PreRollSound
<1>2. ASSUME NEW f \in 1..frames, Rolls(f) PROVE f \in ToSet(preRoll)
  <2>1. f > frames - k
    BY <1>2 DEF Rolls
  <2> HIDE DEF k
  <2>2. f - (frames - k) \in 1..k
    BY <1>1, <2>1
  <2>3. preRoll[f - (frames - k)] = f
    BY <1>1, <2>2
  <2> QED
    BY <1>1, <2>2, <2>3 DEF ToSet
<1>3. ASSUME NEW f \in ToSet(preRoll) PROVE f \in 1..frames /\ frames - k < f
  <2>1. PICK i \in DOMAIN preRoll : f = preRoll[i]
    BY DEF ToSet
  <2> HIDE DEF k
  <2> QED
    BY <1>1, <2>1
<1> QED
  BY <1>1, <1>2, <1>3

LEMMA StartAsrSafe == ASSUME CaptureInv, StartAsr PROVE CaptureInv'
<1>1. /\ audio \in AudioRecords /\ audio.pc = "starting" /\ audio.todo >= 1 /\ audio.todo \in Nat
      /\ turnActive /\ detector.speaking /\ vad.state = "speaking" /\ current = 0
      /\ frames \in Nat /\ onset \in 1..frames /\ preRoll \in Seq(Nat)
      /\ asr \in [AsrSessions -> AsrRecords] /\ owed \in [AsrSessions -> SUBSET Nat]
      /\ AsrSound /\ PreRollSound /\ VadSound /\ NothingUnheard
  BY DEF CaptureInv, CaptureTypes, TurnSound, VadSound, StartAsr, AudioRecords
<1>2. /\ Len(preRoll) \in Nat /\ Len(preRoll) <= frames
      /\ \A f \in 1..frames : Rolls(f) => f \in ToSet(preRoll)
      /\ \A f \in ToSet(preRoll) : f \in 1..frames /\ frames - Len(preRoll) < f
  BY <1>1, SeqOfLatest
<1>3. UNCHANGED <<frames, vad, detector, onset, turnActive, missed>>
  BY DEF StartAsr, judging
<1>4. CASE audio' = [audio EXCEPT !.pc = "dead"] /\ UNCHANGED <<current, attached, asr, owed, lost, preRoll>>
  <2>1. audio' \in AudioRecords /\ audio'.pc = "dead"
    BY <1>1, <1>4 DEF AudioRecords
  <2>2. CaptureTypes'
    BY <1>3, <1>4, <2>1 DEF CaptureInv, CaptureTypes
  <2>3. TurnSound'
    BY <1>1, <1>3, <1>4, <2>1 DEF TurnSound
  <2>4. PreRollSound' /\ VadSound' /\ AsrSound'
    BY <1>1, <1>3, <1>4, <2>1 DEF PreRollSound, VadSound, AsrSound
  <2>5. \A f : Accounted(f) = Accounted(f)'
    BY <1>3, <1>4 DEF Accounted
  <2>6. NothingUnheard'
    BY <1>1, <1>3, <1>4, <2>1, <2>5, StillHeard DEF CaptureInv
  <2> QED
    BY <2>2, <2>3, <2>4, <2>6 DEF CaptureInv
<1>5. CASE \E s \in AsrSessions :
          /\ asr[s].writer = "none"
          /\ current' = s /\ attached' = s
          /\ asr' = [asr EXCEPT ![s].writer = "getting", ![s].consumer = "reading",
                                ![s].queue = EnqueuedAll(preRoll)]
          /\ lost' = lost \cup (ToSet(preRoll) \ ToSet(EnqueuedAll(preRoll)))
          /\ owed' = [owed EXCEPT ![s] = onset..frames]
          /\ preRoll' = <<>>
          /\ audio' = Onward([audio EXCEPT !.todo = audio.todo - 1])
  <2>1. PICK s \in AsrSessions :
          /\ asr[s].writer = "none"
          /\ current' = s /\ attached' = s
          /\ asr' = [asr EXCEPT ![s].writer = "getting", ![s].consumer = "reading",
                                ![s].queue = EnqueuedAll(preRoll)]
          /\ lost' = lost \cup (ToSet(preRoll) \ ToSet(EnqueuedAll(preRoll)))
          /\ owed' = [owed EXCEPT ![s] = onset..frames]
          /\ preRoll' = <<>>
          /\ audio' = Onward([audio EXCEPT !.todo = audio.todo - 1])
    BY <1>5
  <2>2. asr[s] = NewAsr
    BY <1>1, <2>1 DEF AsrSound, RecordSound
  <2>3. PICK z : z = [NewAsr EXCEPT !.writer = "getting", !.consumer = "reading",
                                    !.queue = EnqueuedAll(preRoll)]
    OBVIOUS
  <2>4. asr' = [asr EXCEPT ![s] = z]
    <3>1. asr' = [asr EXCEPT ![s] = [asr[s] EXCEPT !.writer = "getting", !.consumer = "reading",
                                                   !.queue = EnqueuedAll(preRoll)]]
      BY <1>1, <2>1
    <3> QED
      BY <2>2, <2>3, <3>1
  <2>5. /\ RecordSound(z, frames) /\ OpenRecord(z)
        /\ ToSet(EnqueuedAll(preRoll)) \subseteq EverythingOf(z)
        /\ EverythingOf(z) \subseteq ToSet(preRoll) \cup {STOP}
    <3>1. \A i \in DOMAIN preRoll : preRoll[i] = (frames - Len(preRoll)) + i
      BY <1>1 DEF PreRollSound
    <3> QED
      BY ZenonT(40), <1>1, <1>2, <2>3, <3>1, PreRollEnqueued
  <2>6. EverythingOf(asr[s]) \subseteq {STOP}
    BY <2>2 DEF EverythingOf, NewAsr, ToSet
  <2>7. PICK fresh : fresh = ToSet(preRoll)
    OBVIOUS
  <2>8. \A t \in AsrSessions : \A e \in EverythingOf(asr[t]) : e \notin fresh
    <3> SUFFICES ASSUME NEW t \in AsrSessions, NEW e \in EverythingOf(asr[t]), e \in fresh PROVE FALSE
      OBVIOUS
    <3>1. e <= frames - Len(preRoll)
      BY <1>1 DEF AsrSound
    <3>2. e \in 1..frames /\ frames - Len(preRoll) < e
      BY <1>2, <2>7
    <3> QED
      BY <1>1, <1>2, <3>1, <3>2
  <2>9. /\ EverythingOf(z) \subseteq EverythingOf(asr[s]) \cup fresh \cup {STOP}
        /\ EverythingOf(asr[s]) \subseteq EverythingOf(z) \cup lost' \cup missed' \cup {STOP}
        /\ lost \subseteq lost' /\ missed \subseteq missed'
        /\ RecordSound(z, frames') /\ frames' \in {frames, frames + 1}
    BY <1>3, <2>1, <2>5, <2>6, <2>7
  <2>10. /\ asr' \in [AsrSessions -> AsrRecords] /\ asr'[s] = z
         /\ \A t \in AsrSessions : RecordSound(asr'[t], frames')
         /\ \A t, v \in AsrSessions :
              t # v => EverythingOf(asr'[t]) \cap EverythingOf(asr'[v]) \subseteq {STOP}
         /\ \A f \in Nat : f # STOP /\ Accounted(f) => Accounted(f)'
         /\ \A f \in EverythingOf(z) : Accounted(f)'
    BY <1>1, <2>4, <2>8, <2>9, OneRecordChanges
  <2>11. \A f \in ToSet(preRoll) : Accounted(f)'
    <3>1. \A f \in ToSet(preRoll) : f \in lost' \/ f \in EverythingOf(z)
      BY <2>1, <2>5
    <3> QED
      BY <2>10, <3>1 DEF Accounted
  <2>12. \A f \in 1..frames : Accounted(f) => Accounted(f)'
    BY <1>1, <2>10 DEF STOP
  <2>13. /\ audio' \in AudioRecords /\ audio'.pc \in {"frames", "stopping", "getting"}
         /\ audio'.pc = "frames" => audio'.todo >= 1
         /\ audio'.pc = "stopping" => audio'.todo = 0 /\ audio'.stopping
    <3>1. [audio EXCEPT !.todo = audio.todo - 1] \in AudioRecords
      <4>1. audio.todo - 1 \in Nat
        BY <1>1
      <4> QED
        BY <1>1, <4>1 DEF AudioRecords
    <3> QED
      BY <2>1, <3>1, OnwardGoes
  <2>14. preRoll' \in Seq(Nat) /\ Len(preRoll') = 0 /\ DOMAIN preRoll' = {}
    BY <2>1
  <2>15. owed' \in [AsrSessions -> SUBSET Nat]
    <3>1. onset..frames \subseteq Nat
      BY <1>1
    <3> QED
      BY <1>1, <2>1, <3>1
  <2>16. CaptureTypes'
    BY <1>3, <2>1, <2>10, <2>13, <2>14, <2>15 DEF CaptureInv, CaptureTypes
  <2>17. TurnSound'
    <3>1. s # 0 /\ current' = s /\ attached' = s /\ asr'[current'] = z
      BY <2>1, <2>10, CaptureAssumption
    <3> QED
      BY <1>1, <1>3, <2>5, <2>13, <3>1 DEF TurnSound
  <2>18. PreRollSound' /\ VadSound'
    BY <1>1, <1>3, <2>14, UnitsOf DEF PreRollSound, VadSound
  <2>19. AsrSound'
    BY <1>1, <1>3, <2>10, <2>13 DEF AsrSound
  <2>20. NothingUnheard'
    <3>1. \A f \in 1..frames : Rolls(f) => Accounted(f)'
      BY <1>2, <2>11
    <3>2. \A f \in 1..frames : frames - PreRollSize < f => Accounted(f)'
      BY <1>1, <2>12, <3>1 DEF NothingUnheard
    <3>3. \A f \in 1..frames : ~Rolls(f)'
      BY <1>1, <1>3, <2>14 DEF Rolls
    <3>4. \A f \in onset..frames : f \in 1..frames /\ Accounted(f)'
      <4> SUFFICES ASSUME NEW f \in onset..frames PROVE f \in 1..frames /\ Accounted(f)'
        OBVIOUS
      <4>1. f \in 1..frames
        BY <1>1
      <4>2. Accounted(f) \/ Rolls(f)
        BY <1>1 DEF NothingUnheard
      <4> QED
        BY <2>12, <3>1, <4>1, <4>2
    <3>5. \A t \in AsrSessions : \A f \in owed'[t] : f \in 1..frames /\ Accounted(f)'
      <4>1. \A t \in AsrSessions : \A f \in owed[t] : f \in 1..frames /\ Accounted(f)
        BY <1>1 DEF NothingUnheard
      <4>2. owed'[s] = onset..frames /\ \A t \in AsrSessions : t # s => owed'[t] = owed[t]
        BY <1>1, <2>1
      <4> QED
        BY <2>12, <3>4, <4>1, <4>2
    <3> QED
      BY <1>3, <3>2, <3>3, <3>4, <3>5 DEF NothingUnheard
  <2> QED
    BY <2>16, <2>17, <2>18, <2>19, <2>20 DEF CaptureInv
<1> QED
  BY <1>4, <1>5 DEF StartAsr

\* A frame is processed: what the pre-roll no longer has is accounted for, and so is all of
\* the utterance that the pre-roll does not have.
LEMMA FrameHeard ==
    ASSUME CaptureInv, audio.pc = "frames", NEW n, n = frames + 1, frames' = n, onset' \in Nat, VadSound',
           vad'.state = "speaking" =>
             \/ vad.state = "speaking" /\ onset' = onset
             \/ onset' > frames' - PreRollSize,
           \A s \in AsrSessions : \A f \in owed'[s] : f \in 1..frames' /\ Accounted(f)',
           \A f \in 1..frames : Accounted(f) => Accounted(f)',
           \/ audio'.pc = "starting" /\ preRoll' = Rolled(frames')
           \/ /\ audio'.pc # "starting" /\ preRoll' \in {Rolled(frames'), <<>>}
              /\ turnActive => Accounted(n)'
              /\ turnActive' \/ preRoll' = <<>> \/ vad'.state = "speaking" => turnActive
    PROVE  NothingUnheard'
<1> DEFINE p == Rolled(frames + 1)
<1>1. /\ frames \in Nat /\ preRoll \in Seq(Nat) /\ PreRollSound /\ VadSound /\ NothingUnheard
      /\ onset \in Nat
  BY DEF CaptureInv, CaptureTypes
<1>2. /\ p \in Seq(Nat) /\ Len(p) \in Nat /\ Len(preRoll) \in Nat
      /\ Len(p) <= PreRollSize /\ Len(p) <= frames + 1 /\ 1 <= Len(p)
      /\ \/ frames + 1 - Len(p) = frames - Len(preRoll)
         \/ Len(p) = PreRollSize /\ frames + 1 - Len(p) >= frames - Len(preRoll)
  BY <1>1, RolledSound
<1> HIDE DEF p
<1>3. /\ \A f \in 1..frames : frames - PreRollSize < f /\ ~Rolls(f) => Accounted(f)
      /\ turnActive => \A f \in 1..frames : Rolls(f) => Accounted(f)
      /\ vad.state = "speaking" => \A f \in onset..frames : Accounted(f)
  BY <1>1 DEF NothingUnheard
<1>4. preRoll' = p \/ preRoll' = <<>>
  BY DEF p
<1>5. ASSUME NEW f \in 1..frames', frames' - PreRollSize < f, ~Rolls(f)', preRoll' = p
      PROVE  Accounted(f)'
  <2>1. ~(f > frames + 1 - Len(p)) /\ f \in Nat
    BY <1>1, <1>5 DEF Rolls
  <2>2. f \in 1..frames /\ frames - PreRollSize < f /\ ~(f > frames - Len(preRoll))
    BY <1>1, <1>2, <1>5, <2>1, UnitsOf
  <2>3. ~Rolls(f)
    BY <2>2 DEF Rolls
  <2> QED
    BY <1>3, <2>2, <2>3
<1>6. \A f \in 1..frames' : f = n \/ f \in 1..frames
  BY <1>1
<1>7. \A f \in 1..frames : frames' - PreRollSize < f => frames - PreRollSize < f
  BY <1>1, UnitsOf
<1>8. CASE audio'.pc = "starting" /\ preRoll' = p
  <2>1. \A f \in 1..frames' : frames' - PreRollSize < f /\ ~Rolls(f)' => Accounted(f)'
    BY <1>5, <1>8
  <2>2. Rolls(n)'
    BY <1>1, <1>2, <1>8 DEF Rolls
  <2>3. ASSUME vad'.state = "speaking", NEW f \in onset'..frames', ~Rolls(f)'
        PROVE  Accounted(f)'
    <3>0. f \in 1..frames'
      <4>1. onset' \in 1..frames'
        BY <2>3 DEF VadSound
      <4> QED
        BY <1>1, <2>3, <4>1
    <3>1. f \in 1..frames
      BY <1>6, <2>2, <2>3, <3>0
    <3>2. CASE vad.state = "speaking" /\ onset' = onset
      <4>1. f \in onset..frames
        BY <1>1, <2>3, <3>1, <3>2
      <4> QED
        BY <1>3, <3>1, <3>2, <4>1
    <3>3. CASE onset' > frames' - PreRollSize
      <4>1. frames' - PreRollSize < f
        BY <1>1, <2>3, <3>3, UnitsOf
      <4> QED
        BY <2>1, <2>3, <3>0, <4>1
    <3> QED
      BY <2>3, <3>2, <3>3
  <2> QED
    BY <1>8, <2>1, <2>3 DEF NothingUnheard
<1>9. CASE ~(audio'.pc = "starting" /\ preRoll' = p)
  <2>1. /\ audio'.pc # "starting" /\ (turnActive => Accounted(n)')
        /\ turnActive' \/ preRoll' = <<>> \/ vad'.state = "speaking" => turnActive
    BY <1>9 DEF p
  <2>2. turnActive => Accounted(n)'
    BY <2>1
  <2>3. ASSUME turnActive, NEW f \in 1..frames', frames' - PreRollSize < f PROVE Accounted(f)'
    <3>1. CASE f = n
      BY <2>2, <2>3, <3>1
    <3>2. CASE f \in 1..frames
      BY <1>3, <1>7, <2>3, <3>2
    <3> QED
      BY <1>6, <3>1, <3>2
  <2>4. \A f \in 1..frames' : frames' - PreRollSize < f /\ ~Rolls(f)' => Accounted(f)'
    BY <1>4, <1>5, <2>1, <2>3
  <2>5. ASSUME turnActive', NEW f \in 1..frames', Rolls(f)' PROVE Accounted(f)'
    <3>1. CASE f = n
      BY <2>1, <2>2, <2>5, <3>1
    <3>2. CASE f \in 1..frames
      <4>1. preRoll' = p
        <5>1. CASE preRoll' = <<>>
          <6>1. Len(preRoll') = 0
            BY <5>1
          <6>2. f > frames + 1
            BY <1>1, <2>5, <3>2, <6>1 DEF Rolls
          <6> QED
            BY <1>1, <3>2, <6>2
        <5> QED
          BY <1>4, <5>1
      <4>2. f > frames + 1 - Len(p)
        BY <1>1, <1>2, <2>5, <4>1 DEF Rolls
      <4>3. f > frames - Len(preRoll)
        BY <1>1, <1>2, <3>2, <4>2
      <4> QED
        BY <1>3, <2>1, <2>5, <3>2, <4>3 DEF Rolls
    <3> QED
      BY <1>6, <3>1, <3>2
  <2>6. ASSUME vad'.state = "speaking", NEW f \in onset'..frames' PROVE Accounted(f)'
    <3>0. f \in 1..frames'
      <4>1. onset' \in 1..frames'
        BY <2>6 DEF VadSound
      <4> QED
        BY <1>1, <2>6, <4>1
    <3>1. CASE f = n
      BY <2>1, <2>2, <2>6, <3>1
    <3>2. CASE f \in 1..frames /\ vad.state = "speaking" /\ onset' = onset
      <4>1. f \in onset..frames
        BY <1>1, <2>6, <3>2
      <4> QED
        BY <1>3, <3>2, <4>1
    <3>3. CASE onset' > frames' - PreRollSize
      <4>1. frames' - PreRollSize < f
        BY <1>1, <2>6, <3>3, UnitsOf
      <4> QED
        BY <2>1, <2>3, <2>6, <3>0, <4>1
    <3> QED
      BY <1>6, <2>6, <3>0, <3>1, <3>2, <3>3
  <2> QED
    BY <2>1, <2>4, <2>5, <2>6 DEF NothingUnheard
<1> QED
  BY <1>8, <1>9

LEMMA FrameSafe == ASSUME CaptureInv, Frame PROVE CaptureInv'
<1>1. /\ audio \in AudioRecords /\ audio.pc = "frames" /\ audio.todo >= 1 /\ audio.todo \in Nat
      /\ turnActive = detector.speaking /\ frames \in Nat /\ preRoll \in Seq(Nat)
      /\ detector \in [speaking : BOOLEAN, quiet : BOOLEAN, valid : BOOLEAN]
      /\ asr \in [AsrSessions -> AsrRecords] /\ owed \in [AsrSessions -> SUBSET Nat]
      /\ CaptureTypes /\ AsrSound /\ PreRollSound /\ VadSound /\ NothingUnheard
      /\ frames' = frames + 1 /\ UNCHANGED <<current, attached>>
      /\ {current, attached} \subseteq AsrSessions \cup {0}
  BY DEF CaptureInv, CaptureTypes, TurnSound, Frame, AudioRecords
<1>2. PICK n : n = frames + 1
  OBVIOUS
<1>3. frames' = n /\ n \in Nat /\ n # STOP /\ n \in 1..n
  BY <1>1, <1>2 DEF STOP
<1>4. PICK speech \in BOOLEAN, started \in BOOLEAN, completed \in BOOLEAN :
          /\ Judged(speech)
          /\ Detected(vad'.state = "speaking", started, completed)
          /\ IF started
             THEN /\ audio' = [audio EXCEPT !.pc = "starting"]
                  /\ turnActive' = TRUE
                  /\ preRoll' = Rolled(frames')
                  /\ UNCHANGED <<asr, missed, lost, owed>>
             ELSE /\ IF turnActive /\ current # 0
                     THEN /\ asr' = [asr EXCEPT ![attached].queue = Enqueued(asr[attached].queue, frames')]
                          /\ lost' = lost \cup Dropped(asr[attached].queue)
                          /\ owed' = [owed EXCEPT ![attached] = owed[attached] \cup {frames'}]
                          /\ UNCHANGED missed
                     ELSE /\ missed' = IF turnActive THEN missed \cup {frames'} ELSE missed
                          /\ UNCHANGED <<asr, lost, owed>>
                  /\ turnActive' = (turnActive /\ ~completed)
                  /\ preRoll' = IF completed THEN <<>> ELSE Rolled(frames')
                  /\ audio' = IF completed
                              THEN [audio EXCEPT !.pc = "completing", !.todo = audio.todo - 1]
                              ELSE Onward([audio EXCEPT !.todo = audio.todo - 1])
  BY DEF Frame
<1>5. /\ vad' \in [state : {"quiet", "starting", "speaking", "stopping"}, seen : Nat,
                   quiet : Nat, units : Nat]
      /\ onset' \in Nat /\ VadSound'
      /\ vad'.state = "speaking" =>
           \/ vad.state = "speaking" /\ onset' = onset
           \/ onset' > frames' - PreRollSize
  BY <1>1, <1>4, JudgedSound
<1>6. /\ started = (vad'.state = "speaking" /\ ~detector.speaking)
      /\ completed => detector.speaking
      /\ detector' \in [speaking : BOOLEAN, quiet : BOOLEAN, valid : BOOLEAN]
      /\ completed => ~detector'.speaking
      /\ ~completed => detector'.speaking = (detector.speaking \/ vad'.state = "speaking")
  <2>1. /\ started = (vad'.state = "speaking" /\ ~detector.speaking)
        /\ completed => detector.speaking
    BY <1>4 DEF Detected
  <2>2. CASE completed
    <3>1. PICK b \in BOOLEAN : detector' = [speaking |-> FALSE, quiet |-> FALSE, valid |-> b]
      BY <1>4, <2>2 DEF Detected
    <3> QED
      BY <2>1, <2>2, <3>1
  <2>3. CASE ~completed
    <3>1. detector' = [detector EXCEPT !.speaking = (detector.speaking \/ vad'.state = "speaking"),
                                       !.quiet = (~(vad'.state = "speaking") /\ detector.speaking)]
      BY <1>4, <2>3 DEF Detected
    <3> QED
      BY <1>1, <2>1, <2>3, <3>1
  <2> QED
    BY <2>2, <2>3
<1>7. PICK p : p = Rolled(frames + 1)
  OBVIOUS
<1>8. /\ p \in Seq(Nat) /\ Len(p) \in Nat /\ Len(preRoll) \in Nat
      /\ Len(p) <= PreRollSize /\ Len(p) <= n /\ 1 <= Len(p)
      /\ \A i \in DOMAIN p : p[i] = (n - Len(p)) + i
      /\ n - Len(p) >= frames - Len(preRoll)
  <2>1. /\ p \in Seq(Nat) /\ Len(p) \in Nat /\ Len(preRoll) \in Nat
        /\ Len(p) <= PreRollSize /\ Len(p) <= frames + 1 /\ 1 <= Len(p)
        /\ \A i \in DOMAIN p : p[i] = (frames + 1 - Len(p)) + i
        /\ \/ frames + 1 - Len(p) = frames - Len(preRoll)
           \/ Len(p) = PreRollSize /\ frames + 1 - Len(p) >= frames - Len(preRoll)
    BY <1>1, <1>7, RolledSound
  <2>2. n - Len(p) >= frames - Len(preRoll)
    BY <1>1, <1>2, <2>1
  <2>3. Len(p) <= n
    BY <1>2, <2>1
  <2>4. \A i \in DOMAIN p : p[i] = (n - Len(p)) + i
    <3> SUFFICES ASSUME NEW i \in DOMAIN p PROVE p[i] = (n - Len(p)) + i
      OBVIOUS
    <3>2. p[i] = (frames + 1 - Len(p)) + i
      BY <2>1
    <3>3. i \in Nat /\ p[i] \in Nat
      BY <2>1
    <3> QED
      <4>1. PICK k : k = Len(p)
        OBVIOUS
      <4>2. k \in Nat /\ p[i] = (frames + 1 - k) + i
        BY <2>1, <3>2, <4>1
      <4>3. p[i] = (n - k) + i
        BY <1>1, <1>2, <3>3, <4>2
      <4> QED
        BY <4>1, <4>3
  <2> QED
    BY <2>1, <2>2, <2>3, <2>4
<1>9. preRoll' = p \/ (preRoll' = <<>> /\ completed /\ ~started)
  <2>1. p = Rolled(frames')
    BY <1>1, <1>7
  <2>2. preRoll' = Rolled(frames') \/ (preRoll' = <<>> /\ completed /\ ~started)
    BY <1>4
  <2> QED
    BY <2>1, <2>2
<1>10. PreRollSound' /\ preRoll' \in Seq(Nat)
  <2>1. CASE preRoll' = p
    BY <1>3, <1>8, <2>1 DEF PreRollSound
  <2>2. CASE preRoll' = <<>>
    <3>1. preRoll' \in Seq(Nat) /\ Len(preRoll') = 0 /\ DOMAIN preRoll' = {}
      BY <2>2
    <3> QED
      BY <1>3, <3>1, UnitsOf DEF PreRollSound
  <2> QED
    BY <1>9, <2>1, <2>2
<1>11. n - Len(preRoll') >= frames - Len(preRoll)
  <2>1. CASE preRoll' = p
    BY <1>8, <2>1
  <2>2. CASE preRoll' = <<>>
    <3>1. Len(preRoll') = 0
      BY <2>2
    <3> QED
      BY <1>1, <1>2, <1>8, <3>1
  <2> QED
    BY <1>9, <2>1, <2>2

<1>12. CASE started
  <2>1. /\ audio' = [audio EXCEPT !.pc = "starting"] /\ turnActive' = TRUE
        /\ preRoll' = p /\ UNCHANGED <<asr, missed, lost, owed>>
    BY <1>1, <1>4, <1>7, <1>12
  <2>2. ~detector.speaking /\ vad'.state = "speaking" /\ ~turnActive /\ ~completed
    BY <1>1, <1>6, <1>12
  <2>3. detector'.speaking
    BY <1>6, <2>2
  <2>4. /\ audio' \in AudioRecords /\ audio'.pc = "starting" /\ audio'.todo = audio.todo
    BY <1>1, <2>1 DEF AudioRecords
  <2>5. CaptureTypes'
    BY <1>1, <1>3, <1>5, <1>6, <1>10, <2>1, <2>4 DEF CaptureTypes
  <2>6. current = 0
    BY <1>1, <2>2 DEF CaptureInv, TurnSound
  <2>7. TurnSound'
    BY <1>1, <2>1, <2>2, <2>3, <2>4, <2>6 DEF TurnSound
  <2>8. \A s \in AsrSessions : RecordSound(asr[s], n)
    BY <1>1, <1>2, RecordLater DEF AsrSound
  <2>9. ASSUME NEW s \in AsrSessions, NEW e \in EverythingOf(asr[s]) PROVE e <= n - Len(preRoll')
    <3>1. e <= frames - Len(preRoll) /\ e \in Nat
      <4>1. e \in 0..frames
        BY <1>1, <2>9, InRecord DEF AsrSound
      <4> QED
        BY <1>1, <2>2, <2>9, <4>1 DEF AsrSound
    <3>2. Len(preRoll') \in Nat
      BY <1>8, <2>1
    <3> QED
      BY <1>1, <1>3, <1>8, <1>11, <3>1, <3>2
  <2>10. AsrSound'
    BY <1>1, <1>3, <2>1, <2>8, <2>9 DEF AsrSound
  <2>11. \A f : Accounted(f) = Accounted(f)'
    BY <2>1 DEF Accounted
  <2>12. \A s \in AsrSessions : \A f \in owed'[s] : f \in 1..frames' /\ Accounted(f)'
    <3>1. \A f \in 1..frames : f \in 1..frames'
      BY <1>1
    <3> QED
      BY <1>1, <2>1, <2>11, <3>1 DEF NothingUnheard
  <2>13. NothingUnheard'
    <3>1. preRoll' = Rolled(frames')
      BY <1>4, <1>12
    <3> QED
      BY <1>1, <1>2, <1>3, <1>5, <2>4, <2>11, <2>12, <3>1, FrameHeard
  <2> QED
    BY <1>5, <1>10, <2>5, <2>7, <2>10, <2>13 DEF CaptureInv
<1>13. CASE ~started
  <2>1. /\ turnActive' = (turnActive /\ ~completed)
        /\ audio' = IF completed
                    THEN [audio EXCEPT !.pc = "completing", !.todo = audio.todo - 1]
                    ELSE Onward([audio EXCEPT !.todo = audio.todo - 1])
    BY <1>4, <1>13
  <2>2. /\ audio' \in AudioRecords /\ audio'.pc \in {"completing", "frames", "stopping", "getting"}
        /\ audio'.pc = "frames" => audio'.todo >= 1
        /\ audio'.pc = "stopping" => audio'.todo = 0 /\ audio'.stopping
        /\ audio'.pc = "completing" <=> completed
    <3>1. audio.todo - 1 \in Nat
      BY <1>1
    <3>2. CASE completed
      BY <1>1, <2>1, <3>1, <3>2 DEF AudioRecords
    <3>3. CASE ~completed
      <4>1. [audio EXCEPT !.todo = audio.todo - 1] \in AudioRecords
        BY <1>1, <3>1 DEF AudioRecords
      <4>2. audio' = Onward([audio EXCEPT !.todo = audio.todo - 1])
        BY <2>1, <3>3
      <4>3. /\ audio' \in AudioRecords /\ audio'.pc \in {"frames", "stopping", "getting"}
            /\ audio'.pc = "frames" => audio'.todo >= 1
            /\ audio'.pc = "stopping" => audio'.todo = 0 /\ audio'.stopping
        BY <4>1, <4>2, OnwardGoes
      <4> QED
        BY <3>3, <4>3
    <3> QED
      BY <3>2, <3>3
  <2>3. /\ completed => turnActive /\ ~turnActive' /\ ~detector'.speaking
        /\ ~completed => turnActive' = turnActive /\ detector'.speaking = detector.speaking
        /\ vad'.state = "speaking" => turnActive
    BY <1>1, <1>6, <1>13, <2>1
  <2>4. current # 0 => attached = current /\ OpenRecord(asr[current]) /\ turnActive
    BY <1>1 DEF CaptureInv, TurnSound
  <2>5. ASSUME current # 0 => OpenRecord(asr'[current]) PROVE TurnSound'
    <3>1. audio'.pc \notin {"starting", "finishing"}
      BY <2>2
    <3>2. current' # 0 => /\ attached' = current' /\ OpenRecord(asr'[current'])
                          /\ turnActive' \/ audio'.pc = "completing"
      BY <1>1, <2>2, <2>3, <2>4, <2>5
    <3>3. audio'.pc \in {"getting", "frames"} => turnActive' = detector'.speaking
      BY <1>1, <2>2, <2>3
    <3>4. audio'.pc = "completing" => ~turnActive' /\ ~detector'.speaking
      BY <2>2, <2>3
    <3> QED
      BY <2>2, <3>1, <3>2, <3>3, <3>4 DEF TurnSound
  <2>6. ASSUME asr' \in [AsrSessions -> AsrRecords], owed' \in [AsrSessions -> SUBSET Nat] PROVE CaptureTypes'
    BY <1>1, <1>3, <1>5, <1>6, <1>10, <2>1, <2>2, <2>6 DEF CaptureTypes
  <2>7. ASSUME \A s \in AsrSessions : \A f \in owed'[s] : f \in 1..n /\ Accounted(f)',
               \A f \in 1..frames : Accounted(f) => Accounted(f)', turnActive => Accounted(n)'
        PROVE  NothingUnheard'
    <3>1. audio'.pc # "starting" /\ preRoll' \in {Rolled(frames'), <<>>}
      BY <1>4, <1>13, <2>2
    <3>2. turnActive' \/ preRoll' = <<>> \/ vad'.state = "speaking" => turnActive
      <4>1. preRoll' = <<>> => completed
        BY <1>8, <1>9
      <4> QED
        BY <2>1, <2>3, <4>1
    <3>3. \A s \in AsrSessions : \A f \in owed'[s] : f \in 1..frames' /\ Accounted(f)'
      BY <1>3, <2>7
    <3> QED
      BY <1>1, <1>2, <1>3, <1>5, <2>7, <3>1, <3>2, <3>3, FrameHeard
  <2>8. ASSUME \A s \in AsrSessions : RecordSound(asr'[s], n), ~turnActive',
               turnActive \/ asr' = asr,
               NEW s \in AsrSessions, NEW e \in EverythingOf(asr'[s])
        PROVE  e <= n - Len(preRoll')
    <3>1. CASE turnActive
      <4>1. completed
        BY <2>1, <2>8, <3>1
      <4>2. preRoll' = <<>>
        BY <1>4, <1>13, <4>1
      <4>3. Len(preRoll') = 0 /\ e \in 0..n
        BY <1>3, <2>8, <4>2, InRecord
      <4> QED
        BY <1>3, <4>3
    <3>2. CASE ~turnActive
      <4>1. asr' = asr /\ ~completed
        BY <2>3, <2>8, <3>2
      <4>2. preRoll' = p
        BY <1>9, <4>1
      <4>3. e <= frames - Len(preRoll) /\ e \in 0..n
        BY <1>1, <1>3, <2>8, <3>2, <4>1, InRecord DEF AsrSound
      <4>4. Len(preRoll') \in Nat
        BY <1>8, <4>2
      <4> QED
        BY <1>1, <1>3, <1>8, <1>11, <4>3, <4>4
    <3> QED
      BY <3>1, <3>2
  <2>9. \A s \in AsrSessions : RecordSound(asr[s], n)
    BY <1>1, <1>2, RecordLater DEF AsrSound
  <2>10. CASE ~(turnActive /\ current # 0)
    <3>1. /\ UNCHANGED <<asr, lost, owed>>
          /\ missed' = IF turnActive THEN missed \cup {frames'} ELSE missed
      BY <1>4, <1>13, <2>10
    <3>2. \A f : Accounted(f) => Accounted(f)'
      BY <3>1 DEF Accounted
    <3>3. turnActive => Accounted(n)'
      BY <1>3, <3>1 DEF Accounted
    <3>4. \A s \in AsrSessions : \A f \in owed'[s] : f \in 1..n /\ Accounted(f)'
      <4>1. \A f \in 1..frames : f \in 1..n
        BY <1>1, <1>2
      <4> QED
        BY <1>1, <3>1, <3>2, <4>1 DEF NothingUnheard
    <3>5. NothingUnheard'
      BY <2>7, <3>2, <3>3, <3>4
    <3>6. AsrSound'
      BY <1>1, <1>3, <2>2, <2>8, <2>9, <3>1 DEF AsrSound
    <3>7. CaptureTypes' /\ TurnSound'
      BY <1>1, <2>4, <2>5, <2>6, <3>1
    <3> QED
      BY <1>5, <1>10, <3>5, <3>6, <3>7 DEF CaptureInv
  <2>11. CASE turnActive /\ current # 0
    <3>1. PICK c : c = current
      OBVIOUS
    <3>2. PICK o : o = asr[c]
      OBVIOUS
    <3>3. c \in AsrSessions /\ attached = c /\ o \in AsrRecords /\ RecordSound(o, frames) /\ OpenRecord(o)
      BY <1>1, <2>4, <2>11, <3>1, <3>2 DEF AsrSound
    <3>4. PICK z : z = [o EXCEPT !.queue = Enqueued(o.queue, frames + 1)]
      OBVIOUS
    <3>5. /\ asr' = [asr EXCEPT ![c] = z] /\ lost' = lost \cup Dropped(o.queue)
          /\ owed' = [owed EXCEPT ![c] = owed[c] \cup {n}] /\ missed' = missed
      BY <1>1, <1>3, <1>4, <1>13, <2>11, <3>2, <3>3, <3>4
    <3>6. Enqueued(o.queue, frames + 1) \in Seq(Nat)
      <4>1. o.queue \in Seq(Nat) /\ frames + 1 \in Nat
        BY <1>1, <3>3, AsrFields
      <4>2. (IF Len(o.queue) = AsrSize THEN Tail(o.queue) ELSE o.queue) \in Seq(Nat)
        BY <4>1, GivesUpOldest
      <4> QED
        BY <4>1, <4>2 DEF Enqueued
    <3>7. /\ z \in AsrRecords /\ z.queue = Enqueued(o.queue, frames + 1) /\ z.sent = o.sent
          /\ z.writing = o.writing /\ z.writer = o.writer /\ z.committed = o.committed
      BY <3>3, <3>4, <3>6 DEF AsrRecords
    <3>8. /\ RecordSound(z, frames + 1) /\ OpenRecord(z)
          /\ frames + 1 \in EverythingOf(z)
          /\ EverythingOf(z) \subseteq EverythingOf(o) \cup {frames + 1}
          /\ EverythingOf(o) \subseteq EverythingOf(z) \cup Dropped(o.queue) \cup {STOP}
      BY <1>1, <3>3, <3>7, FrameEnqueued
    <3>9. PICK fresh : fresh = {n}
      OBVIOUS
    <3>10. \A t \in AsrSessions : \A e \in EverythingOf(asr[t]) : e \notin fresh
      <4> SUFFICES ASSUME NEW t \in AsrSessions, NEW e \in EverythingOf(asr[t]), e \in fresh PROVE FALSE
        OBVIOUS
      <4>1. e \in 0..frames
        BY <1>1, InRecord DEF AsrSound
      <4>2. e = n
        BY <3>9
      <4> QED
        BY <1>1, <1>2, <4>1, <4>2
    <3>11. /\ EverythingOf(z) \subseteq EverythingOf(asr[c]) \cup fresh \cup {STOP}
           /\ EverythingOf(asr[c]) \subseteq EverythingOf(z) \cup lost' \cup missed' \cup {STOP}
           /\ lost \subseteq lost' /\ missed \subseteq missed'
           /\ RecordSound(z, frames') /\ frames' \in {frames, frames + 1}
      BY <1>1, <1>2, <3>2, <3>5, <3>8, <3>9
    <3>12. /\ asr' \in [AsrSessions -> AsrRecords] /\ asr'[c] = z
           /\ \A t \in AsrSessions : RecordSound(asr'[t], frames')
           /\ \A t, v \in AsrSessions :
                t # v => EverythingOf(asr'[t]) \cap EverythingOf(asr'[v]) \subseteq {STOP}
           /\ \A f \in Nat : f # STOP /\ Accounted(f) => Accounted(f)'
           /\ \A f \in EverythingOf(z) : Accounted(f)'
      BY <1>1, <3>3, <3>5, <3>10, <3>11, OneRecordChanges
    <3>13. /\ \A f \in 1..frames : Accounted(f) => Accounted(f)'
           /\ Accounted(n)'
      BY <1>1, <1>2, <3>8, <3>12 DEF STOP
    <3>14. owed' \in [AsrSessions -> SUBSET Nat]
      BY <1>1, <1>3, <3>3, <3>5
    <3>15. \A s \in AsrSessions : \A f \in owed'[s] : f \in 1..n /\ Accounted(f)'
      <4>1. \A f \in 1..frames : f \in 1..n
        BY <1>1, <1>2
      <4>2. \A s \in AsrSessions : \A f \in owed[s] : f \in 1..n /\ Accounted(f)'
        BY <1>1, <3>13, <4>1 DEF NothingUnheard
      <4>3. \A s \in AsrSessions : owed'[s] \subseteq owed[s] \cup {n}
        BY <1>1, <3>3, <3>5
      <4> QED
        BY <1>3, <3>13, <4>2, <4>3
    <3>16. NothingUnheard'
      BY <2>7, <3>13, <3>15
    <3>17. \A s \in AsrSessions : RecordSound(asr'[s], n)
      BY <1>3, <3>12
    <3>18. AsrSound'
      <4>1. \A s \in AsrSessions : ~turnActive' => \A e \in EverythingOf(asr'[s]) : e <= n - Len(preRoll')
        BY <2>8, <2>11, <3>17
      <4>2. audio'.pc # "starting"
        BY <2>2
      <4> QED
        BY <1>3, <3>12, <4>1, <4>2 DEF AsrSound
    <3>19. CaptureTypes'
      BY <2>6, <3>12, <3>14
    <3>20. TurnSound'
      BY <2>5, <3>1, <3>8, <3>12
    <3> QED
      BY <1>5, <1>10, <3>16, <3>18, <3>19, <3>20 DEF CaptureInv
  <2> QED
    BY <2>10, <2>11
<1> QED
  BY <1>12, <1>13

LEMMA CaptureInitSafe == CaptureInit => CaptureInv
<1> SUFFICES ASSUME CaptureInit PROVE CaptureInv
  OBVIOUS
<1>1. /\ audio = [pc |-> "getting", todo |-> 0, stopping |-> FALSE]
      /\ vad = [state |-> "quiet", seen |-> 0, quiet |-> 0, units |-> 0]
      /\ detector = [speaking |-> FALSE, quiet |-> FALSE, valid |-> FALSE]
      /\ frames = 0 /\ onset = 0 /\ turnActive = FALSE /\ preRoll = <<>> /\ current = 0 /\ attached = 0
      /\ owed = [s \in AsrSessions |-> {}] /\ asr = [s \in AsrSessions |-> NewAsr]
  BY DEF CaptureInit
<1>2. NewAsr \in AsrRecords
  BY EmptySeq DEF NewAsr, AsrRecords, STOP
<1>3. audio \in AudioRecords /\ audio.pc = "getting"
  BY <1>1 DEF AudioRecords
<1>4. asr \in [AsrSessions -> AsrRecords] /\ owed \in [AsrSessions -> SUBSET Nat]
  BY <1>1, <1>2
<1>5. preRoll \in Seq(Nat) /\ Len(preRoll) = 0 /\ DOMAIN preRoll = {}
  BY <1>1
<1>6. CaptureTypes
  BY <1>1, <1>3, <1>4, <1>5 DEF CaptureTypes
<1>7. TurnSound
  BY <1>1, <1>3 DEF TurnSound
<1>8. PreRollSound /\ VadSound
  BY <1>1, <1>5, UnitsOf DEF PreRollSound, VadSound
<1>9. RecordSound(NewAsr, 0) /\ EverythingOf(NewAsr) = {STOP}
  <2>1. /\ NewAsr.queue = <<>> /\ NewAsr.sent = <<>> /\ NewAsr.writing = STOP /\ NewAsr.writer = "none"
        /\ NewAsr.committed = FALSE
    BY DEF NewAsr
  <2>2. Waits(<<>>, 0, 0)
    BY DEF Waits
  <2>3. ToSet(<<>>) = {}
    BY DEF ToSet
  <2> QED
    BY <1>2, <2>1, <2>2, <2>3 DEF RecordSound, EverythingOf
<1>10. AsrSound
  BY <1>1, <1>5, <1>9 DEF AsrSound, STOP
<1>11. NothingUnheard
  BY <1>1 DEF NothingUnheard
<1> QED
  BY <1>6, <1>7, <1>8, <1>10, <1>11 DEF CaptureInv

LEMMA CaptureNextSafe ==
    ASSUME CaptureInv, [CaptureNext]_captureVars PROVE CaptureInv'
<1>1. CASE UNCHANGED captureVars
  <2>1. UNCHANGED <<audio, frames, vad, detector, onset, turnActive, preRoll, current, attached,
                    asr, owed, missed, lost>>
    BY <1>1 DEF captureVars, judging
  <2>2. \A f : Accounted(f) = Accounted(f)' /\ Rolls(f) = Rolls(f)'
    BY <2>1 DEF Accounted, Rolls
  <2> QED
    BY <2>1, <2>2 DEF CaptureInv, CaptureTypes, TurnSound, PreRollSound, VadSound, AsrSound,
       NothingUnheard
<1> QED
  BY <1>1, AudioEndsSafe, GetAudioSafe, FrameSafe, StartAsrSafe, SilentSafe, FinishTurnSafe,
     CommitAsrSafe, WriteAsrSafe, HeardSafe DEF CaptureNext

LEMMA CaptureHolds == CaptureInv => CaptureSound
<1> SUFFICES ASSUME CaptureInv PROVE CaptureSound
  OBVIOUS
<1>1. /\ \A s \in AsrSessions : RecordSound(asr[s], frames) /\ Everything(s) = EverythingOf(asr[s])
      /\ \A s, t \in AsrSessions :
           s # t => EverythingOf(asr[s]) \cap EverythingOf(asr[t]) \subseteq {STOP}
  BY DEF CaptureInv, AsrSound, Everything, EverythingOf
<1>2. SentOnce
  <2>1. \A s \in AsrSessions : /\ asr[s].sent \in Seq(Nat)
                              /\ \A i, j \in DOMAIN asr[s].sent : i < j => asr[s].sent[i] < asr[s].sent[j]
    BY <1>1, AsrFields DEF RecordSound
  <2>2. \A s \in AsrSessions : DOMAIN asr[s].sent = 1..Len(asr[s].sent)
    BY <2>1
  <2> QED
    BY <1>1, <2>1, <2>2 DEF SentOnce
<1>3. HeardWhole
  <2>1. ASSUME NEW s \in AsrSessions, asr[s].committed, NEW f \in owed[s]
        PROVE  \/ f \in missed \/ f \in lost \/ f \in ToSet(asr[s].sent)
               \/ \E t \in AsrSessions \ {s} : f \in Everything(t)
               \/ asr[s].writer = "failed" /\ f \in ToSet(asr[s].queue)
    <3>1. f \in 1..frames /\ Accounted(f) /\ frames \in Nat
      BY <2>1 DEF CaptureInv, NothingUnheard, CaptureTypes
    <3>2. CASE \E t \in AsrSessions \ {s} : f \in EverythingOf(asr[t])
      BY <1>1, <3>2
    <3>3. CASE f \in EverythingOf(asr[s])
      <4>1. f # STOP
        BY <3>1 DEF STOP
      <4>2. /\ asr[s].writer \in {"done", "failed"}
            /\ asr[s].writing = STOP
            /\ asr[s].writer = "done" => asr[s].queue = <<>>
        <5>1. RecordSound(asr[s], frames)
          BY <1>1
        <5> QED
          BY <2>1, <5>1 DEF RecordSound
      <4>3. f \in ToSet(asr[s].sent) \/ f \in ToSet(asr[s].queue)
        BY <3>3, <4>1, <4>2 DEF EverythingOf
      <4>4. ASSUME asr[s].queue = <<>> PROVE ToSet(asr[s].queue) = {}
        <5>1. ToSet(<<>>) = {}
          BY DEF ToSet
        <5> QED
          BY <4>4, <5>1
      <4> QED
        BY <4>2, <4>3, <4>4
    <3> QED
      BY <3>1, <3>2, <3>3 DEF Accounted
  <2>2. ASSUME NEW s \in AsrSessions, asr[s].committed
        PROVE  owed[s] \subseteq missed \cup lost \cup ToSet(asr[s].sent)
                         \cup (UNION {Everything(t) : t \in AsrSessions \ {s}})
                         \cup (IF asr[s].writer = "failed" THEN ToSet(asr[s].queue) ELSE {})
    <3> DEFINE others == UNION {Everything(t) : t \in AsrSessions \ {s}}
               left == IF asr[s].writer = "failed" THEN ToSet(asr[s].queue) ELSE {}
               was == ToSet(asr[s].sent)
    <3>1. \A f \in owed[s] : f \in missed \/ f \in lost \/ f \in was \/ f \in others \/ f \in left
      BY <2>1, <2>2
    <3> HIDE DEF others, left, was
    <3>2. owed[s] \subseteq missed \cup lost \cup was \cup others \cup left
      BY <3>1
    <3> QED
      BY <3>2 DEF others, left, was
  <2> QED
    BY <2>2 DEF HeardWhole
<1> QED
  BY <1>2, <1>3 DEF CaptureSound

\* session.py: no frame is sent twice or out of order, to one recognition or to two, and a
\* recognition that is committed was given its whole utterance, from its first frame on,
\* but for what is counted as dropped or was another one's.
THEOREM HeardAsSaid == CaptureSpec => []CaptureSound
<1>1. CaptureInv => CaptureSound
  BY CaptureHolds
<1> QED
  BY <1>1, CaptureInitSafe, CaptureNextSafe, PTL DEF CaptureSpec

-----------------------------------------------------------------------------
\* The audio of a speech session together.

LEMMA AudioAlone ==
    ASSUME [Next]_vars
    PROVE  /\ [CaptureNext]_captureVars /\ [TTSNext]_ttsVars /\ [TransportNext]_transportVars
<1>1. CASE UNCHANGED vars
  BY <1>1 DEF vars
<1>2. CASE Next
  <2>1. Alone
    BY <1>2 DEF Next
  <2> DEFINE p == part
  <2>2. /\ p # "capture" => UNCHANGED captureVars
        /\ p # "voice" => UNCHANGED ttsVars
        /\ p # "playing" => UNCHANGED transportVars
    BY <2>1 DEF Alone
  <2>3. /\ p = "capture" => CaptureNext
        /\ p = "voice" => TTSNext
        /\ p = "playing" => TransportNext
    BY <1>2 DEF Next
  <2> HIDE DEF p
  <2> QED
    BY <2>2, <2>3
<1> QED
  BY <1>1, <1>2

\* session.py, tts/dashscope.py, transport/local.py, whatever else the Run uses: every turn
\* is recognised whole and once, a call that reads has something to read, and what is
\* played by the one worker is played in order and once, and not after close, unless the
\* worker was made after it.
THEOREM AudioIsSound == Spec => []AudioSound
<1>1. Init => CaptureInit /\ TTSInit /\ TransportInit
  BY DEF Init
<1>2. Spec => CaptureSpec /\ TTSSpec /\ TransportSpec
  BY <1>1, AudioAlone, PTL DEF Spec, CaptureSpec, TTSSpec, TransportSpec
<1>3. CaptureSound /\ VoiceSound /\ PlayedInOrder => AudioSound
  BY DEF AudioSound
<1> QED
  BY <1>2, <1>3, HeardAsSaid, VoiceIsHeard, PlaysInOrder, PTL
=============================================================================
