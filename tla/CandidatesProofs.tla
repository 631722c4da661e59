--------------------------- MODULE CandidatesProofs --------------------------
(***************************************************************************)
(* What the scoring of candidates promises whatever the trend, the facts   *)
(* and the context are: the highest state needs use, and bad news never    *)
(* helps.  Sums come first: the scores add up points and penalties.        *)
(***************************************************************************)
EXTENDS Candidates, FiniteSetTheorems, WellFoundedInduction, TLAPS

-----------------------------------------------------------------------------
(* Sums over finite sets.                                                  *)

\* A set of numbers that is not empty has a least one.
LEMMA LeastNumber ==
  ASSUME NEW S \in SUBSET Nat, S # {}
  PROVE  \E n \in S : \A m \in S : n <= m
  <1>1. IsWellFoundedOn(OpToRel(<, Nat), Nat)
    BY NatLessThanWellFounded
  <1>2. PICK n \in S : \A m \in S : ~(<<m, n>> \in OpToRel(<, Nat))
    BY <1>1, WFMin
  <1>3. \A m \in S : ~(m < n)
    BY <1>2 DEF OpToRel
  <1>4. n \in Nat /\ \A m \in S : m \in Nat
    OBVIOUS
  <1>5. \A m \in S : n <= m
    BY <1>3, <1>4
  <1> QED
    BY <1>5

\* Sets of finite sets are explored from the small ones on.
LEMMA SmallestSet ==
  ASSUME NEW F, F # {}, \A s \in F : IsFiniteSet(s)
  PROVE  \E s \in F : \A t \in F : Cardinality(s) <= Cardinality(t)
  <1> DEFINE sizes == {Cardinality(s) : s \in F}
  <1>1. sizes \in SUBSET Nat /\ sizes # {}
    BY FS_CardinalityType
  <1>2. PICK n \in sizes : \A m \in sizes : n <= m
    BY <1>1, LeastNumber
  <1> QED
    BY <1>2

\* One member less.
LEMMA Less ==
  ASSUME NEW s, IsFiniteSet(s), NEW e \in s
  PROVE  /\ IsFiniteSet(s \ {e}) /\ Cardinality(s) \in Nat /\ Cardinality(s \ {e}) \in Nat
         /\ Cardinality(s) = Cardinality(s \ {e}) + 1
  <1>1. IsFiniteSet(s \ {e}) /\ Cardinality(s \ {e}) = Cardinality(s) - 1
    BY FS_RemoveElement
  <1>2. Cardinality(s) \in Nat /\ Cardinality(s \ {e}) \in Nat
    BY <1>1, FS_CardinalityType
  <1> QED
    BY <1>1, <1>2

First(s) == CHOOSE y \in s : TRUE

\* The recursion that the folds of the community modules are made of.
IsFold(f, S, g) == g = [s \in SUBSET S |-> IF s = {} THEN 0 ELSE f[First(s)] + g[s \ {First(s)}]]

LEMMA SumUnfolds ==
  ASSUME NEW f, NEW S PROVE SumFunctionOnSet(f, S) = (CHOOSE g : IsFold(f, S, g))[S]
  BY DEF SumFunctionOnSet, FoldFunctionOnSet, MapThenFoldSet, IsFold, First

LEMMA FoldStep ==
  ASSUME NEW f, NEW S, NEW g, IsFold(f, S, g), NEW s \in SUBSET S, s # {}
  PROVE  First(s) \in s /\ g[s] = f[First(s)] + g[s \ {First(s)}]
  BY DEF IsFold, First

\* There is such a function for the subsets of at most n members.
LEMMA FoldExists ==
  ASSUME NEW f, NEW S, IsFiniteSet(S)
  PROVE  \E g : IsFold(f, S, g)
  <1> DEFINE Small(n) == {s \in SUBSET S : Cardinality(s) <= n}
             Partial(n, g) == g = [s \in Small(n) |-> IF s = {} THEN 0
                                                     ELSE f[First(s)] + g[s \ {First(s)}]]
             Lacking == {n \in Nat : ~ \E g : Partial(n, g)}
  <1>0. \A s \in SUBSET S : IsFiniteSet(s) /\ Cardinality(s) \in Nat
    BY FS_Subset, FS_CardinalityType
  <1>1. Lacking = {}
    <2> SUFFICES ASSUME Lacking # {} PROVE FALSE
      OBVIOUS
    <2>1. PICK n \in Nat : n \in Lacking /\ \A m \in Lacking : n <= m
      <3>1. Lacking \in SUBSET Nat
        OBVIOUS
      <3> HIDE DEF Lacking
      <3> QED
        BY <3>1, LeastNumber
    <2>2. CASE n = 0
      <3> DEFINE g == [s \in Small(0) |-> 0]
      <3>1. \A s \in Small(0) : s = {}
        BY <1>0, FS_EmptySet
      <3>2. Partial(0, g)
        BY <3>1, Zenon
      <3> QED
        BY <2>1, <2>2, <3>2
    <2>3. CASE n # 0
      <3>1. n - 1 \in Nat /\ n - 1 < n
        BY <2>3
      <3>7. n - 1 \notin Lacking
        <4> HIDE DEF Lacking
        <4> QED BY <2>1, <3>1
      <3>2. PICK h : Partial(n - 1, h)
        <4> HIDE DEF Partial
        <4> QED BY <3>1, <3>7
      <3> DEFINE step(s) == IF s = {} THEN 0 ELSE f[First(s)] + h[s \ {First(s)}]
                 g == [s \in Small(n) |-> step(s)]
      <3>3. \A s \in Small(n) : s # {} => First(s) \in s /\ s \ {First(s)} \in Small(n - 1)
        <4> SUFFICES ASSUME NEW s \in Small(n), s # {} PROVE First(s) \in s /\ s \ {First(s)} \in Small(n - 1)
          OBVIOUS
        <4>1. First(s) \in s
          BY DEF First
        <4>2. Cardinality(s) = Cardinality(s \ {First(s)}) + 1 /\ Cardinality(s \ {First(s)}) \in Nat
          BY <1>0, <4>1, Less
        <4> QED
          BY <4>1, <4>2
      <3>4. \A s \in Small(n - 1) : s \in Small(n) /\ g[s] = h[s]
        <4>1. \A s \in Small(n - 1) : s \in Small(n)
          BY <1>0, <3>1
        <4>2. \A s \in Small(n - 1) : h[s] = step(s)
          BY <3>2
        <4> QED
          BY <4>1, <4>2
      <3>5. \A s \in Small(n) : step(s) = IF s = {} THEN 0 ELSE f[First(s)] + g[s \ {First(s)}]
        BY <3>3, <3>4
      <3>6. Partial(n, g)
        BY <3>5
      <3> QED
        BY <2>1, <3>6
    <2> QED
      BY <2>2, <2>3
  <1>2. Cardinality(S) \in Nat
    BY FS_CardinalityType
  <1>3. PICK g : Partial(Cardinality(S), g)
    BY <1>1, <1>2
  <1>4. Small(Cardinality(S)) = SUBSET S
    BY FS_Subset
  <1>5. IsFold(f, S, g)
    BY <1>3, <1>4 DEF IsFold
  <1> QED
    BY <1>5

\* Functions that agree on the members of the sets that both know have equal folds.
LEMMA FoldsAgree ==
  ASSUME NEW f, NEW h, NEW S, NEW T, IsFiniteSet(S), NEW g, NEW k, IsFold(f, S, g), IsFold(h, T, k),
         \A e \in S \cap T : f[e] = h[e]
  PROVE  \A s \in SUBSET (S \cap T) : g[s] = k[s]
  <1> DEFINE F == {s \in SUBSET (S \cap T) : g[s] # k[s]}
  <1> SUFFICES ASSUME F # {} PROVE FALSE
    OBVIOUS
  <1>1. \A s \in SUBSET (S \cap T) : IsFiniteSet(s)
    BY FS_Subset
  <1>2. PICK s \in F : \A t \in F : Cardinality(s) <= Cardinality(t)
    BY <1>1, SmallestSet
  <1>3. s # {}
    BY <1>2 DEF IsFold
  <1>4. First(s) \in s /\ g[s] = f[First(s)] + g[s \ {First(s)}]
    BY <1>2, <1>3, FoldStep
  <1>5. First(s) \in s /\ k[s] = h[First(s)] + k[s \ {First(s)}]
    BY <1>2, <1>3, FoldStep
  <1>6. /\ Cardinality(s) \in Nat /\ Cardinality(s \ {First(s)}) \in Nat
        /\ Cardinality(s) = Cardinality(s \ {First(s)}) + 1
    BY <1>1, <1>2, <1>4, Less
  <1>7. s \ {First(s)} \notin F
    <2> HIDE DEF F
    <2> QED
      BY <1>2, <1>6
  <1>8. g[s \ {First(s)}] = k[s \ {First(s)}] /\ f[First(s)] = h[First(s)]
    BY <1>2, <1>4, <1>7
  <1> QED
    BY <1>2, <1>4, <1>5, <1>8

\* Some function that the recursion defines, and the sum is what it says of the set.
LEMMA SumFolds ==
  ASSUME NEW f, NEW S, IsFiniteSet(S)
  PROVE  \E g : IsFold(f, S, g) /\ SumFunctionOnSet(f, S) = g[S]
  <1>1. \E g : IsFold(f, S, g)
    BY FoldExists
  <1> DEFINE g == CHOOSE k : IsFold(f, S, k)
  <1>2. IsFold(f, S, g)
    BY <1>1
  <1> QED
    BY <1>2, SumUnfolds

LEMMA SumIsFold ==
  ASSUME NEW f, NEW S, IsFiniteSet(S), NEW g, IsFold(f, S, g), NEW s \in SUBSET S
  PROVE  SumFunctionOnSet(f, s) = g[s]
  <1>1. IsFiniteSet(s)
    BY FS_Subset
  <1>2. PICK k : IsFold(f, s, k) /\ SumFunctionOnSet(f, s) = k[s]
    BY <1>1, SumFolds
  <1>3. \A t \in SUBSET (s \cap S) : k[t] = g[t]
    BY <1>1, <1>2, FoldsAgree
  <1> QED
    BY <1>2, <1>3

LEMMA SumOfNone ==
  ASSUME NEW f PROVE SumFunctionOnSet(f, {}) = 0
  <1>1. IsFiniteSet({})
    BY FS_EmptySet
  <1>2. PICK g : IsFold(f, {}, g) /\ SumFunctionOnSet(f, {}) = g[{}]
    BY <1>1, SumFolds
  <1> QED
    BY <1>2 DEF IsFold

\* Any member may be taken out first.
LEMMA SumStep ==
  ASSUME NEW f, NEW S, IsFiniteSet(S), \A e \in S : f[e] \in Int
  PROVE  /\ SumFunctionOnSet(f, S) \in Int
         /\ \A e \in S : SumFunctionOnSet(f, S) = f[e] + SumFunctionOnSet(f, S \ {e})
  <1>1. PICK g : IsFold(f, S, g)
    BY FoldExists
  <1>2. \A s \in SUBSET S : IsFiniteSet(s)
    BY FS_Subset
  <1>3. \A s \in SUBSET S : g[s] \in Int
    <2> DEFINE F == {s \in SUBSET S : g[s] \notin Int}
    <2> SUFFICES ASSUME F # {} PROVE FALSE
      OBVIOUS
    <2>1. PICK s \in F : \A t \in F : Cardinality(s) <= Cardinality(t)
      BY <1>2, SmallestSet
    <2>2. s # {}
      BY <1>1, <2>1 DEF IsFold
    <2>3. First(s) \in s /\ g[s] = f[First(s)] + g[s \ {First(s)}]
      BY <1>1, <2>1, <2>2, FoldStep
    <2>4. /\ Cardinality(s) \in Nat /\ Cardinality(s \ {First(s)}) \in Nat
          /\ Cardinality(s) = Cardinality(s \ {First(s)}) + 1
      BY <1>2, <2>1, <2>3, Less
    <2>5. s \ {First(s)} \notin F
      <3> HIDE DEF F
      <3> SUFFICES ASSUME s \ {First(s)} \in F PROVE FALSE
        OBVIOUS
      <3>1. Cardinality(s) <= Cardinality(s \ {First(s)})
        BY <2>1
      <3> QED
        BY <2>4, <3>1
    <2> QED
      BY <2>1, <2>3, <2>5
  <1>4. \A s \in SUBSET S : \A e \in s : g[s] = f[e] + g[s \ {e}]
    <2> DEFINE F == {s \in SUBSET S : ~ \A e \in s : g[s] = f[e] + g[s \ {e}]}
    <2> SUFFICES ASSUME F # {} PROVE FALSE
      OBVIOUS
    <2>1. PICK s \in F : \A t \in F : Cardinality(s) <= Cardinality(t)
      BY <1>2, SmallestSet
    <2>2. PICK e \in s : g[s] # f[e] + g[s \ {e}]
      BY <2>1
    <2>3. First(s) \in s /\ g[s] = f[First(s)] + g[s \ {First(s)}]
      BY <1>1, <2>1, <2>2, FoldStep
    <2> DEFINE c == First(s)
               a == s \ {c}
               b == s \ {e}
    <2>4. c # e /\ e \in a /\ c \in b /\ a \ {e} = b \ {c} /\ a \in SUBSET S /\ b \in SUBSET S
      BY <2>1, <2>2, <2>3
    <2>5. /\ Cardinality(s) \in Nat /\ Cardinality(a) \in Nat /\ Cardinality(s) = Cardinality(a) + 1
          /\ Cardinality(b) \in Nat /\ Cardinality(s) = Cardinality(b) + 1
      BY <1>2, <2>1, <2>2, <2>3, Less
    <2>6. a \notin F /\ b \notin F
      <3> HIDE DEF F, a, b
      <3> QED
        BY <2>1, <2>5
    <2>7. g[a] = f[e] + g[a \ {e}] /\ g[b] = f[c] + g[b \ {c}]
      BY <2>4, <2>6
    <2>8. g[a] \in Int /\ g[b] \in Int /\ g[a \ {e}] \in Int /\ f[e] \in Int /\ f[c] \in Int
      BY <1>3, <2>1, <2>2, <2>3, <2>4
    <2>9. g[s] = f[e] + g[b]
      <3> HIDE DEF F, a, b, c
      <3>1. g[s] = f[c] + g[a]
        BY <2>3 DEF a, c
      <3>2. g[a \ {e}] = g[b \ {c}]
        BY <2>4
      <3> QED
        BY <2>7, <2>8, <3>1, <3>2
    <2> QED
      BY <2>2, <2>9
  <1>5. \A s \in SUBSET S : SumFunctionOnSet(f, s) = g[s]
    BY <1>1, SumIsFold
  <1> QED
    BY <1>3, <1>4, <1>5

\* What some more members with points of their own add up to, and what points that
\* are not lower do.
LEMMA SumIsMonotone ==
  ASSUME NEW f, NEW h, NEW S, NEW T, IsFiniteSet(T), S \subseteq T,
         \A e \in S : f[e] \in Int /\ f[e] <= h[e],
         \A e \in T : h[e] \in Nat
  PROVE  SumFunctionOnSet(f, S) <= SumFunctionOnSet(h, T)
  <1> DEFINE F == {t \in SUBSET T : ~ (SumFunctionOnSet(f, S \cap t) <= SumFunctionOnSet(h, t))}
  <1>1. F = {}
    <2> SUFFICES ASSUME F # {} PROVE FALSE
      OBVIOUS
    <2>1. \A t \in SUBSET T : IsFiniteSet(t)
      BY FS_Subset
    <2>2. PICK t \in F : \A u \in F : Cardinality(t) <= Cardinality(u)
      BY <2>1, SmallestSet
    <2>3. t # {}
      BY <2>2, SumOfNone
    <2>4. PICK e \in t : TRUE
      BY <2>3
    <2>5. /\ Cardinality(t) \in Nat /\ Cardinality(t \ {e}) \in Nat
          /\ Cardinality(t) = Cardinality(t \ {e}) + 1
      BY <2>1, <2>2, <2>4, Less
    <2>6. t \ {e} \notin F
      <3> HIDE DEF F
      <3> QED
        BY <2>2, <2>5
    <2>7. SumFunctionOnSet(f, S \cap (t \ {e})) <= SumFunctionOnSet(h, t \ {e})
      BY <2>2, <2>6
    <2>8. /\ SumFunctionOnSet(h, t \ {e}) \in Int
          /\ SumFunctionOnSet(h, t) = h[e] + SumFunctionOnSet(h, t \ {e})
      BY <2>1, <2>2, <2>4, SumStep
    <2>9. CASE e \in S
      <3>1. e \in S \cap t /\ (S \cap t) \ {e} = S \cap (t \ {e}) /\ IsFiniteSet(S \cap t)
        BY <2>1, <2>2, <2>4, <2>9
      <3>2. \A k \in S \cap t : f[k] \in Int
        OBVIOUS
      <3>3. SumFunctionOnSet(f, S \cap t) = f[e] + SumFunctionOnSet(f, S \cap (t \ {e}))
        BY <3>1, <3>2, SumStep
      <3>4. SumFunctionOnSet(f, S \cap (t \ {e})) \in Int
        BY <2>1, <2>2, SumStep
      <3>5. f[e] \in Int /\ h[e] \in Int /\ f[e] <= h[e]
        BY <2>2, <2>4, <2>9
      <3>6. SumFunctionOnSet(f, S \cap t) <= SumFunctionOnSet(h, t)
        BY <2>7, <2>8, <3>3, <3>4, <3>5
      <3> QED
        BY <2>2, <3>6
    <2>10. CASE e \notin S
      <3>1. S \cap t = S \cap (t \ {e})
        BY <2>10
      <3>2. SumFunctionOnSet(f, S \cap (t \ {e})) \in Int
        BY <2>1, <2>2, SumStep
      <3>3. h[e] \in Nat
        BY <2>2, <2>4
      <3>4. SumFunctionOnSet(f, S \cap t) <= SumFunctionOnSet(h, t)
        BY <2>7, <2>8, <3>1, <3>2, <3>3
      <3> QED
        BY <2>2, <3>4
    <2> QED
      BY <2>9, <2>10
  <1>2. S \cap T = S
    OBVIOUS
  <1> QED
    BY <1>1, <1>2

\* A sum of numbers that are at most b, and so the mean.
LEMMA SumIsBounded ==
  ASSUME NEW f, NEW S, IsFiniteSet(S), NEW b \in Nat, \A e \in S : f[e] \in 0..b
  PROVE  SumFunctionOnSet(f, S) \in Nat /\ SumFunctionOnSet(f, S) <= b * Cardinality(S)
  <1> DEFINE F == {s \in SUBSET S : ~ (/\ SumFunctionOnSet(f, s) \in Nat
                                       /\ SumFunctionOnSet(f, s) <= b * Cardinality(s))}
  <1>1. F = {}
    <2> SUFFICES ASSUME F # {} PROVE FALSE
      OBVIOUS
    <2>1. \A s \in SUBSET S : IsFiniteSet(s)
      BY FS_Subset
    <2>2. PICK s \in F : \A t \in F : Cardinality(s) <= Cardinality(t)
      BY <2>1, SmallestSet
    <2>3. s # {}
      <3>1. Cardinality({}) = 0 /\ SumFunctionOnSet(f, {}) = 0 /\ b * 0 = 0
        BY SumOfNone, FS_EmptySet
      <3>2. ~ (SumFunctionOnSet(f, s) \in Nat /\ SumFunctionOnSet(f, s) <= b * Cardinality(s))
        BY <2>2
      <3>3. s = {} => SumFunctionOnSet(f, s) = 0 /\ b * Cardinality(s) = 0
        <4> HIDE DEF F
        <4> QED BY <3>1
      <3> HIDE DEF F
      <3> QED
        BY <3>2, <3>3
    <2>4. PICK e \in s : TRUE
      BY <2>3
    <2>5. /\ Cardinality(s) \in Nat /\ Cardinality(s \ {e}) \in Nat
          /\ Cardinality(s) = Cardinality(s \ {e}) + 1
      BY <2>1, <2>2, <2>4, Less
    <2>6. s \ {e} \notin F
      <3> HIDE DEF F
      <3> QED
        BY <2>2, <2>5
    <2>7. /\ SumFunctionOnSet(f, s \ {e}) \in Nat
          /\ SumFunctionOnSet(f, s \ {e}) <= b * Cardinality(s \ {e})
      BY <2>2, <2>6
    <2>8. SumFunctionOnSet(f, s) = f[e] + SumFunctionOnSet(f, s \ {e})
      BY <2>1, <2>2, <2>4, SumStep
    <2>9. f[e] \in 0..b
      BY <2>2, <2>4
    <2>10. b * Cardinality(s) = b * Cardinality(s \ {e}) + b
      BY <2>5
    <2>11. b * Cardinality(s \ {e}) \in Int
      BY <2>5
    <2>12. SumFunctionOnSet(f, s) \in Nat /\ SumFunctionOnSet(f, s) <= b * Cardinality(s)
      <3> HIDE DEF F
      <3> QED
        BY <2>7, <2>8, <2>9, <2>10, <2>11
    <2> QED
      BY <2>2, <2>12
  <1> QED
    BY <1>1

-----------------------------------------------------------------------------
(* Numbers.                                                                *)

LEMMA MinOfTwo ==
  ASSUME NEW a \in Int, NEW b \in Int PROVE Min({a, b}) = (IF a <= b THEN a ELSE b)
  BY DEF Min

LEMMA MaxOfTwo ==
  ASSUME NEW a \in Int, NEW b \in Int PROVE Max({a, b}) = (IF a >= b THEN a ELSE b)
  BY DEF Max

LEMMA Quotients ==
  ASSUME NEW a \in Int, NEW b \in Int, NEW n \in Nat, n > 0, a <= b
  PROVE  a \div n \in Int /\ a \div n <= b \div n
  OBVIOUS

\* The mean of n numbers that are at most b.
LEMMA MeanIsBounded ==
  ASSUME NEW s \in Nat, NEW n \in Nat, n > 0, NEW b \in Nat, s <= b * n
  PROVE  s \div n \in 0..b
  <1>1. (b * n) \div n = b
    OBVIOUS
  <1>2. s \div n \in Nat
    OBVIOUS
  <1>3. b * n \in Int
    OBVIOUS
  <1>4. s \div n <= (b * n) \div n
    BY <1>3, Quotients
  <1> QED
    BY <1>1, <1>2, <1>4

LEMMA Counts ==
  ASSUME NEW s, IsFiniteSet(s)
  PROVE  Cardinality(s) \in Nat /\ (s # {} => Cardinality(s) > 0)
  BY FS_CardinalityType, FS_EmptySet

LEMMA FewAreFinite ==
  ASSUME NEW a, NEW b, NEW c, NEW d PROVE IsFiniteSet({a, b, c, d})
  <1>1. {a, b, c, d} = ((({} \cup {a}) \cup {b}) \cup {c}) \cup {d}
    OBVIOUS
  <1>2. IsFiniteSet((({} \cup {a}) \cup {b}) \cup {c})
    BY FS_EmptySet, FS_AddElement
  <1> QED
    BY <1>1, <1>2, FS_AddElement

LEMMA ImageIsFinite ==
  ASSUME NEW s, IsFiniteSet(s), NEW f
  PROVE  IsFiniteSet({f[e] : e \in s})
  <1> DEFINE g == [e \in s |-> f[e]]
             t == {f[e] : e \in s}
  <1>1. g \in Surjection(s, t)
    BY DEF Surjection
  <1> QED
    BY <1>1, FS_Surjection

-----------------------------------------------------------------------------
(* What a candidate is judged by.                                          *)

\* The input of the scoring, as the analyzer leaves it.
Analyzed(c) == RunAnalyzer(c.type, c.facts, c.ctx)
Judged(c) == Enriched(InputOf(c.type, c.trend, c.facts, c.ctx), Analyzed(c))

LEMMA VerdictOfJudged ==
  ASSUME NEW c
  PROVE  /\ Verdict(c).passed = CheckGate(InputOf(c.type, c.trend, c.facts, c.ctx))
         /\ Verdict(c).score = ScoreOpportunity(Judged(c))
         /\ Verdict(c).closed = AccessibilityVerdict(Judged(c))
         /\ Verdict(c).risk = AssessRisk(c.type, Risks(Analyzed(c).hints, Judged(c).flags, c.trend.stage),
                                         Analyzed(c).minRisk)
         /\ Verdict(c).confidence = Max({0, ScoreConfidence(Judged(c))
                                            - 100 * Reduction(Judged(c), Analyzed(c), 0)})
         /\ Verdict(c).informed = InformedNegative(c.trend, Completeness(Judged(c), Analyzed(c)))
  BY DEF Verdict, Assess, Judged, Analyzed, Duplication

LEMMA FieldsOfJudged ==
  ASSUME NEW c
  PROVE  /\ Judged(c).type = c.type /\ Judged(c).trend = c.trend /\ Judged(c).facts = c.facts
         /\ Judged(c).market = Get(c.ctx, "market_size_band")
         /\ Judged(c).penetration = Get(c.ctx, "local_penetration")
         /\ Judged(c).competitors = Get(c.ctx, "competitor_count")
         /\ Judged(c).awareness = Get(c.ctx, "awareness")
         /\ Judged(c).capital = Get(c.ctx, "capital_required")
         /\ Judged(c).difficulty = Get(c.ctx, "technical_difficulty")
         /\ Judged(c).barriers = (IF Knows(c.ctx, "barriers") THEN c.ctx["barriers"] ELSE 0)
         /\ Judged(c).markers = (IF Knows(c.ctx, "defensibility_markers")
                                 THEN c.ctx["defensibility_markers"] ELSE 0)
         /\ Judged(c).catalyst = Get(c.ctx, "catalyst")
         /\ Judged(c).commercial = Knows(c.ctx, "has_commercial_data")
         /\ Judged(c).flags = Analyzed(c).flags /\ Judged(c).kinds = Analyzed(c).kinds
         /\ Judged(c).assumptions = Analyzed(c).assumptions
  BY DEF Judged, Enriched, InputOf

\* The parts of the input that are calculated with.
Sensible(inp) ==
    /\ inp.type \in DOMAIN RequiredEvidence /\ IsTrend(inp.trend)
    /\ IsFiniteSet(inp.facts) /\ inp.facts # {} /\ \A f \in inp.facts : IsFact(f)
    /\ inp.competitors \in Nat \cup {None} /\ inp.capital \in Nat \cup {None}
    /\ inp.barriers \in Nat /\ inp.markers \in Nat

LEMMA JudgedIsSensible ==
  ASSUME NEW c, IsCandidate(c) PROVE Sensible(Judged(c))
  <1>1. /\ c.type \in DOMAIN RequiredEvidence /\ IsTrend(c.trend)
        /\ IsFiniteSet(c.facts) /\ c.facts # {} /\ \A f \in c.facts : IsFact(f)
    BY DEF IsCandidate
  <1>2. \A k \in {"competitor_count", "capital_required", "barriers", "defensibility_markers"} :
            k \in DOMAIN c.ctx => c.ctx[k] \in Nat
    BY DEF IsCandidate, IsContext, IsValue, MoreIsWorse, LessIsWorse
  <1>3. /\ Judged(c).competitors \in Nat \cup {None} /\ Judged(c).capital \in Nat \cup {None}
        /\ Judged(c).barriers \in Nat /\ Judged(c).markers \in Nat
    <2>1. Judged(c).competitors \in Nat \cup {None} /\ Judged(c).capital \in Nat \cup {None}
      <3>1. /\ Judged(c).competitors = Get(c.ctx, "competitor_count")
            /\ Judged(c).capital = Get(c.ctx, "capital_required")
        BY FieldsOfJudged
      <3> QED
        BY <1>2, <3>1 DEF Get
    <2>2. Judged(c).barriers \in Nat /\ Judged(c).markers \in Nat
      <3>1. /\ Judged(c).barriers = (IF Knows(c.ctx, "barriers") THEN c.ctx["barriers"] ELSE 0)
            /\ Judged(c).markers = (IF Knows(c.ctx, "defensibility_markers")
                                     THEN c.ctx["defensibility_markers"] ELSE 0)
        BY FieldsOfJudged
      <3> QED
        BY <1>2, <3>1 DEF Knows
    <2> QED
      BY <2>1, <2>2
  <1>4. Judged(c).type = c.type /\ Judged(c).trend = c.trend /\ Judged(c).facts = c.facts
    BY FieldsOfJudged
  <1> QED
    BY <1>1, <1>3, <1>4 DEF Sensible

-----------------------------------------------------------------------------
(* The range of each component.                                            *)

LEMMA GroupsAreCounted ==
  ASSUME NEW inp, Sensible(inp)
  PROVE  /\ IsFiniteSet(Groups(inp)) /\ Cardinality(Groups(inp)) \in Nat
         /\ Cardinality(Groups(inp)) > 0
  <1> DEFINE group == [f \in inp.facts |-> f.group]
  <1>1. IsFiniteSet({group[f] : f \in inp.facts})
    <2> HIDE DEF group
    <2> QED
      BY ImageIsFinite DEF Sensible
  <1>2. Groups(inp) = {group[f] : f \in inp.facts} /\ Groups(inp) # {}
    BY DEF Groups, Sensible
  <1> QED
    BY <1>1, <1>2, Counts

LEMMA ReliabilityRange ==
  ASSUME NEW inp, Sensible(inp) PROVE Reliability(inp) \in 0..100
  <1> DEFINE f == [e \in inp.facts |-> e.reliability]
  <1>1. \A e \in inp.facts : f[e] \in 0..100
    BY DEF Sensible, IsFact
  <1>2. /\ IsFiniteSet(inp.facts) /\ inp.facts # {} /\ DOMAIN f = inp.facts
        /\ Cardinality(inp.facts) \in Nat /\ Cardinality(inp.facts) > 0
    BY Counts DEF Sensible
  <1>3. Reliability(inp) = SumFunctionOnSet(f, inp.facts) \div Cardinality(inp.facts)
    BY <1>2 DEF Reliability, SumFunction
  <1> HIDE DEF f
  <1>4. SumFunctionOnSet(f, inp.facts) \in Nat /\ SumFunctionOnSet(f, inp.facts) <= 100 * Cardinality(inp.facts)
    BY <1>1, <1>2, SumIsBounded
  <1> QED
    BY <1>2, <1>3, <1>4, MeanIsBounded

LEMMA AdoptionRange ==
  ASSUME NEW inp, Sensible(inp)
  PROVE  /\ RealAdoption(inp) \in Nat
         /\ Adoption(inp) = {} => RealAdoption(inp) = 0
  <1> DEFINE n == Cardinality(Adoption(inp))
  <1>1. IsFiniteSet(Adoption(inp))
    BY FS_Subset DEF Sensible, Adoption
  <1>2. n \in Nat
    BY <1>1, Counts
  <1>3. Min({n, 3}) \in 0..3
    BY <1>2, MinOfTwo
  <1>4. \A v : Rate(v) \in 0..100
    BY DEF Rate
  <1>5. (800 * Min({n, 3})) \div 3 \in Nat
    BY <1>3
  <1>6. RealAdoption(inp) \in Nat
    BY <1>4, <1>5 DEF RealAdoption
  <1>7. Adoption(inp) = {} => n = 0
    BY FS_EmptySet
  <1> QED
    BY <1>6, <1>7 DEF RealAdoption

LEMMA DiversityRange ==
  ASSUME NEW inp, Sensible(inp) PROVE EvidenceDiversity(inp) \in 0..1500
  <1> DEFINE solid == {g \in inp.facts : ~g.proxy}
             class == [f \in solid |-> f.class]
             n == Cardinality(Solid(inp))
             m == Cardinality(Groups(inp)) - 1
  <1>1. IsFiniteSet(solid)
    BY FS_Subset DEF Sensible
  <1>2. IsFiniteSet({class[f] : f \in solid})
    <2> HIDE DEF class, solid
    <2> QED
      BY <1>1, ImageIsFinite
  <1>8. Solid(inp) = {class[f] : f \in solid}
    BY DEF Solid
  <1>3. n \in Nat
    BY <1>2, <1>8, Counts
  <1>4. m \in Nat
    BY GroupsAreCounted
  <1>5. Min({n, 4}) \in 0..4 /\ Min({m, 3}) \in 0..3
    BY <1>3, <1>4, MinOfTwo
  <1>6. (750 * Min({n, 4})) \div 4 \in 0..750 /\ (450 * Min({m, 3})) \div 3 \in 0..450
    BY <1>5
  <1>7. Reliability(inp) \in 0..100
    BY ReliabilityRange
  <1> DEFINE a == (750 * Min({n, 4})) \div 4
             b == (450 * Min({m, 3})) \div 3
             c == Reliability(inp)
  <1>9. EvidenceDiversity(inp) = a + b + 3 * c
    BY DEF EvidenceDiversity
  <1>10. a \in 0..750 /\ b \in 0..450 /\ c \in 0..100
    BY <1>6, <1>7
  <1> HIDE DEF a, b, c, n, m, solid, class
  <1> QED
    BY <1>9, <1>10

LEMMA EntryPartsRange ==
  ASSUME NEW inp, Sensible(inp)
  PROVE  /\ DOMAIN EntryParts(inp) = {"penetration", "competitors", "awareness", "stage"}
         /\ \A p \in DOMAIN EntryParts(inp) : EntryParts(inp)[p] \in 0..100 \cup {None}
  <1>1. \A n : CompetitionRate(n) \in 0..100
    BY DEF CompetitionRate
  <1>2. \A v : /\ Fraction([none |-> 100, low |-> 80, medium |-> 40, high |-> 0], v) \in 0..100
               /\ Fraction([low |-> 100, medium |-> 50, high |-> 0], v) \in 0..100
    BY DEF Fraction
  <1> QED
    BY <1>1, <1>2 DEF EntryParts

\* The mean of the known parts.
LEMMA EntryMean ==
  ASSUME NEW inp, Sensible(inp), NEW known, known = {p \in DOMAIN EntryParts(inp) : EntryParts(inp)[p] # None},
         known # {}
  PROVE  /\ IsFiniteSet(known) /\ Cardinality(known) \in Nat /\ Cardinality(known) > 0
         /\ \A p \in known : EntryParts(inp)[p] \in 0..100
         /\ EarlyEntry(inp) = (15 * SumFunctionOnSet(EntryParts(inp), known)) \div Cardinality(known)
  <1>2. IsFiniteSet(DOMAIN EntryParts(inp))
    <2>1. DOMAIN EntryParts(inp) = {"penetration", "competitors", "awareness", "stage"}
      BY EntryPartsRange
    <2>2. IsFiniteSet({"penetration", "competitors", "awareness", "stage"})
      BY FewAreFinite
    <2> QED
      BY <2>1, <2>2, Zenon
  <1>3. IsFiniteSet(known)
    BY <1>2, FS_Subset
  <1>4. Cardinality(known) \in Nat /\ Cardinality(known) > 0
    BY <1>3, Counts
  <1>5. \A p \in known : EntryParts(inp)[p] \in 0..100
    BY EntryPartsRange
  <1>6. EarlyEntry(inp) = (15 * SumFunctionOnSet(EntryParts(inp), known)) \div Cardinality(known)
    BY DEF EarlyEntry
  <1> QED
    BY <1>3, <1>4, <1>5, <1>6

LEMMA EntryRange ==
  ASSUME NEW inp, Sensible(inp) PROVE EarlyEntry(inp) \in 0..1500
  <1> DEFINE known == {p \in DOMAIN EntryParts(inp) : EntryParts(inp)[p] # None}
  <1>1. CASE known = {}
    BY <1>1 DEF EarlyEntry
  <1>2. CASE known # {}
    <2> DEFINE n == Cardinality(known)
               s == SumFunctionOnSet(EntryParts(inp), known)
    <2>1. n \in Nat /\ n > 0 /\ EarlyEntry(inp) = (15 * s) \div n
      BY <1>2, EntryMean
    <2>2. s \in Nat /\ s <= 100 * n
      BY <1>2, EntryMean, SumIsBounded
    <2> HIDE DEF n, s
    <2>3. 15 * s \in Nat /\ 15 * s <= 1500 * n
      BY <2>1, <2>2
    <2> QED
      BY <2>1, <2>3, MeanIsBounded
  <1> QED
    BY <1>1, <1>2

LEMMA AccessibilityRange ==
  ASSUME NEW inp, Sensible(inp) PROVE Accessibility(inp) \in 0..1000
  <1> DEFINE ease == IF inp.difficulty = None THEN 50
                     ELSE Fraction([low |-> 100, medium |-> 60, high |-> 25], inp.difficulty)
             room == 40 * CapitalOpenness(inp.capital) + 35 * ease + 2500 - 625 * Min({inp.barriers, 4})
  <1>1. CapitalOpenness(inp.capital) \in 0..100
    BY DEF CapitalOpenness
  <1>2. ease \in 0..100
    BY DEF Fraction
  <1>3. Min({inp.barriers, 4}) \in 0..4
    BY MinOfTwo DEF Sensible
  <1> HIDE DEF ease
  <1>4. room \in Int /\ room <= 10000
    BY <1>1, <1>2, <1>3
  <1> HIDE DEF room
  <1>5. Max({0, room}) = (IF 0 >= room THEN 0 ELSE room)
    BY <1>4, MaxOfTwo
  <1>6. Max({0, room}) \div 10 \in 0..1000
    BY <1>4, <1>5
  <1>7. Accessibility(inp) = IF AccessibilityVerdict(inp) THEN 0 ELSE Max({0, room}) \div 10
    BY DEF Accessibility, room, ease
  <1> QED
    BY <1>6, <1>7

\* Everything but the use of the thing is worth 8000 at most.
LEMMA ComponentsRange ==
  ASSUME NEW inp, Sensible(inp)
  PROVE  /\ MarketPotential(inp) \in 0..1500 /\ Defensibility(inp) \in 0..1000
         /\ Catalyst(inp) \in 0..1000 /\ Timing(inp) \in 0..500
         /\ Components(inp) \in Nat /\ Components(inp) <= RealAdoption(inp) + 8000
  <1>1. MarketPotential(inp) \in 0..1500
    BY DEF MarketPotential, Fraction
  <1>2. Min({inp.markers, 3}) \in 0..3
    BY MinOfTwo DEF Sensible
  <1>3. Defensibility(inp) \in 0..1000
    BY <1>2 DEF Defensibility
  <1>4. Catalyst(inp) \in 0..1000
    BY DEF Catalyst, Fraction
  <1>5. Timing(inp) \in 0..500
    BY DEF Timing
  <1>6. /\ RealAdoption(inp) \in Nat /\ EvidenceDiversity(inp) \in 0..1500
        /\ EarlyEntry(inp) \in 0..1500 /\ Accessibility(inp) \in 0..1000
    BY AdoptionRange, DiversityRange, EntryRange, AccessibilityRange
  <1>7. Components(inp) \in Nat /\ Components(inp) <= RealAdoption(inp) + 8000
    <2> DEFINE a == RealAdoption(inp)   b == MarketPotential(inp)   c == EvidenceDiversity(inp)
               d == EarlyEntry(inp)     e == Accessibility(inp)     f == Defensibility(inp)
               g == Catalyst(inp)       h == Timing(inp)
    <2>1. /\ a \in Nat /\ b \in 0..1500 /\ c \in 0..1500 /\ d \in 0..1500 /\ e \in 0..1000
          /\ f \in 0..1000 /\ g \in 0..1000 /\ h \in 0..500
      BY <1>1, <1>3, <1>4, <1>5, <1>6
    <2>2. Components(inp) = a + b + c + d + e + f + g + h
      BY DEF Components
    <2> HIDE DEF a, b, c, d, e, f, g, h
    <2>3. Components(inp) \in Nat /\ Components(inp) <= a + 8000
      BY <2>1, <2>2
    <2> QED
      BY <2>3 DEF a
  <1> QED
    BY <1>1, <1>3, <1>4, <1>5, <1>7

-----------------------------------------------------------------------------
(* Penalties.                                                              *)

LEMMA PenaltiesAreKnown ==
  ASSUME NEW inp
  PROVE  /\ Penalties(inp) \subseteq DOMAIN PenaltyPoints
         /\ \A p \in DOMAIN PenaltyPoints : PenaltyPoints[p] \in Nat
         /\ IsFiniteSet(DOMAIN PenaltyPoints) /\ IsFiniteSet(Penalties(inp))
  <1>1. OwnPenalties(inp) \subseteq DOMAIN PenaltyPoints
    BY DEF OwnPenalties, PenaltyPoints
  <1>2. Penalties(inp) \subseteq DOMAIN PenaltyPoints
    BY <1>1 DEF Penalties
  <1>3. \A p \in DOMAIN PenaltyPoints : PenaltyPoints[p] \in Nat
    BY DEF PenaltyPoints
  <1>4. IsFiniteSet(DOMAIN PenaltyPoints)
    <2> DEFINE a == {"extreme_valuation", "weak_adoption_evidence", "attention_without_adoption", "tiny_market"}
               b == {"extreme_competition", "easily_copied", "regulatory_uncertainty", "supply_chain_fragility"}
               c == {"single_supplier", "single_customer", "poor_liquidity", "concentrated_ownership"}
               d == {"anonymous_team", "promotional_manipulation", "low_quality_evidence", "single_source_dependence"}
               e == {"already_mainstream", "difficult_local_execution", "poor_economics", "excessive_capital"}
    <2>1. IsFiniteSet(a) /\ IsFiniteSet(b) /\ IsFiniteSet(c) /\ IsFiniteSet(d) /\ IsFiniteSet(e)
      BY FewAreFinite
    <2>2. DOMAIN PenaltyPoints = (((a \cup b) \cup c) \cup d) \cup e
      BY DEF PenaltyPoints
    <2> HIDE DEF a, b, c, d, e
    <2>3. IsFiniteSet((((a \cup b) \cup c) \cup d) \cup e)
      BY <2>1, FS_Union
    <2> QED
      BY <2>2, <2>3
  <1>5. IsFiniteSet(Penalties(inp))
    BY <1>2, <1>4, FS_Subset
  <1> QED
    BY <1>2, <1>3, <1>4, <1>5

LEMMA ScoreIsWhatIsLeft ==
  ASSUME NEW inp, Sensible(inp), NEW total, total = SumFunctionOnSet(PenaltyPoints, Penalties(inp))
  PROVE  /\ total \in Int
         /\ LET rest == Components(inp) - 100 * (IF total <= 65 THEN total ELSE 65)
            IN  ScoreOpportunity(inp) = (IF rest >= 0 THEN rest ELSE 0)
  <1>1. total \in Int
    BY PenaltiesAreKnown, SumStep
  <1>2. Min({total, 65}) = (IF total <= 65 THEN total ELSE 65)
    BY <1>1, MinOfTwo
  <1> DEFINE rest == Components(inp) - 100 * (IF total <= 65 THEN total ELSE 65)
  <1>3. rest \in Int
    BY <1>1, ComponentsRange
  <1>4. ScoreOpportunity(inp) = Max({0, rest})
    BY <1>2 DEF ScoreOpportunity, MaxTotalPenalty
  <1>5. Max({0, rest}) = (IF rest >= 0 THEN rest ELSE 0)
    <2> HIDE DEF rest
    <2> QED
      BY <1>3, MaxOfTwo
  <1> QED
    BY <1>1, <1>4, <1>5

\* Without use the score stays under the 7000 that the highest state asks for.
LEMMA UnusedScoresLow ==
  ASSUME NEW inp, Sensible(inp), Adoption(inp) = {}
  PROVE  ScoreOpportunity(inp) \in Int /\ ScoreOpportunity(inp) <= 6500
  <1> DEFINE total == SumFunctionOnSet(PenaltyPoints, Penalties(inp))
             weak == {"weak_adoption_evidence"}
  <1>1. weak \subseteq Penalties(inp)
    BY AdoptionRange DEF Penalties, OwnPenalties
  <1>2. IsFiniteSet(weak) /\ "weak_adoption_evidence" \in weak /\ weak \ {"weak_adoption_evidence"} = {}
    BY FS_Singleton
  <1>3. PenaltyPoints["weak_adoption_evidence"] = 15
    BY DEF PenaltyPoints
  <1>4. SumFunctionOnSet(PenaltyPoints, weak) = 15
    <2>1. \A e \in weak : PenaltyPoints[e] \in Int
      BY <1>3
    <2>2. SumFunctionOnSet(PenaltyPoints, weak)
            = PenaltyPoints["weak_adoption_evidence"] + SumFunctionOnSet(PenaltyPoints, {})
      BY <1>2, <2>1, SumStep
    <2> QED
      BY <1>3, <2>2, SumOfNone
  <1>5. SumFunctionOnSet(PenaltyPoints, weak) <= total
    BY <1>1, PenaltiesAreKnown, SumIsMonotone
  <1>6. total \in Int /\ total >= 15
    BY <1>4, <1>5, ScoreIsWhatIsLeft
  <1>7. Components(inp) \in Nat /\ Components(inp) <= 8000
    BY AdoptionRange, ComponentsRange
  <1> HIDE DEF total
  <1> QED
    BY <1>6, <1>7, ScoreIsWhatIsLeft DEF total

LEMMA StrongMeansUsed ==
  ASSUME NEW c, IsCandidate(c), NEW current, NEW peak,
         StateOf(Verdict(c), current, peak) = "strong_evidence"
  PROVE  \E f \in c.facts : f.adoption /\ ~f.proxy
  <1>1. Verdict(c).score = ScoreOpportunity(Judged(c)) /\ Sensible(Judged(c))
    BY VerdictOfJudged, JudgedIsSensible
  <1>2. Verdict(c).score >= 7000
    BY DEF StateOf, NextState, Merited
  <1>3. Adoption(Judged(c)) # {}
    BY <1>1, <1>2, UnusedScoresLow
  <1>4. Judged(c).facts = c.facts
    BY FieldsOfJudged
  <1> QED
    BY <1>3, <1>4 DEF Adoption


-----------------------------------------------------------------------------
(* The candidate stays a candidate, whatever is said of it.                *)

LEMMA ToldIsCandidate ==
  ASSUME NEW c, IsCandidate(c), NEW key, NEW value, IsValue(key, value)
  PROVE  IsCandidate([c EXCEPT !.ctx = [k \in DOMAIN @ |-> IF k = key THEN value ELSE @[k]]])
  <1> DEFINE ctx == [k \in DOMAIN c.ctx |-> IF k = key THEN value ELSE c.ctx[k]]
             d == [type |-> c.type, trend |-> c.trend, facts |-> c.facts, ctx |-> ctx]
  <1>1. [c EXCEPT !.ctx = [k \in DOMAIN @ |-> IF k = key THEN value ELSE @[k]]] = d
    BY DEF IsCandidate
  <1>2. IsContext(ctx)
    BY DEF IsCandidate, IsContext
  <1>3. IsCandidate(d)
    <2> HIDE DEF ctx
    <2> QED
      BY <1>2 DEF IsCandidate
  <1> QED
    BY <1>1, <1>3

\* The type of the candidate, in every reachable state.
CandidateTyped == IsCandidate(candidate)

THEOREM CandidateIsAlwaysTyped == CandidatesSpec => []CandidateTyped
  <1>1. CandidatesInit => CandidateTyped
    BY CandidatesAssumption DEF CandidatesInit, CandidateTyped
  <1>2. CandidateTyped /\ [CandidatesNext]_candidateVars => CandidateTyped'
    <2> SUFFICES ASSUME CandidateTyped, [CandidatesNext]_candidateVars PROVE CandidateTyped'
      OBVIOUS
    <2>1. CASE candidate' = candidate
      BY <2>1 DEF CandidateTyped
    <2>2. ASSUME NEW n \in News, GetsWorse(n[1], n[2]) PROVE CandidateTyped'
      <3>1. IsValue(n[1], n[2]) /\ IsCandidate(candidate)
        BY CandidatesAssumption DEF CandidateTyped
      <3> DEFINE next == [candidate EXCEPT !.ctx = [k \in DOMAIN @ |-> IF k = n[1] THEN n[2] ELSE @[k]]]
      <3>2. candidate' = next
        BY <2>2 DEF GetsWorse
      <3>3. IsCandidate(next)
        BY <3>1, ToldIsCandidate
      <3> QED
        BY <3>2, <3>3 DEF CandidateTyped
    <2> QED
      BY <2>1, <2>2 DEF CandidatesNext, candidateVars, Judge
  <1> QED
    BY <1>1, <1>2, PTL DEF CandidatesSpec

\* Whatever the cases and the news are, the highest state is never reached without
\* use: the penalty for its absence and the points of the other seven components
\* leave 6500 of the 7000 points at most (score_opportunity, next_state).
THEOREM StrongAlwaysNeedsUse == CandidatesSpec => []StrongNeedsUse
  <1>1. CandidatesInit => StrongNeedsUse
    BY DEF CandidatesInit, StrongNeedsUse
  <1>2. CandidateTyped /\ StrongNeedsUse /\ [CandidatesNext]_candidateVars => StrongNeedsUse'
    <2> SUFFICES ASSUME CandidateTyped, StrongNeedsUse, [CandidatesNext]_candidateVars
                 PROVE  StrongNeedsUse'
      OBVIOUS
    <2> DEFINE used == \E f \in candidate.facts : f.adoption /\ ~f.proxy
    <2>1. CASE Judge
      <3>1. candidate' = candidate
        BY <2>1 DEF Judge
      <3>2. CASE opportunity' = opportunity
        BY <3>1, <3>2 DEF StrongNeedsUse
      <3>3. CASE \E current, peak, best : opportunity' = [state |-> StateOf(Verdict(candidate), current, peak),
                                                          peak |-> best]
        <4>1. PICK current, peak, best : opportunity' = [state |-> StateOf(Verdict(candidate), current, peak),
                                                         peak |-> best]
          BY <3>3
        <4>2. opportunity'.state = StateOf(Verdict(candidate), current, peak)
          BY <4>1
        <4>3. opportunity'.state = "strong_evidence" => used
          BY <4>2, StrongMeansUsed DEF CandidateTyped
        <4> QED
          BY <3>1, <4>3 DEF StrongNeedsUse
      <3>4. \/ opportunity' = opportunity
            \/ opportunity' = [state |-> StateOf(Verdict(candidate), None, 0), peak |-> Verdict(candidate).score]
            \/ opportunity' = [state |-> StateOf(Verdict(candidate), opportunity.state, opportunity.peak),
                               peak |-> Max({opportunity.peak, Verdict(candidate).score})]
        BY <2>1 DEF Judge
      <3> QED
        BY <3>2, <3>3, <3>4
    <2>2. ASSUME NEW n \in News, GetsWorse(n[1], n[2]) PROVE StrongNeedsUse'
      <3>1. opportunity' = opportunity /\ candidate'.facts = candidate.facts
        BY <2>2 DEF GetsWorse, CandidateTyped, IsCandidate
      <3> QED
        BY <3>1 DEF StrongNeedsUse
    <2>3. CASE UNCHANGED candidateVars
      BY <2>3 DEF StrongNeedsUse, candidateVars
    <2> QED
      BY <2>1, <2>2, <2>3 DEF CandidatesNext
  <1> QED
    BY <1>1, <1>2, CandidateIsAlwaysTyped, PTL DEF CandidatesSpec

-----------------------------------------------------------------------------
(* Two contexts of which the second is nowhere better.                     *)

NotBetter(e, d) ==
    /\ IsContext(e) /\ IsContext(d) /\ DOMAIN e = DOMAIN d
    /\ \A k \in DOMAIN e : e[k] = d[k] \/ Worse(k, e[k], d[k])

LEMMA KeysAreApart ==
  /\ MoreIsWorse \cap LessIsWorse = {} /\ MoreIsWorse \cap DOMAIN Scales = {}
  /\ MoreIsWorse \cap DOMAIN Alarming = {} /\ LessIsWorse \cap DOMAIN Scales = {}
  /\ LessIsWorse \cap DOMAIN Alarming = {} /\ DOMAIN Scales \cap DOMAIN Alarming = {}
  BY DEF MoreIsWorse, LessIsWorse, Scales, Alarming

LEMMA ScalesAreNumbers == \A k \in DOMAIN Scales : \A v \in DOMAIN Scales[k] : Scales[k][v] \in Nat
  <1>1. \A v \in DOMAIN Scales["technical_difficulty"] : Scales["technical_difficulty"][v] \in Nat
    BY DEF Scales
  <1>2. \A v \in DOMAIN Scales["market_size_band"] : Scales["market_size_band"][v] \in Nat
    BY DEF Scales
  <1>3. \A v \in DOMAIN Scales["awareness"] : Scales["awareness"][v] \in Nat
    BY DEF Scales
  <1>4. \A v \in DOMAIN Scales["local_penetration"] : Scales["local_penetration"][v] \in Nat
    BY DEF Scales
  <1>5. \A v \in DOMAIN Scales["catalyst"] : Scales["catalyst"][v] \in Nat
    BY DEF Scales
  <1>6. DOMAIN Scales = {"technical_difficulty", "market_size_band", "awareness", "local_penetration", "catalyst"}
    BY DEF Scales
  <1> QED
    BY <1>1, <1>2, <1>3, <1>4, <1>5, <1>6

\* What is said is a number where numbers are compared.
LEMMA SaidIsNumber ==
  ASSUME NEW e, IsContext(e), NEW k \in DOMAIN e
  PROVE  e[k] # None /\ (k \in MoreIsWorse \cup LessIsWorse => e[k] \in Int)
  BY DEF IsContext, IsValue

LEMMA NotBetterIsTransitive ==
  ASSUME NEW e, NEW d, NEW c, NotBetter(e, d), NotBetter(d, c)
  PROVE  NotBetter(e, c)
  <1>1. IsContext(e) /\ IsContext(d) /\ IsContext(c) /\ DOMAIN e = DOMAIN c /\ DOMAIN d = DOMAIN c
    BY DEF NotBetter
  <1>2. ASSUME NEW k \in DOMAIN e PROVE e[k] = c[k] \/ Worse(k, e[k], c[k])
    <2>1. (e[k] = d[k] \/ Worse(k, e[k], d[k])) /\ (d[k] = c[k] \/ Worse(k, d[k], c[k]))
      BY <1>1 DEF NotBetter
    <2>2. k \in MoreIsWorse \cup LessIsWorse => e[k] \in Int /\ d[k] \in Int /\ c[k] \in Int
      BY <1>1, SaidIsNumber
    <2>3. SUFFICES ASSUME Worse(k, e[k], d[k]), Worse(k, d[k], c[k]) PROVE Worse(k, e[k], c[k])
      BY <2>1
    <2>4. CASE k \in MoreIsWorse
      BY <2>2, <2>3, <2>4, KeysAreApart DEF Worse
    <2>5. CASE k \in LessIsWorse
      BY <2>2, <2>3, <2>5, KeysAreApart DEF Worse
    <2>6. CASE k \in DOMAIN Scales
      <3>1. /\ e[k] \in DOMAIN Scales[k] /\ d[k] \in DOMAIN Scales[k] /\ c[k] \in DOMAIN Scales[k]
            /\ Scales[k][e[k]] <= Scales[k][d[k]] /\ Scales[k][d[k]] <= Scales[k][c[k]]
        BY <2>3, <2>6, KeysAreApart DEF Worse
      <3>2. Scales[k][e[k]] <= Scales[k][c[k]]
        BY <2>6, <3>1, ScalesAreNumbers
      <3> QED
        BY <2>6, <3>1, <3>2 DEF Worse
    <2>7. CASE k \in DOMAIN Alarming
      BY <2>3, <2>7, KeysAreApart DEF Worse
    <2> QED
      BY <2>3, <2>4, <2>5, <2>6, <2>7 DEF Worse
  <1> QED
    BY <1>1, <1>2 DEF NotBetter

\* What the second context says, key by key.
LEMMA NothingIsForgotten ==
  ASSUME NEW e, NEW d, NotBetter(e, d), NEW k
  PROVE  /\ Knows(e, k) <=> Knows(d, k)
         /\ Get(e, k) = None <=> ~Knows(e, k)
         /\ Get(d, k) = None <=> ~Knows(d, k)
         /\ Knows(e, k) => Get(e, k) = e[k] /\ Get(d, k) = d[k]
  BY SaidIsNumber DEF NotBetter, Knows, Get

LEMMA NoFewer ==
  ASSUME NEW e, NEW d, NotBetter(e, d), NEW k \in MoreIsWorse, Knows(e, k)
  PROVE  e[k] \in Int /\ d[k] \in Int /\ e[k] <= d[k]
  <1>1. e[k] \in Int /\ d[k] \in Int
    BY SaidIsNumber DEF NotBetter, Knows
  <1> QED
    BY <1>1, KeysAreApart DEF NotBetter, Knows, Worse

LEMMA NoMore ==
  ASSUME NEW e, NEW d, NotBetter(e, d), NEW k \in LessIsWorse, Knows(e, k)
  PROVE  e[k] \in Int /\ d[k] \in Int /\ d[k] <= e[k]
  <1>1. e[k] \in Int /\ d[k] \in Int
    BY SaidIsNumber DEF NotBetter, Knows
  <1> QED
    BY <1>1, KeysAreApart DEF NotBetter, Knows, Worse

LEMMA StillAbove ==
  ASSUME NEW e, NEW d, NotBetter(e, d), NEW k \in MoreIsWorse, NEW b \in Int, Above(e, k, b)
  PROVE  Above(d, k, b)
  <1>1. e[k] \in Int /\ d[k] \in Int /\ e[k] <= d[k] /\ Knows(d, k) /\ e[k] > b
    BY NoFewer, NothingIsForgotten DEF Above
  <1> QED
    BY <1>1 DEF Above

LEMMA NotAboveAgain ==
  ASSUME NEW e, NEW d, NotBetter(e, d), NEW k \in LessIsWorse, NEW b \in Int, Above(d, k, b)
  PROVE  Above(e, k, b)
  <1>1. Knows(e, k) /\ d[k] > b
    BY NothingIsForgotten DEF Above
  <1>2. e[k] \in Int /\ d[k] \in Int /\ d[k] <= e[k]
    BY <1>1, NoMore
  <1> QED
    BY <1>1, <1>2 DEF Above

LEMMA StillBelow ==
  ASSUME NEW e, NEW d, NotBetter(e, d), NEW k \in LessIsWorse, NEW b \in Int, Below(e, k, b)
  PROVE  Below(d, k, b)
  <1>1. e[k] \in Int /\ d[k] \in Int /\ d[k] <= e[k] /\ Knows(d, k) /\ e[k] < b
    BY NoMore, NothingIsForgotten DEF Below
  <1> QED
    BY <1>1 DEF Below

\* A word of a scale is the same word or a worse one.
LEMMA NoBetterWord ==
  ASSUME NEW e, NEW d, NotBetter(e, d), NEW k \in DOMAIN Scales, Get(e, k) # Get(d, k)
  PROVE  /\ Get(e, k) \in DOMAIN Scales[k] /\ Get(d, k) \in DOMAIN Scales[k]
         /\ Scales[k][Get(e, k)] <= Scales[k][Get(d, k)]
  BY KeysAreApart DEF NotBetter, Get, Worse

LEMMA SameOrAlarming ==
  ASSUME NEW e, NEW d, NotBetter(e, d), NEW k \in DOMAIN Alarming, Get(e, k) # Get(d, k)
  PROVE  Knows(e, k) /\ Get(d, k) \in Alarming[k]
  BY KeysAreApart DEF NotBetter, Get, Knows, Worse

\* Nobody can say anything else of the rest.
LEMMA RestStays ==
  ASSUME NEW e, NEW d, NotBetter(e, d),
         NEW k, k \notin MoreIsWorse \cup LessIsWorse \cup DOMAIN Scales \cup DOMAIN Alarming
  PROVE  Get(e, k) = Get(d, k) /\ (Knows(e, k) => e[k] = d[k])
  BY DEF NotBetter, Get, Knows, Worse

-----------------------------------------------------------------------------
(* Two analyses of which the second is nowhere better.                     *)

LEMMA WhenIsFinite == ASSUME NEW p, NEW x PROVE IsFiniteSet(When(p, x))
  BY FS_EmptySet, FS_Singleton DEF When

Grimmer(a, b) ==
    /\ a.flags \subseteq b.flags /\ b.kinds \subseteq a.kinds /\ a.hints \subseteq b.hints
    /\ IsFiniteSet(a.kinds) /\ IsFiniteSet(b.hints)
    /\ a.missing \in Nat /\ b.missing \in Nat /\ a.missing <= b.missing
    /\ a.assumptions = b.assumptions /\ a.assumptions \in Nat
    /\ a.minRisk = b.minRisk /\ a.minRisk \in {None, "high"} /\ a.paying = b.paying
    /\ a.valuation = b.valuation \/ b.valuation = "extreme"
    /\ \A h \in b.hints : /\ h.code \notin MediumRiskFlags
                          /\ h.code \in HighRiskFlags => h = Hint(h.code, "high")

LEMMA BusinessIsGrimmer ==
  ASSUME NEW e, NEW d, NotBetter(e, d), NEW facts
  PROVE  Grimmer(AnalyseBusiness(facts, e), AnalyseBusiness(facts, d))
  <1> DEFINE a == AnalyseBusiness(facts, e)
             b == AnalyseBusiness(facts, d)
  <1>1. \A k : Knows(e, k) <=> Knows(d, k)
    BY NothingIsForgotten
  <1>2. a.flags \subseteq b.flags
    <2>1. Above(d, "defensibility_markers", 0) => Above(e, "defensibility_markers", 0)
      BY NotAboveAgain DEF LessIsWorse
    <2>2. /\ Above(e, "competitor_count", 14) => Above(d, "competitor_count", 14)
          /\ Above(e, "capital_required", 250) => Above(d, "capital_required", 250)
      BY StillAbove DEF MoreIsWorse
    <2> QED
      BY <1>1, <2>1, <2>2 DEF AnalyseBusiness, When
  <1>3. a.kinds = b.kinds /\ a.missing = b.missing /\ a.assumptions = b.assumptions /\ a.paying = b.paying
    <2>1. \A k, x : When(Knows(e, k), x) = When(Knows(d, k), x) /\ When(~Knows(e, k), x) = When(~Knows(d, k), x)
      BY <1>1 DEF When
    <2>2. a.kinds = b.kinds
      BY <2>1 DEF AnalyseBusiness
    <2>3. a.missing = b.missing
      BY <2>1 DEF AnalyseBusiness
    <2>4. a.assumptions = b.assumptions /\ a.paying = b.paying
      BY <1>1 DEF AnalyseBusiness
    <2> QED
      BY <2>2, <2>3, <2>4
  <1>4. IsFiniteSet(a.kinds)
    BY WhenIsFinite, FS_Union DEF AnalyseBusiness
  <1>5. a.missing \in Nat
    BY WhenIsFinite, FS_Union, Counts DEF AnalyseBusiness
  <1>6. /\ a.assumptions \in Nat /\ a.hints = {} /\ b.hints = {} /\ a.minRisk = None /\ b.minRisk = None
        /\ a.valuation = b.valuation
    BY DEF AnalyseBusiness
  <1>7. IsFiniteSet(b.hints)
    BY <1>6, FS_EmptySet
  <1> HIDE DEF a, b
  <1>8. Grimmer(a, b)
    BY <1>2, <1>3, <1>4, <1>5, <1>6, <1>7 DEF Grimmer
  <1> QED
    BY <1>8 DEF a, b

LEMMA ImportIsGrimmer ==
  ASSUME NEW e, NEW d, NotBetter(e, d), NEW facts
  PROVE  Grimmer(AnalyseImport(facts, e), AnalyseImport(facts, d))
  <1> DEFINE a == AnalyseImport(facts, e)
             b == AnalyseImport(facts, d)
             keys == [supplier_count |-> "supplier", local_availability |-> "local_availability",
                      margin_evidence |-> "shipping_economics", price_evidence |-> "price"]
             known == DOMAIN keys \cap DOMAIN e
  <1>1. DOMAIN e = DOMAIN d /\ \A k : Knows(e, k) <=> Knows(d, k)
    BY NothingIsForgotten DEF NotBetter
  <1>2. a.flags \subseteq b.flags
    <2>1. Below(e, "supplier_count", 2) => Below(d, "supplier_count", 2)
      BY StillBelow DEF LessIsWorse
    <2>2. Get(e, "manufacturing_concentration") \in {"single_country", "single_factory"}
            => Get(d, "manufacturing_concentration") \in {"single_country", "single_factory"}
      BY SameOrAlarming DEF Alarming
    <2>3. Get(e, "certification") \notin {None, "none", "not_required"}
            => Get(d, "certification") \notin {None, "none", "not_required"}
      <3>1. CASE Get(e, "certification") # Get(d, "certification")
        <4>1. Get(d, "certification") = "required" /\ Knows(d, "certification")
          BY <1>1, <3>1, SameOrAlarming DEF Alarming
        <4>2. Get(d, "certification") # None
          BY <4>1, NothingIsForgotten
        <4> QED
          BY <4>1, <4>2
      <3> QED
        BY <3>1
    <2>4. Get(e, "market_education_needed") = "high" => Get(d, "market_education_needed") = "high"
      BY SameOrAlarming DEF Alarming
    <2> QED
      BY <1>1, <2>1, <2>2, <2>3, <2>4 DEF AnalyseImport, When
  <1>3. a.kinds = b.kinds /\ a.missing = b.missing /\ a.assumptions = b.assumptions /\ a.paying = b.paying
    BY <1>1 DEF AnalyseImport
  <1>4. IsFiniteSet(DOMAIN keys) /\ IsFiniteSet(known) /\ IsFiniteSet(DOMAIN keys \ known)
    <2>1. IsFiniteSet({"supplier_count", "local_availability", "margin_evidence", "price_evidence"})
      BY FewAreFinite
    <2>2. DOMAIN keys = {"supplier_count", "local_availability", "margin_evidence", "price_evidence"}
      OBVIOUS
    <2> HIDE DEF keys
    <2> QED
      BY <2>1, <2>2, FS_Subset
  <1>5. IsFiniteSet(a.kinds)
    <2>1. IsFiniteSet({keys[k] : k \in known})
      <3> HIDE DEF keys, known
      <3> QED
        BY <1>4, ImageIsFinite
    <2>2. IsFiniteSet({"trade", "adoption"}) /\ IsFiniteSet({})
      <3>1. IsFiniteSet({"trade", "adoption", "adoption", "adoption"})
        BY FewAreFinite
      <3>2. {"trade", "adoption", "adoption", "adoption"} = {"trade", "adoption"}
        OBVIOUS
      <3> QED
        BY <3>1, <3>2, FS_EmptySet
    <2>3. a.kinds = {keys[k] : k \in known} \cup (IF "trade" \in Classes(facts) THEN {"trade", "adoption"} ELSE {})
      BY DEF AnalyseImport
    <2>4. IsFiniteSet(IF "trade" \in Classes(facts) THEN {"trade", "adoption"} ELSE {})
      BY <2>2
    <2> HIDE DEF a, keys, known
    <2> QED
      BY <2>1, <2>3, <2>4, FS_Union
  <1>6. a.missing \in Nat
    <2>1. a.missing = Cardinality(DOMAIN keys \ known)
      BY DEF AnalyseImport
    <2> QED
      BY <1>4, <2>1, Counts
  <1>7. a.assumptions \in Nat
    BY WhenIsFinite, FS_Union, Counts DEF AnalyseImport
  <1>8. /\ a.hints = {} /\ b.hints = {} /\ a.minRisk = None /\ b.minRisk = None /\ a.valuation = b.valuation
    BY DEF AnalyseImport
  <1>9. IsFiniteSet(b.hints)
    BY <1>8, FS_EmptySet
  <1> HIDE DEF a, b
  <1>10. Grimmer(a, b)
    BY <1>2, <1>3, <1>5, <1>6, <1>7, <1>8, <1>9 DEF Grimmer
  <1> QED
    BY <1>10 DEF a, b

LEMMA PublicIsGrimmer ==
  ASSUME NEW e, NEW d, NotBetter(e, d), NEW facts
  PROVE  Grimmer(AnalysePublicCompany(facts, e), AnalysePublicCompany(facts, d))
  <1> DEFINE a == AnalysePublicCompany(facts, e)
             b == AnalysePublicCompany(facts, d)
             reported == {"revenue_growth", "gross_margin", "free_cash_flow", "debt_to_equity"}
             priced(ctx) == Below(ctx, "price_age_days", 6)
  <1>1. DOMAIN e = DOMAIN d /\ \A k : Knows(e, k) <=> Knows(d, k)
    BY NothingIsForgotten DEF NotBetter
  <1>2. priced(e) <=> priced(d)
    <2>1. "price_age_days" \notin MoreIsWorse \cup LessIsWorse \cup DOMAIN Scales \cup DOMAIN Alarming
      BY DEF MoreIsWorse, LessIsWorse, Scales, Alarming
    <2>2. Knows(e, "price_age_days") => e["price_age_days"] = d["price_age_days"]
      BY <2>1, RestStays
    <2> QED
      BY <1>1, <2>2 DEF Below
  <1>3. /\ Above(e, "debt_to_equity", 200) => Above(d, "debt_to_equity", 200)
        /\ Above(e, "customer_concentration", 30) => Above(d, "customer_concentration", 30)
    BY StillAbove DEF MoreIsWorse
  <1>4. Below(e, "operating_margin", 0) => Below(d, "operating_margin", 0)
    BY StillBelow DEF LessIsWorse
  <1>5. \/ Get(e, "valuation_band") = Get(d, "valuation_band")
        \/ Get(d, "valuation_band") = "extreme"
    BY SameOrAlarming DEF Alarming
  <1>6. a.flags \subseteq b.flags
    BY <1>2, <1>3, <1>4, <1>5 DEF AnalysePublicCompany, When
  <1>7. a.hints \subseteq b.hints
    BY <1>3, <1>4 DEF AnalysePublicCompany, When
  <1>8. a.kinds = b.kinds
    BY <1>1, <1>2 DEF AnalysePublicCompany, When
  <1>9. a.missing = b.missing
    <2>1. When(~priced(e), "price") = When(~priced(d), "price")
      BY <1>2 DEF When
    <2>2. When(~Knows(e, "trend_exposure"), "exposure") = When(~Knows(d, "trend_exposure"), "exposure")
      BY <1>1 DEF When
    <2> QED
      BY <1>1, <2>1, <2>2 DEF AnalysePublicCompany
  <1>10. IsFiniteSet(a.kinds)
    <2>1. IsFiniteSet({"financial", "revenue_growth"}) /\ IsFiniteSet({})
      <3>1. IsFiniteSet({"financial", "revenue_growth", "revenue_growth", "revenue_growth"})
        BY FewAreFinite
      <3>2. {"financial", "revenue_growth", "revenue_growth", "revenue_growth"} = {"financial", "revenue_growth"}
        OBVIOUS
      <3> QED
        BY <3>1, <3>2, FS_EmptySet
    <2> QED
      BY <2>1, WhenIsFinite, FS_Union DEF AnalysePublicCompany
  <1>11. IsFiniteSet(b.hints)
    BY WhenIsFinite, FS_Union DEF AnalysePublicCompany
  <1>12. a.missing \in Nat
    <2>1. IsFiniteSet(reported \ DOMAIN e)
      BY FewAreFinite, FS_Subset
    <2>2. IsFiniteSet(When(~Knows(e, "trend_exposure"), "exposure") \cup When(~priced(e), "price"))
      BY WhenIsFinite, FS_Union
    <2>3. a.missing = Cardinality(reported \ DOMAIN e)
             + Cardinality(When(~Knows(e, "trend_exposure"), "exposure") \cup When(~priced(e), "price"))
      BY DEF AnalysePublicCompany
    <2> HIDE DEF a, reported, priced
    <2> QED
      BY <2>1, <2>2, <2>3, Counts
  <1>13. /\ a.assumptions = b.assumptions /\ a.assumptions \in Nat
         /\ a.valuation = b.valuation \/ b.valuation = "extreme"
    BY <1>2, <1>5 DEF AnalysePublicCompany
  <1>14. a.minRisk = None /\ b.minRisk = None /\ a.paying = b.paying
    BY DEF AnalysePublicCompany
  <1>15. \A h \in b.hints : h.code \notin MediumRiskFlags /\ h.code \notin HighRiskFlags
    BY DEF AnalysePublicCompany, When, Hint, MediumRiskFlags, HighRiskFlags
  <1> HIDE DEF a, b
  <1>16. Grimmer(a, b)
    BY <1>6, <1>7, <1>8, <1>9, <1>10, <1>11, <1>12, <1>13, <1>14, <1>15 DEF Grimmer
  <1> QED
    BY <1>16 DEF a, b

\* The codes that AnalyseCrypto raises by itself.
Automatic(facts, ctx) ==
       (IF Get(ctx, "utility") \in {None, "none"} /\ "developer" \notin Classes(facts)
        THEN {"meme_coin", "no_product"} ELSE {})
    \cup When(Get(ctx, "founders_identified") = FALSE, "anonymous_team")
    \cup When(Below(ctx, "liquidity", 250), "low_liquidity")
    \cup When(Above(ctx, "top10_share", 50) \/ Above(ctx, "insider_share", 30), "concentrated_ownership")
    \cup When(~Above(ctx, "audits", 0), "unverified_contract")
    \cup When(Above(ctx, "bot_activity_share", 40), "suspicious_volume")
    \cup When(Get(ctx, "influencer_promotion") = TRUE, "promotional_hype")
    \cup When(Get(ctx, "returns_depend_on_inflow") = TRUE, "ponzi_like_incentives")

CryptoHint(f) == Hint(f, IF f = "ponzi_like_incentives" THEN "blocking" ELSE "high")

\* The answers of the second context that the crypto analyzer asks for.
LEMMA CryptoAnswers ==
  ASSUME NEW e, NEW d, NotBetter(e, d)
  PROVE  /\ Get(e, "utility") \in {None, "none"} => Get(d, "utility") \in {None, "none"}
         /\ Get(e, "founders_identified") = FALSE => Get(d, "founders_identified") = FALSE
         /\ Get(e, "influencer_promotion") = TRUE => Get(d, "influencer_promotion") = TRUE
         /\ Get(e, "returns_depend_on_inflow") = TRUE => Get(d, "returns_depend_on_inflow") = TRUE
         /\ Below(e, "liquidity", 250) => Below(d, "liquidity", 250)
         /\ Above(e, "top10_share", 50) => Above(d, "top10_share", 50)
         /\ Above(e, "insider_share", 30) => Above(d, "insider_share", 30)
         /\ Above(e, "bot_activity_share", 40) => Above(d, "bot_activity_share", 40)
         /\ Above(e, "exchange_concentration", 70) => Above(d, "exchange_concentration", 70)
         /\ Above(d, "audits", 0) => Above(e, "audits", 0)
         /\ Above(d, "active_users", 0) => Above(e, "active_users", 0)
  <1>1. /\ Get(e, "utility") = Get(d, "utility") \/ Get(d, "utility") = "none"
        /\ Get(e, "founders_identified") = Get(d, "founders_identified") \/ Get(d, "founders_identified") = FALSE
        /\ Get(e, "influencer_promotion") = Get(d, "influencer_promotion") \/ Get(d, "influencer_promotion") = TRUE
        /\ \/ Get(e, "returns_depend_on_inflow") = Get(d, "returns_depend_on_inflow")
           \/ Get(d, "returns_depend_on_inflow") = TRUE
    BY SameOrAlarming DEF Alarming
  <1>2. /\ Above(e, "top10_share", 50) => Above(d, "top10_share", 50)
        /\ Above(e, "insider_share", 30) => Above(d, "insider_share", 30)
        /\ Above(e, "bot_activity_share", 40) => Above(d, "bot_activity_share", 40)
        /\ Above(e, "exchange_concentration", 70) => Above(d, "exchange_concentration", 70)
    BY StillAbove DEF MoreIsWorse
  <1>3. Below(e, "liquidity", 250) => Below(d, "liquidity", 250)
    BY StillBelow DEF LessIsWorse
  <1>4. /\ Above(d, "audits", 0) => Above(e, "audits", 0)
        /\ Above(d, "active_users", 0) => Above(e, "active_users", 0)
    BY NotAboveAgain DEF LessIsWorse
  <1> QED
    BY <1>1, <1>2, <1>3, <1>4

LEMMA WhenGrows == ASSUME NEW p, NEW q, NEW x, p => q PROVE When(p, x) \subseteq When(q, x)
  BY DEF When

LEMMA FourAreFinite ==
  ASSUME NEW p, NEW q, NEW r, NEW s, IsFiniteSet(p), IsFiniteSet(q), IsFiniteSet(r), IsFiniteSet(s)
  PROVE  IsFiniteSet(((p \cup q) \cup r) \cup s)
  <1>1. IsFiniteSet(p \cup q)
    BY FS_Union
  <1>2. IsFiniteSet((p \cup q) \cup r)
    BY <1>1, FS_Union
  <1> QED
    BY <1>2, FS_Union

LEMMA CryptoIsGrimmer ==
  ASSUME NEW e, NEW d, NotBetter(e, d), NEW facts
  PROVE  Grimmer(AnalyseCrypto(facts, e), AnalyseCrypto(facts, d))
  <1> DEFINE a == AnalyseCrypto(facts, e)
             b == AnalyseCrypto(facts, d)
             asked == {"adoption", "liquidity", "token_distribution", "audit"}
             told(ctx) == Knows(ctx, "top10_share") \/ Knows(ctx, "insider_share")
             audited(ctx) == ~ ~Above(ctx, "audits", 0)
             found(ctx) == When(Knows(ctx, "active_users"), "adoption")
                           \cup When(Knows(ctx, "liquidity"), "liquidity")
                           \cup When(told(ctx), "token_distribution") \cup When(audited(ctx), "audit")
  <1>1. DOMAIN e = DOMAIN d /\ (Knows(e, "founders_identified") <=> Knows(d, "founders_identified"))
    BY NothingIsForgotten DEF NotBetter
  <1> DEFINE product(ctx) == IF Get(ctx, "utility") \in {None, "none"} /\ "developer" \notin Classes(facts)
                             THEN {"meme_coin", "no_product"} ELSE {}
             concentrated(ctx) == Above(ctx, "top10_share", 50) \/ Above(ctx, "insider_share", 30)
             bots(ctx) == Above(ctx, "bot_activity_share", 40)
             paid(ctx) == Get(ctx, "influencer_promotion") = TRUE
             anonymous(ctx) == Get(ctx, "founders_identified") = FALSE
             thin(ctx) == Below(ctx, "liquidity", 250)
             unaudited(ctx) == ~Above(ctx, "audits", 0)
             inflow(ctx) == Get(ctx, "returns_depend_on_inflow") = TRUE
             illiquid(ctx) == thin(ctx) \/ Above(ctx, "exchange_concentration", 70)
             promoted(ctx) == bots(ctx) \/ paid(ctx)
             talked(ctx) == /\ "attention" \in Classes(facts) /\ ~Above(ctx, "active_users", 0)
                            /\ ~("developer" \in Classes(facts))
  <1>17. /\ product(e) \subseteq product(d)
         /\ concentrated(e) => concentrated(d)
         /\ bots(e) => bots(d)
         /\ paid(e) => paid(d)
         /\ anonymous(e) => anonymous(d)
         /\ thin(e) => thin(d)
         /\ unaudited(e) => unaudited(d)
         /\ inflow(e) => inflow(d)
         /\ illiquid(e) => illiquid(d)
         /\ promoted(e) => promoted(d)
         /\ talked(e) => talked(d)
    <2>1. product(e) \subseteq product(d)
      BY CryptoAnswers
    <2>2. concentrated(e) => concentrated(d)
      BY CryptoAnswers
    <2>3. (bots(e) => bots(d)) /\ (paid(e) => paid(d))
      BY CryptoAnswers
    <2>4. (anonymous(e) => anonymous(d)) /\ (inflow(e) => inflow(d))
      BY CryptoAnswers
    <2>5. (thin(e) => thin(d)) /\ (unaudited(e) => unaudited(d))
      BY CryptoAnswers
    <2>6. Above(e, "exchange_concentration", 70) => Above(d, "exchange_concentration", 70)
      BY CryptoAnswers
    <2>7. Above(d, "active_users", 0) => Above(e, "active_users", 0)
      BY CryptoAnswers
    <2>8. (illiquid(e) => illiquid(d)) /\ (promoted(e) => promoted(d)) /\ (talked(e) => talked(d))
      BY <2>3, <2>5, <2>6, <2>7
    <2> QED
      BY <2>1, <2>2, <2>3, <2>4, <2>5, <2>8
  <1>18. /\ \A ctx : AnalyseCrypto(facts, ctx).flags =
                When(anonymous(ctx), "anonymous_team") \cup When(illiquid(ctx), "poor_liquidity")
                \cup When(concentrated(ctx), "concentrated_ownership")
                \cup When(promoted(ctx), "promotional_manipulation")
                \cup When(talked(ctx), "attention_without_adoption")
         /\ \A ctx : Automatic(facts, ctx) =
                product(ctx) \cup When(anonymous(ctx), "anonymous_team") \cup When(thin(ctx), "low_liquidity")
                \cup When(concentrated(ctx), "concentrated_ownership")
                \cup When(unaudited(ctx), "unverified_contract") \cup When(bots(ctx), "suspicious_volume")
                \cup When(paid(ctx), "promotional_hype") \cup When(inflow(ctx), "ponzi_like_incentives")
    BY DEF AnalyseCrypto, Automatic
  <1>19. \A ctx : IsFiniteSet(product(ctx))
    <2>1. IsFiniteSet({"meme_coin", "no_product", "no_product", "no_product"})
      BY FewAreFinite
    <2>2. {"meme_coin", "no_product", "no_product", "no_product"} = {"meme_coin", "no_product"}
      OBVIOUS
    <2> QED
      BY <2>1, <2>2, FS_EmptySet
  <1>2. a.flags \subseteq b.flags
    <2> HIDE DEF anonymous, illiquid, concentrated, promoted, talked, product, bots, paid, thin, unaudited, inflow
    <2>1. /\ When(anonymous(e), "anonymous_team") \subseteq When(anonymous(d), "anonymous_team")
          /\ When(illiquid(e), "poor_liquidity") \subseteq When(illiquid(d), "poor_liquidity")
          /\ When(concentrated(e), "concentrated_ownership") \subseteq When(concentrated(d), "concentrated_ownership")
          /\ When(promoted(e), "promotional_manipulation") \subseteq When(promoted(d), "promotional_manipulation")
          /\ When(talked(e), "attention_without_adoption") \subseteq When(talked(d), "attention_without_adoption")
      BY <1>17, WhenGrows
    <2> QED
      BY <1>18, <2>1
  <1>3. Automatic(facts, e) \subseteq Automatic(facts, d) /\ IsFiniteSet(Automatic(facts, d))
    <2> HIDE DEF anonymous, illiquid, concentrated, promoted, talked, product, bots, paid, thin, unaudited, inflow
    <2>1. /\ When(anonymous(e), "anonymous_team") \subseteq When(anonymous(d), "anonymous_team")
          /\ When(thin(e), "low_liquidity") \subseteq When(thin(d), "low_liquidity")
          /\ When(concentrated(e), "concentrated_ownership") \subseteq When(concentrated(d), "concentrated_ownership")
          /\ When(unaudited(e), "unverified_contract") \subseteq When(unaudited(d), "unverified_contract")
          /\ When(bots(e), "suspicious_volume") \subseteq When(bots(d), "suspicious_volume")
          /\ When(paid(e), "promotional_hype") \subseteq When(paid(d), "promotional_hype")
          /\ When(inflow(e), "ponzi_like_incentives") \subseteq When(inflow(d), "ponzi_like_incentives")
      BY <1>17, WhenGrows
    <2>2. Automatic(facts, e) \subseteq Automatic(facts, d)
      BY <1>17, <1>18, <2>1
    <2>3. IsFiniteSet(When(anonymous(d), "anonymous_team") \cup When(thin(d), "low_liquidity"))
      BY WhenIsFinite, FS_Union
    <2>4. IsFiniteSet(When(concentrated(d), "concentrated_ownership")
                      \cup When(unaudited(d), "unverified_contract"))
      BY WhenIsFinite, FS_Union
    <2>5. IsFiniteSet(When(bots(d), "suspicious_volume") \cup When(paid(d), "promotional_hype")
                      \cup When(inflow(d), "ponzi_like_incentives"))
      BY WhenIsFinite, FS_Union
    <2>6. Automatic(facts, d) =
             ((product(d) \cup (When(anonymous(d), "anonymous_team") \cup When(thin(d), "low_liquidity")))
              \cup (When(concentrated(d), "concentrated_ownership")
                      \cup When(unaudited(d), "unverified_contract")))
             \cup (When(bots(d), "suspicious_volume") \cup When(paid(d), "promotional_hype")
                      \cup When(inflow(d), "ponzi_like_incentives"))
      BY <1>18
    <2>7. IsFiniteSet(product(d))
      BY <1>19
    <2>8. IsFiniteSet(((product(d) \cup (When(anonymous(d), "anonymous_team") \cup When(thin(d), "low_liquidity")))
                       \cup (When(concentrated(d), "concentrated_ownership")
                               \cup When(unaudited(d), "unverified_contract")))
                      \cup (When(bots(d), "suspicious_volume") \cup When(paid(d), "promotional_hype")
                               \cup When(inflow(d), "ponzi_like_incentives")))
      BY <2>3, <2>4, <2>5, <2>7, FourAreFinite
    <2>9. IsFiniteSet(Automatic(facts, d))
      BY <2>6, <2>8
    <2> QED
      BY <2>2, <2>9
  <1> HIDE DEF anonymous, illiquid, concentrated, promoted, talked, product, bots, paid, thin, unaudited, inflow
  <1>4. /\ a.hints = {CryptoHint(f) : f \in Automatic(facts, e)}
        /\ b.hints = {CryptoHint(f) : f \in Automatic(facts, d)}
    BY DEF AnalyseCrypto, Automatic, CryptoHint
  <1>5. a.hints \subseteq b.hints
    BY <1>3, <1>4
  <1>6. IsFiniteSet(b.hints)
    <2> DEFINE hint == [f \in Automatic(facts, d) |-> CryptoHint(f)]
    <2>3. b.hints = {hint[f] : f \in Automatic(facts, d)}
      BY <1>4
    <2> HIDE DEF hint, b
    <2> QED
      BY <1>3, <2>3, ImageIsFinite
  <1>7. \A h \in b.hints : /\ h.code \notin MediumRiskFlags
                           /\ h.code \in HighRiskFlags => h = Hint(h.code, "high")
    <2>1. SUFFICES ASSUME NEW f \in Automatic(facts, d)
                   PROVE  /\ CryptoHint(f).code \notin MediumRiskFlags
                          /\ CryptoHint(f).code \in HighRiskFlags => CryptoHint(f) = Hint(CryptoHint(f).code, "high")
      BY <1>4
    <2>2. f \in {"meme_coin", "no_product", "anonymous_team", "low_liquidity", "concentrated_ownership",
                 "unverified_contract", "suspicious_volume", "promotional_hype", "ponzi_like_incentives"}
      BY DEF Automatic, When
    <2>3. CryptoHint(f).code = f
      BY DEF CryptoHint, Hint
    <2>4. f # "ponzi_like_incentives" => CryptoHint(f) = Hint(f, "high")
      BY DEF CryptoHint
    <2> QED
      BY <2>2, <2>3, <2>4 DEF MediumRiskFlags, HighRiskFlags
  <1>8. IsFiniteSet(asked)
    BY FewAreFinite
  <1>9. found(d) \subseteq found(e) /\ found(e) \subseteq asked
    <2>1. /\ Knows(e, "active_users") <=> Knows(d, "active_users")
          /\ Knows(e, "liquidity") <=> Knows(d, "liquidity")
          /\ told(e) <=> told(d)
      BY <1>1 DEF Knows
    <2>2. audited(d) => audited(e)
      BY CryptoAnswers
    <2> HIDE DEF told, audited
    <2> QED
      BY <2>1, <2>2 DEF When
  <1>10. /\ a.missing = Cardinality(asked \ found(e))
         /\ b.missing = Cardinality(asked \ found(d))
         /\ a.kinds = found(e) \cup When("developer" \in Classes(facts), "developer")
                        \cup When(Knows(e, "founders_identified"), "team")
         /\ b.kinds = found(d) \cup When("developer" \in Classes(facts), "developer")
                        \cup When(Knows(d, "founders_identified"), "team")
    BY DEF AnalyseCrypto
  <1>11. /\ a.minRisk = CryptoMinRisk /\ b.minRisk = CryptoMinRisk /\ a.paying = b.paying
         /\ a.valuation = b.valuation /\ a.assumptions = 0 /\ b.assumptions = 0
    BY DEF AnalyseCrypto
  <1> HIDE DEF a, b, asked, found
  <1>12. IsFiniteSet(asked \ found(e)) /\ IsFiniteSet(asked \ found(d)) /\ IsFiniteSet(found(e))
    BY <1>8, <1>9, FS_Subset
  <1>13. a.missing \in Nat /\ b.missing \in Nat /\ a.missing <= b.missing
    <2>1. asked \ found(e) \subseteq asked \ found(d)
      BY <1>9
    <2>2. Cardinality(asked \ found(e)) <= Cardinality(asked \ found(d))
      BY <1>12, <2>1, FS_Subset
    <2> QED
      BY <1>10, <1>12, <2>2, Counts
  <1>14. b.kinds \subseteq a.kinds
    BY <1>1, <1>9, <1>10 DEF When
  <1>15. IsFiniteSet(a.kinds)
    <2> DEFINE team == When(Knows(e, "founders_identified"), "team")
               dev == When("developer" \in Classes(facts), "developer")
    <2>1. IsFiniteSet(found(e))
      BY <1>12
    <2>2. IsFiniteSet(team) /\ IsFiniteSet(dev)
      BY WhenIsFinite
    <2>3. a.kinds = found(e) \cup dev \cup team
      BY <1>10
    <2> HIDE DEF team, dev
    <2> QED
      BY <2>1, <2>2, <2>3, FS_Union
  <1>16. Grimmer(a, b)
    BY <1>2, <1>5, <1>6, <1>7, <1>11, <1>13, <1>14, <1>15 DEF Grimmer, CryptoMinRisk
  <1> QED
    BY <1>16 DEF a, b

LEMMA AnalysisIsGrimmer ==
  ASSUME NEW e, NEW d, NotBetter(e, d), NEW facts, NEW type \in DOMAIN RequiredEvidence
  PROVE  Grimmer(RunAnalyzer(type, facts, e), RunAnalyzer(type, facts, d))
  <1>1. type \in {"business", "import_distribution", "public_investment", "crypto"}
    BY DEF RequiredEvidence
  <1> QED
    BY <1>1, BusinessIsGrimmer, ImportIsGrimmer, PublicIsGrimmer, CryptoIsGrimmer DEF RunAnalyzer

-----------------------------------------------------------------------------
(* Two inputs of the scoring of which the second is nowhere better.        *)

NoBetterOn(key, v, w) ==
    v = w \/ (v \in DOMAIN Scales[key] /\ w \in DOMAIN Scales[key] /\ Scales[key][v] <= Scales[key][w])

Bleaker(i, j) ==
    /\ Sensible(i) /\ Sensible(j)
    /\ i.type = j.type /\ i.trend = j.trend /\ i.facts = j.facts
    /\ i.commercial = j.commercial /\ i.assumptions = j.assumptions /\ i.assumptions \in Nat
    /\ NoBetterOn("market_size_band", i.market, j.market)
    /\ NoBetterOn("local_penetration", i.penetration, j.penetration)
    /\ NoBetterOn("awareness", i.awareness, j.awareness)
    /\ NoBetterOn("technical_difficulty", i.difficulty, j.difficulty)
    /\ NoBetterOn("catalyst", i.catalyst, j.catalyst)
    /\ i.market = None <=> j.market = None
    /\ i.penetration = None <=> j.penetration = None
    /\ i.awareness = None <=> j.awareness = None
    /\ i.difficulty = None <=> j.difficulty = None
    /\ i.competitors = None <=> j.competitors = None
    /\ i.competitors # None => i.competitors <= j.competitors
    /\ i.capital = None <=> j.capital = None
    /\ i.capital # None => i.capital <= j.capital
    /\ i.barriers <= j.barriers /\ j.markers <= i.markers
    /\ i.flags \subseteq j.flags /\ j.kinds \subseteq i.kinds /\ IsFiniteSet(i.kinds)

\* A candidate of which something else is said.
Told(c, ctx) == [type |-> c.type, trend |-> c.trend, facts |-> c.facts, ctx |-> ctx]

LEMMA ToldCandidate ==
  ASSUME NEW c, IsCandidate(c), NEW ctx, IsContext(ctx)
  PROVE  /\ IsCandidate(Told(c, ctx)) /\ Told(c, c.ctx) = c
         /\ Told(c, ctx).type = c.type /\ Told(c, ctx).trend = c.trend /\ Told(c, ctx).facts = c.facts
         /\ Told(c, ctx).ctx = ctx
  <1>1. /\ Told(c, ctx).type = c.type /\ Told(c, ctx).trend = c.trend /\ Told(c, ctx).facts = c.facts
        /\ Told(c, ctx).ctx = ctx /\ Told(c, c.ctx) = c
    BY DEF Told, IsCandidate
  <1>2. Told(c, ctx) = [type |-> Told(c, ctx).type, trend |-> Told(c, ctx).trend,
                        facts |-> Told(c, ctx).facts, ctx |-> Told(c, ctx).ctx]
    BY DEF Told
  <1>3. IsCandidate(Told(c, ctx))
    BY <1>1, <1>2 DEF IsCandidate
  <1> QED
    BY <1>1, <1>3

\* Its fields, entry by entry.
LEMMA FieldsOfTold ==
  ASSUME NEW c, NEW ctx
  PROVE  /\ Judged(Told(c, ctx)).market = Get(ctx, "market_size_band")
         /\ Judged(Told(c, ctx)).penetration = Get(ctx, "local_penetration")
         /\ Judged(Told(c, ctx)).competitors = Get(ctx, "competitor_count")
         /\ Judged(Told(c, ctx)).awareness = Get(ctx, "awareness")
         /\ Judged(Told(c, ctx)).capital = Get(ctx, "capital_required")
         /\ Judged(Told(c, ctx)).difficulty = Get(ctx, "technical_difficulty")
         /\ Judged(Told(c, ctx)).barriers = (IF Knows(ctx, "barriers") THEN ctx["barriers"] ELSE 0)
         /\ Judged(Told(c, ctx)).markers = (IF Knows(ctx, "defensibility_markers")
                                            THEN ctx["defensibility_markers"] ELSE 0)
         /\ Judged(Told(c, ctx)).catalyst = Get(ctx, "catalyst")
         /\ Judged(Told(c, ctx)).commercial = Knows(ctx, "has_commercial_data")
  <1> DEFINE t == Told(c, ctx)
  <1>1. t.ctx = ctx
    BY DEF Told
  <1> HIDE DEF t
  <1>2. /\ Judged(t).market = Get(ctx, "market_size_band")
        /\ Judged(t).penetration = Get(ctx, "local_penetration")
        /\ Judged(t).competitors = Get(ctx, "competitor_count")
        /\ Judged(t).awareness = Get(ctx, "awareness")
        /\ Judged(t).capital = Get(ctx, "capital_required")
    BY <1>1, FieldsOfJudged
  <1>3. /\ Judged(t).difficulty = Get(ctx, "technical_difficulty")
        /\ Judged(t).catalyst = Get(ctx, "catalyst")
        /\ Judged(t).commercial = Knows(ctx, "has_commercial_data")
    BY <1>1, FieldsOfJudged
  <1>4. /\ Judged(t).barriers = (IF Knows(ctx, "barriers") THEN ctx["barriers"] ELSE 0)
        /\ Judged(t).markers = (IF Knows(ctx, "defensibility_markers") THEN ctx["defensibility_markers"] ELSE 0)
    BY <1>1, FieldsOfJudged
  <1> QED
    BY <1>2, <1>3, <1>4 DEF t

LEMMA JudgedIsBleaker ==
  ASSUME NEW c, IsCandidate(c), NEW e, NEW d, NotBetter(e, d)
  PROVE  /\ Bleaker(Judged(Told(c, e)), Judged(Told(c, d)))
         /\ Grimmer(Analyzed(Told(c, e)), Analyzed(Told(c, d)))
  <1> DEFINE i == Judged(Told(c, e))
             j == Judged(Told(c, d))
             a == Analyzed(Told(c, e))
             b == Analyzed(Told(c, d))
  <1>0. IsContext(e) /\ IsContext(d)
    BY DEF NotBetter
  <1>1. /\ Told(c, e).type = c.type /\ Told(c, e).trend = c.trend /\ Told(c, e).facts = c.facts
        /\ Told(c, e).ctx = e
        /\ Told(c, d).type = c.type /\ Told(c, d).trend = c.trend /\ Told(c, d).facts = c.facts
        /\ Told(c, d).ctx = d
    BY <1>0, ToldCandidate
  <1>2. Sensible(i) /\ Sensible(j)
    BY <1>0, ToldCandidate, JudgedIsSensible
  <1>3. Grimmer(a, b)
    <2>1. a = RunAnalyzer(c.type, c.facts, e) /\ b = RunAnalyzer(c.type, c.facts, d)
      BY <1>1 DEF Analyzed
    <2>2. c.type \in DOMAIN RequiredEvidence
      BY DEF IsCandidate
    <2> HIDE DEF a, b
    <2> QED
      BY <2>1, <2>2, AnalysisIsGrimmer
  <1>4. /\ i.type = c.type /\ i.trend = c.trend /\ i.facts = c.facts
        /\ j.type = c.type /\ j.trend = c.trend /\ j.facts = c.facts
        /\ i.flags = a.flags /\ i.kinds = a.kinds /\ i.assumptions = a.assumptions
        /\ j.flags = b.flags /\ j.kinds = b.kinds /\ j.assumptions = b.assumptions
    BY <1>1, FieldsOfJudged
  <1>5. /\ i.market = Get(e, "market_size_band") /\ j.market = Get(d, "market_size_band")
        /\ i.penetration = Get(e, "local_penetration") /\ j.penetration = Get(d, "local_penetration")
        /\ i.awareness = Get(e, "awareness") /\ j.awareness = Get(d, "awareness")
        /\ i.difficulty = Get(e, "technical_difficulty") /\ j.difficulty = Get(d, "technical_difficulty")
        /\ i.catalyst = Get(e, "catalyst") /\ j.catalyst = Get(d, "catalyst")
    BY FieldsOfTold
  <1>6. /\ i.competitors = Get(e, "competitor_count") /\ j.competitors = Get(d, "competitor_count")
        /\ i.capital = Get(e, "capital_required") /\ j.capital = Get(d, "capital_required")
    BY FieldsOfTold
  <1>7. /\ i.barriers = (IF Knows(e, "barriers") THEN e["barriers"] ELSE 0)
        /\ j.barriers = (IF Knows(d, "barriers") THEN d["barriers"] ELSE 0)
        /\ i.markers = (IF Knows(e, "defensibility_markers") THEN e["defensibility_markers"] ELSE 0)
        /\ j.markers = (IF Knows(d, "defensibility_markers") THEN d["defensibility_markers"] ELSE 0)
    BY FieldsOfTold
  <1>8. i.commercial = j.commercial
    <2>1. i.commercial = Knows(e, "has_commercial_data") /\ j.commercial = Knows(d, "has_commercial_data")
      BY FieldsOfTold
    <2> QED
      BY <2>1 DEF Knows, NotBetter
  <1> HIDE DEF i, j, a, b
  <1>9. /\ NoBetterOn("market_size_band", i.market, j.market)
        /\ NoBetterOn("local_penetration", i.penetration, j.penetration)
        /\ NoBetterOn("awareness", i.awareness, j.awareness)
        /\ NoBetterOn("technical_difficulty", i.difficulty, j.difficulty)
        /\ NoBetterOn("catalyst", i.catalyst, j.catalyst)
    <2>1. \A k \in DOMAIN Scales : NoBetterOn(k, Get(e, k), Get(d, k))
      BY NoBetterWord DEF NoBetterOn
    <2>2. DOMAIN Scales = {"technical_difficulty", "market_size_band", "awareness", "local_penetration", "catalyst"}
      BY DEF Scales
    <2> QED
      BY <1>5, <2>1, <2>2
  <1>10. /\ i.market = None <=> j.market = None
         /\ i.penetration = None <=> j.penetration = None
         /\ i.awareness = None <=> j.awareness = None
         /\ i.difficulty = None <=> j.difficulty = None
         /\ i.competitors = None <=> j.competitors = None
         /\ i.capital = None <=> j.capital = None
    BY <1>5, <1>6, NothingIsForgotten
  <1>11. /\ i.competitors # None => i.competitors <= j.competitors
         /\ i.capital # None => i.capital <= j.capital
    BY <1>6, NothingIsForgotten, NoFewer DEF MoreIsWorse
  <1>12. i.barriers <= j.barriers /\ j.markers <= i.markers
    <2>1. i.barriers <= j.barriers
      <3>1. Knows(e, "barriers") <=> Knows(d, "barriers")
        BY NothingIsForgotten
      <3>2. Knows(e, "barriers") => e["barriers"] <= d["barriers"]
        BY NoFewer DEF MoreIsWorse
      <3> QED
        BY <1>7, <3>1, <3>2
    <2>2. j.markers <= i.markers
      <3>1. Knows(e, "defensibility_markers") <=> Knows(d, "defensibility_markers")
        BY NothingIsForgotten
      <3>2. Knows(e, "defensibility_markers") => d["defensibility_markers"] <= e["defensibility_markers"]
        BY NoMore DEF LessIsWorse
      <3> QED
        BY <1>7, <3>1, <3>2
    <2> QED
      BY <2>1, <2>2
  <1>13. /\ i.flags \subseteq j.flags /\ j.kinds \subseteq i.kinds /\ IsFiniteSet(i.kinds)
         /\ i.assumptions = j.assumptions /\ i.assumptions \in Nat
    BY <1>3, <1>4 DEF Grimmer
  <1>14. Bleaker(i, j)
    BY <1>2, <1>4, <1>8, <1>9, <1>10, <1>11, <1>12, <1>13 DEF Bleaker
  <1> QED
    BY <1>3, <1>14 DEF i, j, a, b

LEMMA MarketFalls ==
  ASSUME NEW i, NEW j, Bleaker(i, j) PROVE MarketPotential(j) <= MarketPotential(i)
  <1>1. CASE i.market = j.market
    <2>1. MarketPotential(j) = MarketPotential(i)
      BY <1>1 DEF MarketPotential
    <2>2. MarketPotential(i) \in 0..1500
      BY ComponentsRange DEF Bleaker
    <2> QED
      BY <2>1, <2>2
  <1>2. CASE i.market # j.market
    BY <1>2 DEF Bleaker, NoBetterOn, Scales, MarketPotential, Fraction
  <1> QED
    BY <1>1, <1>2

LEMMA CatalystFalls ==
  ASSUME NEW i, NEW j, Bleaker(i, j) PROVE Catalyst(j) <= Catalyst(i)
  <1>1. CASE i.catalyst = j.catalyst
    <2>1. Catalyst(j) = Catalyst(i)
      BY <1>1 DEF Catalyst
    <2>2. Catalyst(i) \in 0..1000
      BY ComponentsRange DEF Bleaker
    <2> QED
      BY <2>1, <2>2
  <1>2. CASE i.catalyst # j.catalyst
    BY <1>2 DEF Bleaker, NoBetterOn, Scales, Catalyst, Fraction
  <1> QED
    BY <1>1, <1>2

LEMMA DefensibilityFalls ==
  ASSUME NEW i, NEW j, Bleaker(i, j) PROVE Defensibility(j) <= Defensibility(i)
  <1>1. i.markers \in Nat /\ j.markers \in Nat /\ j.markers <= i.markers
    BY DEF Bleaker, Sensible
  <1> DEFINE m == Min({i.markers, 3})
             n == Min({j.markers, 3})
  <1>2. m = (IF i.markers <= 3 THEN i.markers ELSE 3) /\ n = (IF j.markers <= 3 THEN j.markers ELSE 3)
    BY <1>1, MinOfTwo
  <1>3. m \in Nat /\ n \in Nat /\ n <= m
    BY <1>1, <1>2
  <1> HIDE DEF m, n
  <1>4. (1000 * n) \div 3 <= (1000 * m) \div 3
    BY <1>3
  <1> QED
    BY <1>4 DEF Defensibility, m, n

LEMMA OpennessFalls ==
  ASSUME NEW v \in Nat, NEW w \in Nat, v <= w, None \notin Int
  PROVE  CapitalOpenness(w) <= CapitalOpenness(v)
  <1>1. ASSUME NEW c \in Nat
        PROVE  CapitalOpenness(c) = IF c <= 1 THEN 100 ELSE IF c <= 10 THEN 85 ELSE IF c <= 100 THEN 60
                                    ELSE IF c <= 1000 THEN 35 ELSE 15
    <2>1. c # None
      OBVIOUS
    <2>2. CASE c <= 1
      BY <2>1, <2>2 DEF CapitalOpenness
    <2>3. CASE c > 1 /\ c <= 10
      BY <2>1, <2>3 DEF CapitalOpenness
    <2>4. CASE c > 10 /\ c <= 100
      BY <2>1, <2>4 DEF CapitalOpenness
    <2>5. CASE c > 100 /\ c <= 1000
      BY <2>1, <2>5 DEF CapitalOpenness
    <2>6. CASE c > 1000
      BY <2>1, <2>6 DEF CapitalOpenness
    <2> QED
      BY <2>2, <2>3, <2>4, <2>5, <2>6
  <1> QED
    BY <1>1

LEMMA WayInNarrows ==
  ASSUME NEW i, NEW j, Bleaker(i, j)
  PROVE  /\ AccessibilityVerdict(i) => AccessibilityVerdict(j)
         /\ Accessibility(j) <= Accessibility(i)
  <1> DEFINE ease(inp) == IF inp.difficulty = None THEN 50
                          ELSE Fraction([low |-> 100, medium |-> 60, high |-> 25], inp.difficulty)
             room(inp) == 40 * CapitalOpenness(inp.capital) + 35 * ease(inp) + 2500 - 625 * Min({inp.barriers, 4})
  <1>1. /\ i.barriers \in Nat /\ j.barriers \in Nat /\ i.barriers <= j.barriers
        /\ i.capital \in Nat \cup {None} /\ j.capital \in Nat \cup {None}
        /\ i.capital = None <=> j.capital = None
        /\ i.capital # None => i.capital <= j.capital
        /\ i.difficulty = None <=> j.difficulty = None
        /\ NoBetterOn("technical_difficulty", i.difficulty, j.difficulty)
    BY DEF Bleaker, Sensible
  <1>2. i.difficulty = "high" => j.difficulty = "high"
    BY <1>1 DEF NoBetterOn, Scales
  <1>3. AccessibilityVerdict(i) => AccessibilityVerdict(j)
    BY <1>1, <1>2 DEF AccessibilityVerdict, ProhibitiveCapital
  <1>4. CapitalOpenness(j.capital) <= CapitalOpenness(i.capital)
    <2>1. CASE i.capital = None
      BY <1>1, <2>1 DEF CapitalOpenness
    <2>2. CASE i.capital # None
      BY <1>1, <2>2, OpennessFalls, CandidatesAssumption
    <2> QED
      BY <2>1, <2>2
  <1>5. CapitalOpenness(i.capital) \in 0..100 /\ CapitalOpenness(j.capital) \in 0..100
    BY DEF CapitalOpenness
  <1>6. ease(i) \in 0..100 /\ ease(j) \in 0..100
    BY DEF Fraction
  <1>7. ease(j) <= ease(i)
    <2>1. CASE i.difficulty = j.difficulty
      BY <1>6, <2>1
    <2>2. CASE i.difficulty # j.difficulty
      BY <1>1, <2>2 DEF NoBetterOn, Scales, Fraction
    <2> QED
      BY <2>1, <2>2
  <1>8. /\ Min({i.barriers, 4}) = (IF i.barriers <= 4 THEN i.barriers ELSE 4)
        /\ Min({j.barriers, 4}) = (IF j.barriers <= 4 THEN j.barriers ELSE 4)
    BY <1>1, MinOfTwo
  <1> HIDE DEF ease
  <1>9. room(i) \in Int /\ room(j) \in Int /\ room(j) <= room(i)
    <2> DEFINE a == CapitalOpenness(i.capital)   c == CapitalOpenness(j.capital)
               b == ease(i)                      d == ease(j)
               m == Min({i.barriers, 4})         n == Min({j.barriers, 4})
               r == room(i)                      s == room(j)
    <2>1. m \in 0..4 /\ n \in 0..4 /\ m <= n
      BY <1>1, <1>8
    <2>2. a \in 0..100 /\ c \in 0..100 /\ c <= a
      BY <1>4, <1>5
    <2>3. b \in 0..100 /\ d \in 0..100 /\ d <= b
      BY <1>6, <1>7
    <2>4. r = 40 * a + 35 * b + 2500 - 625 * m /\ s = 40 * c + 35 * d + 2500 - 625 * n
      OBVIOUS
    <2> HIDE DEF a, b, m, c, d, n, r, s
    <2>5. r \in Int /\ s \in Int /\ s <= r
      BY <2>1, <2>2, <2>3, <2>4
    <2> QED
      BY <2>5 DEF r, s
  <1> HIDE DEF room
  <1>10. /\ Max({0, room(i)}) = (IF 0 >= room(i) THEN 0 ELSE room(i))
         /\ Max({0, room(j)}) = (IF 0 >= room(j) THEN 0 ELSE room(j))
    BY <1>9, MaxOfTwo
  <1>11. Max({0, room(j)}) \div 10 <= Max({0, room(i)}) \div 10
    BY <1>9, <1>10
  <1>12. Max({0, room(i)}) \div 10 >= 0
    BY <1>9, <1>10
  <1>13. \A inp : Accessibility(inp) = (IF AccessibilityVerdict(inp) THEN 0 ELSE Max({0, room(inp)}) \div 10)
    BY DEF Accessibility, room, ease
  <1>14. Accessibility(j) <= Accessibility(i)
    BY <1>3, <1>11, <1>12, <1>13
  <1> QED
    BY <1>3, <1>14

LEMMA EntryPartsFall ==
  ASSUME NEW i, NEW j, Bleaker(i, j), NEW p \in DOMAIN EntryParts(i)
  PROVE  /\ EntryParts(i)[p] = None <=> EntryParts(j)[p] = None
         /\ EntryParts(i)[p] # None => EntryParts(j)[p] <= EntryParts(i)[p]
  <1>1. p \in {"penetration", "competitors", "awareness", "stage"}
    BY EntryPartsRange DEF Bleaker
  <1>2. None \notin Int
    BY CandidatesAssumption
  <1>3. CASE p = "penetration"
    <2> DEFINE rate(v) == Fraction([none |-> 100, low |-> 80, medium |-> 40, high |-> 0], v)
    <2>1. \A v : rate(v) \in Int
      BY DEF Fraction
    <2>2. i.penetration # j.penetration => rate(j.penetration) <= rate(i.penetration)
      BY DEF Bleaker, NoBetterOn, Scales, Fraction
    <2>3. \A inp : EntryParts(inp)["penetration"] = (IF inp.penetration = None THEN None ELSE rate(inp.penetration))
      BY DEF EntryParts
    <2>4. i.penetration = None <=> j.penetration = None
      BY DEF Bleaker
    <2> HIDE DEF rate
    <2>5. rate(j.penetration) <= rate(i.penetration)
      BY <2>1, <2>2
    <2>6. EntryParts(i)["penetration"] = None <=> EntryParts(j)["penetration"] = None
      BY <1>2, <2>1, <2>3, <2>4
    <2>7. EntryParts(i)["penetration"] # None => EntryParts(j)["penetration"] <= EntryParts(i)["penetration"]
      BY <1>2, <2>1, <2>3, <2>4, <2>5
    <2> QED
      BY <1>3, <2>6, <2>7
  <1>4. CASE p = "competitors"
    <2>1. \A n : CompetitionRate(n) \in Int
      BY DEF CompetitionRate
    <2>2. /\ i.competitors = None <=> j.competitors = None
          /\ i.competitors # None => i.competitors <= j.competitors /\ i.competitors \in Nat /\ j.competitors \in Nat
      BY DEF Bleaker, Sensible
    <2>3. i.competitors # None => CompetitionRate(j.competitors) <= CompetitionRate(i.competitors)
      BY <2>2 DEF CompetitionRate
    <2>4. \A inp : EntryParts(inp)["competitors"]
                     = (IF inp.competitors = None THEN None ELSE CompetitionRate(inp.competitors))
      BY DEF EntryParts
    <2>5. EntryParts(i)["competitors"] = None <=> EntryParts(j)["competitors"] = None
      BY <1>2, <2>1, <2>2, <2>4
    <2>6. EntryParts(i)["competitors"] # None => EntryParts(j)["competitors"] <= EntryParts(i)["competitors"]
      BY <1>2, <2>1, <2>2, <2>3, <2>4
    <2> QED
      BY <1>4, <2>5, <2>6
  <1>5. CASE p = "awareness"
    <2> DEFINE rate(v) == Fraction([low |-> 100, medium |-> 50, high |-> 0], v)
    <2>1. \A v : rate(v) \in Int
      BY DEF Fraction
    <2>2. i.awareness # j.awareness => rate(j.awareness) <= rate(i.awareness)
      BY DEF Bleaker, NoBetterOn, Scales, Fraction
    <2>3. \A inp : EntryParts(inp)["awareness"] = (IF inp.awareness = None THEN None ELSE rate(inp.awareness))
      BY DEF EntryParts
    <2>4. i.awareness = None <=> j.awareness = None
      BY DEF Bleaker
    <2> HIDE DEF rate
    <2>5. rate(j.awareness) <= rate(i.awareness)
      BY <2>1, <2>2
    <2>6. EntryParts(i)["awareness"] = None <=> EntryParts(j)["awareness"] = None
      BY <1>2, <2>1, <2>3, <2>4
    <2>7. EntryParts(i)["awareness"] # None => EntryParts(j)["awareness"] <= EntryParts(i)["awareness"]
      BY <1>2, <2>1, <2>3, <2>4, <2>5
    <2> QED
      BY <1>5, <2>6, <2>7
  <1>6. CASE p = "stage"
    <2>1. EntryParts(i)["stage"] = EntryParts(j)["stage"] /\ EntryParts(i)["stage"] \in Int \cup {None}
      BY DEF EntryParts, Bleaker
    <2> QED
      BY <1>6, <2>1
  <1> QED
    BY <1>1, <1>3, <1>4, <1>5, <1>6

LEMMA EntryFalls ==
  ASSUME NEW i, NEW j, Bleaker(i, j) PROVE EarlyEntry(j) <= EarlyEntry(i)
  <1> DEFINE known == {p \in DOMAIN EntryParts(i) : EntryParts(i)[p] # None}
             n == Cardinality(known)
             s == SumFunctionOnSet(EntryParts(i), known)
             t == SumFunctionOnSet(EntryParts(j), known)
  <1>0. Sensible(i) /\ Sensible(j)
    BY DEF Bleaker
  <1>1. DOMAIN EntryParts(j) = DOMAIN EntryParts(i)
    BY <1>0, EntryPartsRange
  <1>2. known = {p \in DOMAIN EntryParts(j) : EntryParts(j)[p] # None}
    BY <1>1, EntryPartsFall
  <1>3. CASE known = {}
    <2>1. EarlyEntry(i) = 0
      BY <1>3 DEF EarlyEntry
    <2>2. EarlyEntry(j) = 0
      BY <1>2, <1>3 DEF EarlyEntry
    <2> QED
      BY <2>1, <2>2
  <1>4. CASE known # {}
    <2>1. /\ IsFiniteSet(known) /\ n \in Nat /\ n > 0 /\ EarlyEntry(i) = (15 * s) \div n
          /\ \A p \in known : EntryParts(i)[p] \in 0..100
      BY <1>0, <1>4, EntryMean
    <2>2. EarlyEntry(j) = (15 * t) \div n /\ \A p \in known : EntryParts(j)[p] \in 0..100
      <3> HIDE DEF known
      <3> QED
        BY <1>0, <1>2, <1>4, EntryMean
    <2>3. \A p \in known : EntryParts(j)[p] <= EntryParts(i)[p]
      BY EntryPartsFall
    <2> HIDE DEF known
    <2>4. t <= s
      BY <2>1, <2>2, <2>3, SumIsMonotone
    <2>5. s \in Int /\ t \in Int
      BY <2>1, <2>2, SumStep
    <2> HIDE DEF n, s, t
    <2>6. 15 * t \in Int /\ 15 * s \in Int /\ 15 * t <= 15 * s
      BY <2>4, <2>5
    <2> QED
      BY <2>1, <2>2, <2>6, Quotients
  <1> QED
    BY <1>3, <1>4

\* What depends on the facts and the trend alone.
LEMMA SameFacts ==
  ASSUME NEW i, NEW j, Bleaker(i, j)
  PROVE  /\ Adoption(j) = Adoption(i) /\ Attention(j) = Attention(i) /\ Solid(j) = Solid(i)
         /\ Groups(j) = Groups(i) /\ Reliability(j) = Reliability(i) /\ Freshest(j) = Freshest(i)
         /\ RealAdoption(j) = RealAdoption(i) /\ EvidenceDiversity(j) = EvidenceDiversity(i)
         /\ Timing(j) = Timing(i)
         /\ \A factor, floor : Hype(j, factor, floor) <=> Hype(i, factor, floor)
  <1>1. i.facts = j.facts /\ i.trend = j.trend
    BY DEF Bleaker
  <1>2. /\ Adoption(j) = Adoption(i) /\ Attention(j) = Attention(i) /\ Solid(j) = Solid(i)
        /\ Groups(j) = Groups(i) /\ Reliability(j) = Reliability(i) /\ Freshest(j) = Freshest(i)
    BY <1>1 DEF Adoption, Attention, Solid, Groups, Reliability, Freshest
  <1>3. RealAdoption(j) = RealAdoption(i)
    BY <1>2 DEF RealAdoption
  <1>4. EvidenceDiversity(j) = EvidenceDiversity(i)
    BY <1>2 DEF EvidenceDiversity
  <1>5. Timing(j) = Timing(i)
    BY <1>1 DEF Timing
  <1>6. \A factor, floor : Hype(j, factor, floor) <=> Hype(i, factor, floor)
    BY <1>2 DEF Hype
  <1> QED
    BY <1>2, <1>3, <1>4, <1>5, <1>6

LEMMA ComponentsFall ==
  ASSUME NEW i, NEW j, Bleaker(i, j)
  PROVE  Components(i) \in Int /\ Components(j) \in Int /\ Components(j) <= Components(i)
  <1>0. Sensible(i) /\ Sensible(j)
    BY DEF Bleaker
  <1>1. Components(i) \in Int /\ Components(j) \in Int
    BY <1>0, ComponentsRange
  <1> DEFINE a == RealAdoption(i)     a2 == RealAdoption(j)
             b == MarketPotential(i)  b2 == MarketPotential(j)
             c == EvidenceDiversity(i)  c2 == EvidenceDiversity(j)
             d == EarlyEntry(i)       d2 == EarlyEntry(j)
             e == Accessibility(i)    e2 == Accessibility(j)
             f == Defensibility(i)    f2 == Defensibility(j)
             g == Catalyst(i)         g2 == Catalyst(j)
             h == Timing(i)           h2 == Timing(j)
  <1>2. /\ a \in Int /\ b \in Int /\ c \in Int /\ d \in Int /\ e \in Int /\ f \in Int /\ g \in Int /\ h \in Int
    <2>1. a \in Nat
      BY <1>0, AdoptionRange
    <2>2. c \in 0..1500 /\ d \in 0..1500 /\ e \in 0..1000
      BY <1>0, DiversityRange, EntryRange, AccessibilityRange
    <2>3. b \in 0..1500 /\ f \in 0..1000 /\ g \in 0..1000 /\ h \in 0..500
      BY <1>0, ComponentsRange
    <2> HIDE DEF a, b, c, d, e, f, g, h
    <2> QED
      BY <2>1, <2>2, <2>3
  <1>3. /\ b2 \in Int /\ d2 \in Int /\ e2 \in Int /\ f2 \in Int /\ g2 \in Int
    <2>1. d2 \in 0..1500 /\ e2 \in 0..1000
      BY <1>0, EntryRange, AccessibilityRange
    <2>2. b2 \in 0..1500 /\ f2 \in 0..1000 /\ g2 \in 0..1000
      BY <1>0, ComponentsRange
    <2> HIDE DEF b2, d2, e2, f2, g2
    <2> QED
      BY <2>1, <2>2
  <1>4. /\ a2 = a /\ b2 <= b /\ c2 = c /\ d2 <= d /\ e2 <= e /\ f2 <= f /\ g2 <= g /\ h2 = h
    BY SameFacts, MarketFalls, EntryFalls, WayInNarrows, DefensibilityFalls, CatalystFalls
  <1>5. /\ Components(i) = a + b + c + d + e + f + g + h
        /\ Components(j) = a2 + b2 + c2 + d2 + e2 + f2 + g2 + h2
    BY DEF Components
  <1> HIDE DEF a, b, c, d, e, f, g, h, a2, b2, c2, d2, e2, f2, g2, h2
  <1>6. a2 + b2 + c2 + d2 + e2 + f2 + g2 + h2 <= a + b + c + d + e + f + g + h
    BY <1>2, <1>3, <1>4
  <1> QED
    BY <1>1, <1>5, <1>6

LEMMA PenaltiesGrow ==
  ASSUME NEW i, NEW j, Bleaker(i, j) PROVE Penalties(i) \subseteq Penalties(j)
  <1>1. i.market = "tiny" => j.market = "tiny"
    BY DEF Bleaker, NoBetterOn, Scales
  <1>2. i.competitors # None /\ i.competitors >= 15 => j.competitors # None /\ j.competitors >= 15
    BY DEF Bleaker, Sensible
  <1>3. i.markers = 0 => j.markers = 0
    BY DEF Bleaker, Sensible
  <1>4. i.type = j.type /\ i.trend = j.trend /\ i.flags \subseteq j.flags
    BY DEF Bleaker
  <1>5. OwnPenalties(i) \subseteq OwnPenalties(j)
    BY <1>1, <1>2, <1>3, <1>4, SameFacts DEF OwnPenalties
  <1> QED
    BY <1>4, <1>5 DEF Penalties

LEMMA ScoreFalls ==
  ASSUME NEW i, NEW j, Bleaker(i, j)
  PROVE  /\ ScoreOpportunity(i) \in Int /\ ScoreOpportunity(j) \in Int
         /\ ScoreOpportunity(j) <= ScoreOpportunity(i)
  <1> DEFINE s == SumFunctionOnSet(PenaltyPoints, Penalties(i))
             t == SumFunctionOnSet(PenaltyPoints, Penalties(j))
  <1>0. Sensible(i) /\ Sensible(j)
    BY DEF Bleaker
  <1>1. s <= t
    BY PenaltiesGrow, PenaltiesAreKnown, SumIsMonotone
  <1>2. /\ s \in Int
        /\ LET rest == Components(i) - 100 * (IF s <= 65 THEN s ELSE 65)
           IN  ScoreOpportunity(i) = (IF rest >= 0 THEN rest ELSE 0)
    BY <1>0, ScoreIsWhatIsLeft
  <1>3. /\ t \in Int
        /\ LET rest == Components(j) - 100 * (IF t <= 65 THEN t ELSE 65)
           IN  ScoreOpportunity(j) = (IF rest >= 0 THEN rest ELSE 0)
    BY <1>0, ScoreIsWhatIsLeft
  <1>4. Components(i) \in Int /\ Components(j) \in Int /\ Components(j) <= Components(i)
    BY ComponentsFall
  <1> HIDE DEF s, t
  <1> QED
    BY <1>1, <1>2, <1>3, <1>4

-----------------------------------------------------------------------------
(* The risk.                                                               *)

LEMMA RanksAreLevels == ASSUME NEW n \in 1..4 PROVE RankOf(Levels[n]) = n
  <1>1. DOMAIN Levels = 1..4 /\ \A m \in 1..4 : Levels[m] = Levels[n] => m = n
    BY DEF Levels
  <1> QED
    BY <1>1 DEF RankOf

LevelOf(risks) ==
    LET severe == {r \in risks : r.severity = "high" /\ r.confidence >= 50}
    IN  IF \E r \in risks : r.severity = "blocking" THEN 4
        ELSE IF Cardinality(severe) >= 3 THEN 4
        ELSE IF severe # {} THEN 3 ELSE IF \E r \in risks : r.severity = "medium" THEN 2 ELSE 1

LEMMA MoreRisksRankHigher ==
  ASSUME NEW R, NEW S, R \subseteq S, IsFiniteSet(S), NEW type, NEW minRisk, minRisk \in {None, "high"}
  PROVE  RankOf(AssessRisk(type, S, minRisk)) >= RankOf(AssessRisk(type, R, minRisk))
  <1> DEFINE few == {r \in R : r.severity = "high" /\ r.confidence >= 50}
             many == {r \in S : r.severity = "high" /\ r.confidence >= 50}
             floor == IF minRisk # None THEN minRisk ELSE IF type = "crypto" THEN CryptoMinRisk ELSE None
             rank(x) == IF floor = None THEN x ELSE Max({x, RankOf(floor)})
  <1>1. few \subseteq many /\ IsFiniteSet(many) /\ IsFiniteSet(few)
    BY FS_Subset
  <1>2. Cardinality(few) \in Nat /\ Cardinality(many) \in Nat /\ Cardinality(few) <= Cardinality(many)
    BY <1>1, FS_Subset, FS_CardinalityType
  <1>3. LevelOf(R) \in 1..4 /\ LevelOf(S) \in 1..4 /\ LevelOf(R) <= LevelOf(S)
    <2>1. /\ LevelOf(R) = (IF \E r \in R : r.severity = "blocking" THEN 4
                           ELSE IF Cardinality(few) >= 3 THEN 4 ELSE IF few # {} THEN 3
                           ELSE IF \E r \in R : r.severity = "medium" THEN 2 ELSE 1)
          /\ LevelOf(S) = (IF \E r \in S : r.severity = "blocking" THEN 4
                           ELSE IF Cardinality(many) >= 3 THEN 4 ELSE IF many # {} THEN 3
                           ELSE IF \E r \in S : r.severity = "medium" THEN 2 ELSE 1)
      BY DEF LevelOf
    <2>2. /\ (\E r \in R : r.severity = "blocking") => (\E r \in S : r.severity = "blocking")
          /\ (\E r \in R : r.severity = "medium") => (\E r \in S : r.severity = "medium")
          /\ few # {} => many # {}
      BY <1>1
    <2> HIDE DEF few, many
    <2> QED
      BY <1>2, <2>1, <2>2
  <1>4. /\ AssessRisk(type, R, minRisk) = Levels[rank(LevelOf(R))]
        /\ AssessRisk(type, S, minRisk) = Levels[rank(LevelOf(S))]
    BY DEF AssessRisk, LevelOf
  <1>5. floor # None => RankOf(floor) = 3
    <2>1. Levels[3] = "high"
      BY DEF Levels
    <2> QED
      BY <2>1, RanksAreLevels DEF CryptoMinRisk
  <1>6. ASSUME NEW x \in 1..4
        PROVE  rank(x) = (IF floor = None THEN x ELSE IF x >= 3 THEN x ELSE 3)
    <2> HIDE DEF floor
    <2> QED
      BY <1>5, MaxOfTwo
  <1> HIDE DEF floor, rank
  <1>7. /\ rank(LevelOf(R)) \in 1..4 /\ rank(LevelOf(S)) \in 1..4
        /\ rank(LevelOf(R)) <= rank(LevelOf(S))
    BY <1>3, <1>6
  <1> QED
    BY <1>4, <1>7, RanksAreLevels

LEMMA RisksGrow ==
  ASSUME NEW a, NEW b, Grimmer(a, b), NEW stage
  PROVE  /\ Risks(a.hints, a.flags, stage) \subseteq Risks(b.hints, b.flags, stage)
         /\ IsFiniteSet(Risks(b.hints, b.flags, stage))
  <1> DEFINE early == When(stage \in {"weak_signal", "emerging"},
                           [code |-> "unproven_technology", severity |-> "medium", confidence |-> 60])
             hinted(x) == {h.code : h \in x.hints}
             high(x) == {Hint(f, "high") : f \in (x.flags \cap HighRiskFlags) \ hinted(x)}
             medium(x) == {Hint(f, "medium") : f \in (x.flags \cap MediumRiskFlags) \ hinted(x)}
  <1>1. \A x : Risks(x.hints, x.flags, stage) = x.hints \cup high(x) \cup medium(x) \cup early
    BY DEF Risks
  <1>2. a.hints \subseteq b.hints /\ a.flags \subseteq b.flags
    BY DEF Grimmer
  <1>3. high(a) \subseteq b.hints \cup high(b)
    <2> SUFFICES ASSUME NEW f \in (a.flags \cap HighRiskFlags) \ hinted(a)
                 PROVE  Hint(f, "high") \in b.hints \cup high(b)
      OBVIOUS
    <2>1. f \in b.flags \cap HighRiskFlags
      BY <1>2
    <2>2. CASE f \notin hinted(b)
      BY <2>1, <2>2
    <2>3. CASE f \in hinted(b)
      <3>1. PICK h \in b.hints : f = h.code
        BY <2>3
      <3>2. h = Hint(h.code, "high")
        BY <2>1, <3>1 DEF Grimmer
      <3> QED
        BY <3>1, <3>2
    <2> QED
      BY <2>2, <2>3
  <1>4. medium(a) \subseteq medium(b)
    <2>1. \A f \in MediumRiskFlags : f \notin hinted(b)
      BY DEF Grimmer
    <2> QED
      BY <1>2, <2>1
  <1>5. IsFiniteSet(HighRiskFlags) /\ IsFiniteSet(MediumRiskFlags)
    <2>1. /\ IsFiniteSet({"attention_without_adoption", "weak_adoption_evidence", "extreme_valuation",
                          "extreme_competition"})
          /\ IsFiniteSet({"regulatory_uncertainty", "supply_chain_fragility", "single_supplier", "single_customer"})
          /\ IsFiniteSet({"poor_liquidity", "concentrated_ownership", "anonymous_team", "promotional_manipulation"})
          /\ IsFiniteSet({"poor_economics"})
          /\ IsFiniteSet({"single_source_dependence", "low_quality_evidence", "easily_copied", "excessive_capital"})
          /\ IsFiniteSet({"difficult_local_execution", "already_mainstream", "tiny_market", "tiny_market"})
      BY FewAreFinite, FS_Singleton
    <2>2. IsFiniteSet({"attention_without_adoption", "weak_adoption_evidence", "extreme_valuation",
                       "extreme_competition"}
              \cup {"regulatory_uncertainty", "supply_chain_fragility", "single_supplier", "single_customer"})
      BY <2>1, FS_Union
    <2>3. IsFiniteSet({"poor_liquidity", "concentrated_ownership", "anonymous_team", "promotional_manipulation"}
              \cup {"poor_economics"})
      BY <2>1, FS_Union
    <2>4. IsFiniteSet(({"attention_without_adoption", "weak_adoption_evidence", "extreme_valuation",
                        "extreme_competition"}
              \cup {"regulatory_uncertainty", "supply_chain_fragility", "single_supplier", "single_customer"})
              \cup ({"poor_liquidity", "concentrated_ownership", "anonymous_team", "promotional_manipulation"}
              \cup {"poor_economics"}))
      BY <2>2, <2>3, FS_Union
    <2>5. IsFiniteSet({"single_source_dependence", "low_quality_evidence", "easily_copied", "excessive_capital"}
              \cup {"difficult_local_execution", "already_mainstream", "tiny_market", "tiny_market"})
      BY <2>1, FS_Union
    <2>6. HighRiskFlags = ({"attention_without_adoption", "weak_adoption_evidence", "extreme_valuation",
                        "extreme_competition"}
              \cup {"regulatory_uncertainty", "supply_chain_fragility", "single_supplier", "single_customer"})
              \cup ({"poor_liquidity", "concentrated_ownership", "anonymous_team", "promotional_manipulation"}
              \cup {"poor_economics"})
      BY DEF HighRiskFlags
    <2>7. MediumRiskFlags = {"single_source_dependence", "low_quality_evidence", "easily_copied", "excessive_capital"}
              \cup {"difficult_local_execution", "already_mainstream", "tiny_market", "tiny_market"}
      BY DEF MediumRiskFlags
    <2> QED
      BY <2>4, <2>5, <2>6, <2>7
  <1>6. ASSUME NEW F, IsFiniteSet(F), NEW severity PROVE IsFiniteSet({Hint(f, severity) : f \in F})
    <2> DEFINE g == [f \in F |-> Hint(f, severity)]
    <2>1. {Hint(f, severity) : f \in F} = {g[f] : f \in F}
      OBVIOUS
    <2> HIDE DEF g
    <2> QED
      BY <1>6, <2>1, ImageIsFinite
  <1>7. IsFiniteSet(high(b)) /\ IsFiniteSet(medium(b))
    <2>1. /\ IsFiniteSet((b.flags \cap HighRiskFlags) \ hinted(b))
          /\ IsFiniteSet((b.flags \cap MediumRiskFlags) \ hinted(b))
      BY <1>5, FS_Subset
    <2> QED
      BY <1>6, <2>1
  <1>8. IsFiniteSet(b.hints)
    BY DEF Grimmer
  <1>9. IsFiniteSet(early)
    BY WhenIsFinite
  <1> HIDE DEF high, medium, hinted, early
  <1>10. Risks(a.hints, a.flags, stage) \subseteq Risks(b.hints, b.flags, stage)
    BY <1>1, <1>2, <1>3, <1>4
  <1>11. IsFiniteSet(b.hints \cup high(b) \cup medium(b) \cup early)
    BY <1>7, <1>8, <1>9, FS_Union
  <1> QED
    BY <1>1, <1>10, <1>11

-----------------------------------------------------------------------------
(* The confidence.                                                         *)

LEMMA GreatestNumber ==
  ASSUME NEW b \in Nat, NEW S \in SUBSET (0..b), S # {}
  PROVE  Max(S) \in S /\ \A n \in S : n <= Max(S)
  <1> DEFINE T == {b - n : n \in S}
  <1>1. T \in SUBSET Nat /\ T # {}
    <2>1. \A n \in S : b - n \in Nat
      OBVIOUS
    <2> QED
      BY <2>1
  <1>2. PICK m \in T : \A n \in T : m <= n
    BY <1>1, LeastNumber
  <1>3. PICK k \in S : m = b - k
    BY <1>2
  <1>4. \A n \in S : k >= n
    <2> SUFFICES ASSUME NEW n \in S PROVE k >= n
      OBVIOUS
    <2>1. m <= b - n
      BY <1>2
    <2> QED
      BY <1>3, <2>1
  <1>5. \E k2 \in S : \A n \in S : k2 >= n
    BY <1>4
  <1>6. Max(S) \in S /\ \A n \in S : Max(S) >= n
    BY <1>5 DEF Max
  <1> QED
    BY <1>6

\* Who is paid to talk, or talks under no name, is suspected.
LEMMA SuspicionGrows ==
  ASSUME NEW i, NEW j, Bleaker(i, j), Manipulation(i, 0) >= 50
  PROVE  Manipulation(j, 0) >= 50
  <1> DEFINE S(inp) == {0}
                \cup When(Adoption(inp) # {} /\ Hype(inp, 25, 30), 30)
                \cup When(0 >= 40, 40)
                \cup When("promotional_manipulation" \in inp.flags, 60)
                \cup When("anonymous_team" \in inp.flags, 50)
  <1>1. Manipulation(i, 0) = Max(S(i)) /\ Manipulation(j, 0) = Max(S(j))
    BY DEF Manipulation
  <1>2. S(i) \in SUBSET (0..60) /\ S(i) # {} /\ S(j) \in SUBSET (0..60) /\ S(j) # {}
    BY DEF When
  <1>3. S(i) \subseteq S(j)
    <2>1. "promotional_manipulation" \in i.flags => "promotional_manipulation" \in j.flags
      BY DEF Bleaker
    <2>2. "anonymous_team" \in i.flags => "anonymous_team" \in j.flags
      BY DEF Bleaker
    <2>3. Adoption(i) # {} /\ Hype(i, 25, 30) => Adoption(j) # {} /\ Hype(j, 25, 30)
      BY SameFacts
    <2> QED
      BY <2>1, <2>2, <2>3 DEF When
  <1> HIDE DEF S
  <1>4. Max(S(i)) \in S(i)
    BY <1>2, GreatestNumber
  <1>5. Max(S(i)) <= Max(S(j))
    BY <1>2, <1>3, <1>4, GreatestNumber
  <1>6. Max(S(i)) \in Int /\ Max(S(j)) \in Int
    BY <1>2, GreatestNumber
  <1> QED
    BY <1>1, <1>5, <1>6

Points(p, n) == IF p THEN n ELSE 0

LEMMA PointsGrow ==
  ASSUME NEW p, NEW q, NEW n \in Nat, p => q
  PROVE  Points(p, n) \in Nat /\ Points(q, n) \in Nat /\ Points(p, n) <= Points(q, n)
  BY DEF Points

LEMMA ReductionGrows ==
  ASSUME NEW i, NEW j, Bleaker(i, j), NEW a, NEW b, Grimmer(a, b)
  PROVE  /\ Reduction(i, a, 0) \in Int /\ Reduction(j, b, 0) \in Int
         /\ Reduction(i, a, 0) <= Reduction(j, b, 0)
  <1> DEFINE
        p1(inp) == Points(Adoption(inp) = {}, 15)
        p2(inp) == Points(~(Adoption(inp) = {}) /\ Hype(inp, 25, 30), 10)
        p3(inp) == Points(Cardinality(Groups(inp)) < 2, 12)
        p4 == Points(0 >= 40, 8)
        p5(inp) == Points(Reliability(inp) < 55, 8)
        p6(inp) == Points(inp.trend.stage \in LateStages, 8)
        p7(inp) == Points(inp.competitors # None /\ inp.competitors >= 15, 6)
        p8(x) == (IF x.valuation = "extreme" THEN 10 ELSE 0) + (IF x.valuation = "NOT ASSESSED" THEN 8 ELSE 0)
        p9(x) == Points(~x.paying, 10)
        p10(inp) == Points(inp.market \in {None, "tiny"}, 6)
        p11(inp) == Points(inp.trend.history < 120, 8)
        p12(inp) == Points(inp.markers = 0, 6)
        p13(inp) == Points("regulatory_uncertainty" \in inp.flags, 6)
        p14(inp) == Points(Manipulation(inp, 0) >= 50, 12)
  <1> DEFINE
        same(inp) == p1(inp) + p2(inp) + p3(inp) + p4 + p5(inp) + p6(inp) + p11(inp)
        rest(inp, x) == p7(inp) + p8(x) + p9(x) + p10(inp) + p12(inp) + p13(inp) + p14(inp)
  <1>1. same(i) = same(j)
    <2>1. i.trend = j.trend
      BY DEF Bleaker
    <2>2. p1(i) = p1(j) /\ p3(i) = p3(j) /\ p5(i) = p5(j) /\ p6(i) = p6(j) /\ p11(i) = p11(j)
      BY <2>1, SameFacts
    <2>3. p2(i) = p2(j)
      BY SameFacts DEF Points
    <2> QED
      BY <2>2, <2>3
  <1>2. same(i) \in Nat
    <2>1. /\ p1(i) \in Nat /\ p2(i) \in Nat /\ p3(i) \in Nat /\ p4 \in Nat /\ p5(i) \in Nat /\ p6(i) \in Nat
          /\ p11(i) \in Nat
      BY DEF Points
    <2> HIDE DEF p1, p2, p3, p4, p5, p6, p11
    <2> QED
      BY <2>1
  <1>3. p7(i) \in Nat /\ p7(j) \in Nat /\ p7(i) <= p7(j)
    <2>1. i.competitors # None /\ i.competitors >= 15 => j.competitors # None /\ j.competitors >= 15
      BY DEF Bleaker, Sensible
    <2> QED
      BY <2>1 DEF Points
  <1>4. p8(a) \in Nat /\ p8(b) \in Nat /\ p8(a) <= p8(b)
    <2> DEFINE unassessed == "NOT ASSESSED"
    <2>1. unassessed # "extreme"
      OBVIOUS
    <2>2. a.valuation = b.valuation \/ b.valuation = "extreme"
      BY DEF Grimmer
    <2>3. /\ p8(a) = (IF a.valuation = "extreme" THEN 10 ELSE 0) + (IF a.valuation = unassessed THEN 8 ELSE 0)
          /\ p8(b) = (IF b.valuation = "extreme" THEN 10 ELSE 0) + (IF b.valuation = unassessed THEN 8 ELSE 0)
      BY Zenon
    <2> HIDE DEF unassessed, p8
    <2> QED
      BY <2>1, <2>2, <2>3
  <1>5. p9(a) \in Nat /\ p9(b) \in Nat /\ p9(a) <= p9(b)
    BY DEF Points, Grimmer
  <1>6. p10(i) \in Nat /\ p10(j) \in Nat /\ p10(i) <= p10(j)
    <2>1. i.market \in {None, "tiny"} => j.market \in {None, "tiny"}
      BY DEF Bleaker, NoBetterOn, Scales
    <2> QED
      BY <2>1 DEF Points
  <1>7. p12(i) \in Nat /\ p12(j) \in Nat /\ p12(i) <= p12(j)
    <2>1. i.markers = 0 => j.markers = 0
      BY DEF Bleaker, Sensible
    <2> QED
      BY <2>1 DEF Points
  <1>8. p13(i) \in Nat /\ p13(j) \in Nat /\ p13(i) <= p13(j)
    <2>1. "regulatory_uncertainty" \in i.flags => "regulatory_uncertainty" \in j.flags
      BY DEF Bleaker
    <2> QED
      BY <2>1 DEF Points
  <1>9. p14(i) \in Nat /\ p14(j) \in Nat /\ p14(i) <= p14(j)
    BY SuspicionGrows DEF Points
  <1>10. rest(i, a) \in Nat /\ rest(j, b) \in Nat /\ rest(i, a) <= rest(j, b)
    <2> DEFINE a7 == p7(i)  a8 == p8(a)  a9 == p9(a)  a10 == p10(i)  a12 == p12(i)  a13 == p13(i)  a14 == p14(i)
               b7 == p7(j)  b8 == p8(b)  b9 == p9(b)  b10 == p10(j)  b12 == p12(j)  b13 == p13(j)  b14 == p14(j)
               x == rest(i, a)  y == rest(j, b)
    <2>1. /\ a7 \in Nat /\ b7 \in Nat /\ a7 <= b7
          /\ a8 \in Nat /\ b8 \in Nat /\ a8 <= b8
          /\ a9 \in Nat /\ b9 \in Nat /\ a9 <= b9
          /\ a10 \in Nat /\ b10 \in Nat /\ a10 <= b10
          /\ a12 \in Nat /\ b12 \in Nat /\ a12 <= b12
          /\ a13 \in Nat /\ b13 \in Nat /\ a13 <= b13
          /\ a14 \in Nat /\ b14 \in Nat /\ a14 <= b14
      BY <1>3, <1>4, <1>5, <1>6, <1>7, <1>8, <1>9
    <2>2. x = a7 + a8 + a9 + a10 + a12 + a13 + a14 /\ y = b7 + b8 + b9 + b10 + b12 + b13 + b14
      OBVIOUS
    <2> HIDE DEF a7, a8, a9, a10, a12, a13, a14, b7, b8, b9, b10, b12, b13, b14, x, y
    <2>3. x \in Nat /\ y \in Nat /\ x <= y
      BY <2>1, <2>2
    <2> QED
      BY <2>3 DEF x, y
  <1>11. ASSUME NEW inp, NEW x PROVE Reduction(inp, x, 0) = Min({60, same(inp) + rest(inp, x)})
    <2> DEFINE a1 == p1(inp)  a2 == p2(inp)  a3 == p3(inp)  a5 == p5(inp)  a6 == p6(inp)  a7 == p7(inp)
               a81 == IF x.valuation = "extreme" THEN 10 ELSE 0
               a82 == IF x.valuation = "NOT ASSESSED" THEN 8 ELSE 0
               a9 == p9(x)  a10 == p10(inp)  a11 == p11(inp)  a12 == p12(inp)  a13 == p13(inp)  a14 == p14(inp)
               s == same(inp)  r == rest(inp, x)
    <2>1. Reduction(inp, x, 0) = Min({60,
             a1 + a2 + a3 + p4 + a5 + a6 + a7 + a81 + a82 + a9 + a10 + a11 + a12 + a13 + a14})
      BY DEF Reduction, Points
    <2>2. /\ a1 \in Nat /\ a2 \in Nat /\ a3 \in Nat /\ p4 \in Nat /\ a5 \in Nat /\ a6 \in Nat /\ a7 \in Nat
          /\ a81 \in Nat /\ a82 \in Nat /\ a9 \in Nat /\ a10 \in Nat /\ a11 \in Nat /\ a12 \in Nat
          /\ a13 \in Nat /\ a14 \in Nat
      BY DEF Points
    <2>3. s = a1 + a2 + a3 + p4 + a5 + a6 + a11 /\ r = a7 + (a81 + a82) + a9 + a10 + a12 + a13 + a14
      OBVIOUS
    <2> HIDE DEF a1, a2, a3, a5, a6, a7, a81, a82, a9, a10, a11, a12, a13, a14, p4, s, r
    <2>4. a1 + a2 + a3 + p4 + a5 + a6 + a7 + a81 + a82 + a9 + a10 + a11 + a12 + a13 + a14 = s + r
      BY <2>2, <2>3
    <2>5. Reduction(inp, x, 0) = Min({60, s + r})
      BY <2>1, <2>4
    <2> QED
      BY <2>5 DEF s, r
  <1> HIDE DEF same, rest
  <1> DEFINE u == same(i)  v == same(j)  x == rest(i, a)  y == rest(j, b)
  <1>12. u = v /\ u \in Nat /\ x \in Nat /\ y \in Nat /\ x <= y
    BY <1>1, <1>2, <1>10
  <1>13. Reduction(i, a, 0) = Min({60, u + x}) /\ Reduction(j, b, 0) = Min({60, v + y})
    BY <1>11
  <1> HIDE DEF u, v, x, y
  <1> QED
    BY <1>12, <1>13, MinOfTwo

LEMMA FreshnessIsNumber ==
  ASSUME NEW inp, Sensible(inp) PROVE FreshnessCurve[Freshest(inp)] \in Int
  <1> DEFINE ages == {f.age : f \in inp.facts}
  <1>1. DOMAIN FreshnessCurve = {0, 30, 100, 130}
    BY DEF FreshnessCurve
  <1>2. ages \in SUBSET Nat /\ ages # {} /\ ages \subseteq DOMAIN FreshnessCurve
    BY <1>1 DEF Sensible, IsFact
  <1>3. Freshest(inp) = Min(ages)
    BY DEF Freshest
  <1> HIDE DEF ages
  <1>4. \E n \in ages : \A m \in ages : n <= m
    BY <1>2, LeastNumber
  <1>5. Min(ages) \in DOMAIN FreshnessCurve
    BY <1>2, <1>4 DEF Min
  <1>6. \A age \in DOMAIN FreshnessCurve : FreshnessCurve[age] \in Int
    BY <1>1 DEF FreshnessCurve
  <1> QED
    BY <1>3, <1>5, <1>6

LEMMA RequirementsAreCounted ==
  ASSUME NEW type \in DOMAIN RequiredEvidence
  PROVE  /\ IsFiniteSet(RequiredEvidence[type])
         /\ Cardinality(RequiredEvidence[type]) \in Nat /\ Cardinality(RequiredEvidence[type]) > 0
  <1>1. DOMAIN RequiredEvidence = {"business", "import_distribution", "public_investment", "crypto"}
    BY DEF RequiredEvidence
  <1>2. IsFiniteSet(RequiredEvidence[type]) /\ RequiredEvidence[type] # {}
    <2>1. CASE type = "business"
      <3>1. RequiredEvidence[type] = {"adoption", "demand_pain", "competition", "willingness_to_pay"}
        BY <2>1 DEF RequiredEvidence
      <3>2. IsFiniteSet({"adoption", "demand_pain", "competition", "willingness_to_pay"})
        BY FewAreFinite
      <3> QED
        BY <3>1, <3>2
    <2>2. CASE type = "import_distribution"
      <3>1. RequiredEvidence[type] = {"trade", "local_availability", "supplier", "shipping_economics"} \cup {"price"}
        BY <2>2 DEF RequiredEvidence
      <3>2. IsFiniteSet({"trade", "local_availability", "supplier", "shipping_economics"})
        BY FewAreFinite
      <3>3. IsFiniteSet({"trade", "local_availability", "supplier", "shipping_economics"} \cup {"price"})
        BY <3>2, FS_AddElement
      <3> QED
        BY <3>1, <3>3
    <2>3. CASE type = "public_investment"
      <3>1. RequiredEvidence[type] = {"financial", "revenue_growth", "valuation", "competitive_position"}
        BY <2>3 DEF RequiredEvidence
      <3>2. IsFiniteSet({"financial", "revenue_growth", "valuation", "competitive_position"})
        BY FewAreFinite
      <3> QED
        BY <3>1, <3>2
    <2>4. CASE type = "crypto"
      <3>1. RequiredEvidence[type] = ({"adoption", "developer", "liquidity", "token_distribution"}
                                      \cup {"audit"}) \cup {"team"}
        BY <2>4 DEF RequiredEvidence
      <3>2. IsFiniteSet({"adoption", "developer", "liquidity", "token_distribution"})
        BY FewAreFinite
      <3>3. IsFiniteSet(({"adoption", "developer", "liquidity", "token_distribution"} \cup {"audit"}) \cup {"team"})
        BY <3>2, FS_AddElement
      <3> QED
        BY <3>1, <3>3
    <2> QED
      BY <1>1, <2>1, <2>2, <2>3, <2>4
  <1> QED
    BY <1>2, Counts

\* How far the growing facts agree, and the points that do not depend on the context.
Agreement(facts) ==
    LET growing == {f \in facts : f.g30 # None}
        n == Cardinality(growing)
        up == Cardinality({f \in growing : f.g30 > 0})
    IN  IF n < 2 THEN 0 ELSE (1500 * Max({2 * up - n, n - 2 * up})) \div n

Standing(inp) ==
      (2000 * Min({inp.trend.obs, 120})) \div 120
    + 20 * Reliability(inp)
    + (2000 * Min({Cardinality(Groups(inp)) - 1, 3})) \div 3
    + FreshnessCurve[Freshest(inp)]
    + Agreement(inp.facts)

LEMMA StandingIsNumber ==
  ASSUME NEW inp, Sensible(inp) PROVE Standing(inp) \in Int
  <1> DEFINE growing == {f \in inp.facts : f.g30 # None}
             n == Cardinality(growing)
             up == Cardinality({f \in growing : f.g30 > 0})
             a == (2000 * Min({inp.trend.obs, 120})) \div 120
             b == Reliability(inp)
             c == (2000 * Min({Cardinality(Groups(inp)) - 1, 3})) \div 3
             d == FreshnessCurve[Freshest(inp)]
             e == Agreement(inp.facts)
  <1>1. n \in Nat /\ up \in Nat
    <2>1. IsFiniteSet(growing)
      BY FS_Subset DEF Sensible
    <2>2. IsFiniteSet({g \in growing : g.g30 > 0})
      BY <2>1, FS_Subset
    <2> HIDE DEF growing
    <2> QED
      BY <2>1, <2>2, Counts
  <1>2. a \in Int
    <2>1. inp.trend.obs \in Int
      BY DEF Sensible, IsTrend
    <2>2. Min({inp.trend.obs, 120}) = (IF inp.trend.obs <= 120 THEN inp.trend.obs ELSE 120)
      BY <2>1, MinOfTwo
    <2> QED
      BY <2>1, <2>2
  <1>3. b \in Int
    BY ReliabilityRange
  <1>4. c \in Int
    <2>1. Cardinality(Groups(inp)) - 1 \in Int
      BY GroupsAreCounted
    <2>2. Min({Cardinality(Groups(inp)) - 1, 3}) \in Int
      BY <2>1, MinOfTwo
    <2> QED
      BY <2>2
  <1>5. d \in Int
    BY FreshnessIsNumber
  <1>6. e \in Int
    <2>3. e = (IF n < 2 THEN 0 ELSE (1500 * Max({2 * up - n, n - 2 * up})) \div n)
      BY DEF Agreement
    <2> HIDE DEF n, up, e
    <2>1. 2 * up - n \in Int /\ n - 2 * up \in Int
      BY <1>1
    <2>2. Max({2 * up - n, n - 2 * up}) \in Int
      BY <2>1, MaxOfTwo
    <2> QED
      BY <1>1, <2>2, <2>3
  <1>7. Standing(inp) = a + 20 * b + c + d + e
    BY DEF Standing
  <1> HIDE DEF a, b, c, d, e
  <1> QED
    BY <1>2, <1>3, <1>4, <1>5, <1>6, <1>7

LEMMA ConfidenceFalls ==
  ASSUME NEW i, NEW j, Bleaker(i, j)
  PROVE  /\ ScoreConfidence(i) \in Int /\ ScoreConfidence(j) \in Int
         /\ ScoreConfidence(j) <= ScoreConfidence(i)
  <1> DEFINE n == Cardinality(RequiredEvidence[i.type])
             old(inp) == IF Freshest(inp) > 90 THEN 1500 ELSE 0
             lost(inp) == (2000 * Cardinality(Missing(inp))) \div Cardinality(RequiredEvidence[inp.type])
             guessed(inp) == 100 * Min({15, 3 * inp.assumptions})
             bonus(inp) == IF inp.commercial THEN 1000 ELSE 0
             parts(inp) == Standing(inp) + (bonus(inp) - lost(inp) - guessed(inp) - old(inp))
  <1>1. /\ Sensible(i) /\ Sensible(j) /\ i.type = j.type /\ i.trend = j.trend /\ i.facts = j.facts
        /\ i.commercial = j.commercial /\ i.assumptions = j.assumptions /\ i.assumptions \in Nat
        /\ j.kinds \subseteq i.kinds
    BY DEF Bleaker
  <1>2. IsFiniteSet(RequiredEvidence[i.type]) /\ n \in Nat /\ n > 0
    BY <1>1, RequirementsAreCounted DEF Sensible
  <1>3. /\ IsFiniteSet(Missing(i)) /\ IsFiniteSet(Missing(j)) /\ Missing(i) \subseteq Missing(j)
    BY <1>1, <1>2, FS_Subset DEF Missing
  <1>4. /\ Cardinality(Missing(i)) \in Nat /\ Cardinality(Missing(j)) \in Nat
        /\ Cardinality(Missing(i)) <= Cardinality(Missing(j))
    BY <1>3, FS_Subset, FS_CardinalityType
  <1>5. lost(i) \in Int /\ lost(j) \in Int /\ lost(i) <= lost(j)
    <2>2. /\ lost(i) = (2000 * Cardinality(Missing(i))) \div n
          /\ lost(j) = (2000 * Cardinality(Missing(j))) \div n
      BY <1>1
    <2> HIDE DEF n, lost
    <2>1. /\ 2000 * Cardinality(Missing(i)) \in Int /\ 2000 * Cardinality(Missing(j)) \in Int
          /\ 2000 * Cardinality(Missing(i)) <= 2000 * Cardinality(Missing(j))
      BY <1>4
    <2> QED
      BY <1>2, <2>1, <2>2, Quotients
  <1>6. Standing(i) = Standing(j)
    BY <1>1, SameFacts DEF Standing
  <1>7. Standing(i) \in Int
    BY <1>1, StandingIsNumber
  <1>8. guessed(i) = guessed(j) /\ guessed(i) \in Int
    <2>1. 3 * i.assumptions \in Int
      BY <1>1
    <2>2. Min({15, 3 * i.assumptions}) \in Int
      BY <2>1, MinOfTwo
    <2> QED
      BY <1>1, <2>2
  <1>9. old(i) = old(j) /\ old(i) \in Int /\ bonus(i) = bonus(j) /\ bonus(i) \in Int
    BY <1>1, SameFacts
  <1>10. /\ ScoreConfidence(i) = Max({0, Min({10000, parts(i)})})
         /\ ScoreConfidence(j) = Max({0, Min({10000, parts(j)})})
    BY DEF ScoreConfidence, Standing, Agreement
  <1> DEFINE a == Standing(i)  l == lost(i)  m == lost(j)  g == guessed(i)  o == old(i)  b == bonus(i)
             x == parts(i)     y == parts(j)
  <1>11. x = a + (b - l - g - o) /\ y = a + (b - m - g - o)
    BY <1>6, <1>8, <1>9
  <1>12. a \in Int /\ l \in Int /\ m \in Int /\ l <= m /\ g \in Int /\ o \in Int /\ b \in Int
    BY <1>5, <1>7, <1>8, <1>9
  <1>13. ScoreConfidence(i) = Max({0, Min({10000, x})}) /\ ScoreConfidence(j) = Max({0, Min({10000, y})})
    BY <1>10
  <1> HIDE DEF a, l, m, g, o, b, x, y
  <1>14. x \in Int /\ y \in Int /\ y <= x
    BY <1>11, <1>12
  <1>15. /\ Min({10000, x}) = (IF 10000 <= x THEN 10000 ELSE x)
         /\ Min({10000, y}) = (IF 10000 <= y THEN 10000 ELSE y)
    BY <1>14, MinOfTwo
  <1> DEFINE v == Min({10000, x})  w == Min({10000, y})
  <1>16. v \in Int /\ w \in Int /\ w <= v
    BY <1>14, <1>15
  <1>17. ScoreConfidence(i) = Max({0, v}) /\ ScoreConfidence(j) = Max({0, w})
    BY <1>13
  <1> HIDE DEF v, w
  <1>18. ScoreConfidence(i) = (IF 0 >= v THEN 0 ELSE v) /\ ScoreConfidence(j) = (IF 0 >= w THEN 0 ELSE w)
    BY <1>16, <1>17, MaxOfTwo
  <1> QED
    BY <1>16, <1>18

-----------------------------------------------------------------------------
(* The verdict.                                                            *)

LEMMA HalfKnown ==
  ASSUME NEW k \in Nat, NEW n \in Nat, n > 0
  PROVE  (100 * k) \div n >= 50 <=> 100 * k >= 50 * n
  <1>1. (50 * n) \div n = 50
    OBVIOUS
  <1>2. 100 * k >= 50 * n => (100 * k) \div n >= 50
    <2>1. 50 * n \in Int /\ 100 * k \in Int
      OBVIOUS
    <2> QED
      BY <1>1, <2>1, Quotients
  <1>3. (100 * k) \div n >= 50 => 100 * k >= 50 * n
    <2> DEFINE q == (100 * k) \div n
    <2>1. q \in Int /\ n * q <= 100 * k
      OBVIOUS
    <2> HIDE DEF q
    <2>2. q >= 50 => n * q >= n * 50
      BY <2>1
    <2> QED
      BY <2>1, <2>2 DEF q
  <1> QED
    BY <1>2, <1>3

LEMMA KnownLess ==
  ASSUME NEW i, NEW j, Bleaker(i, j), NEW a, NEW b, Grimmer(a, b),
         Completeness(j, b) >= 50
  PROVE  Completeness(i, a) >= 50
  <1> DEFINE k == Cardinality(i.kinds)   m == a.missing
             l == Cardinality(j.kinds)   n == b.missing
  <1>1. k \in Nat /\ l \in Nat /\ l <= k
    <2>1. IsFiniteSet(i.kinds) /\ j.kinds \subseteq i.kinds
      BY DEF Bleaker
    <2>2. IsFiniteSet(j.kinds) /\ Cardinality(j.kinds) <= Cardinality(i.kinds)
      BY <2>1, FS_Subset
    <2> QED
      BY <2>1, <2>2, Counts
  <1>2. m \in Nat /\ n \in Nat /\ m <= n
    BY DEF Grimmer
  <1>3. /\ Completeness(i, a) = (100 * k) \div Max({1, k + m})
        /\ Completeness(j, b) = (100 * l) \div Max({1, l + n})
    BY DEF Completeness
  <1> HIDE DEF k, l, m, n
  <1>4. /\ k + m \in Int /\ l + n \in Int
        /\ Max({1, k + m}) = (IF 1 >= k + m THEN 1 ELSE k + m)
        /\ Max({1, l + n}) = (IF 1 >= l + n THEN 1 ELSE l + n)
    BY <1>1, <1>2, MaxOfTwo
  <1> DEFINE p == Max({1, k + m})   q == Max({1, l + n})
  <1>5. p \in Nat /\ p > 0 /\ q \in Nat /\ q > 0
    BY <1>1, <1>2, <1>4
  <1>6. p = (IF 1 >= k + m THEN 1 ELSE k + m) /\ q = (IF 1 >= l + n THEN 1 ELSE l + n)
    BY <1>4
  <1>7. Completeness(i, a) = (100 * k) \div p /\ Completeness(j, b) = (100 * l) \div q
    BY <1>3
  <1> HIDE DEF p, q
  <1>8. 100 * l >= 50 * q
    BY <1>1, <1>5, <1>7, HalfKnown
  <1>9. 100 * k >= 50 * p
    BY <1>1, <1>2, <1>6, <1>8
  <1> QED
    BY <1>1, <1>5, <1>7, <1>9, HalfKnown

LEMMA GateIsDeaf ==
  ASSUME NEW type, NEW trend, NEW facts, NEW e, NEW d
  PROVE  CheckGate(InputOf(type, trend, facts, e)) <=> CheckGate(InputOf(type, trend, facts, d))
  <1> DEFINE i == InputOf(type, trend, facts, e)
             j == InputOf(type, trend, facts, d)
  <1>1. /\ i.trend = trend /\ i.facts = facts /\ i.flags = {} /\ j.trend = trend /\ j.facts = facts /\ j.flags = {}
    BY DEF InputOf
  <1> HIDE DEF i, j
  <1>2. CheckGate(i) <=> CheckGate(j)
    BY <1>1 DEF CheckGate, Groups, Solid
  <1> QED
    BY <1>2 DEF i, j

\* The two verdicts on a candidate of which worse is said.
LEMMA WorseIsNotBetter ==
  ASSUME NEW c, IsCandidate(c), NEW e, NEW d, NotBetter(e, d), NEW v, NEW w,
         v = Verdict(Told(c, e)), w = Verdict(Told(c, d))
  PROVE  /\ w.score <= v.score /\ w.confidence <= v.confidence
         /\ RankOf(w.risk) >= RankOf(v.risk)
         /\ Stored(w) => Stored(v)
  <1> DEFINE i == Judged(Told(c, e))
             j == Judged(Told(c, d))
             a == Analyzed(Told(c, e))
             b == Analyzed(Told(c, d))
  <1>1. Bleaker(i, j) /\ Grimmer(a, b)
    BY JudgedIsBleaker
  <1>2. /\ Told(c, e).type = c.type /\ Told(c, e).trend = c.trend /\ Told(c, e).facts = c.facts
        /\ Told(c, e).ctx = e
        /\ Told(c, d).type = c.type /\ Told(c, d).trend = c.trend /\ Told(c, d).facts = c.facts
        /\ Told(c, d).ctx = d
    BY ToldCandidate DEF NotBetter
  <1>3. /\ v.passed = CheckGate(InputOf(c.type, c.trend, c.facts, e))
        /\ v.score = ScoreOpportunity(i) /\ v.closed = AccessibilityVerdict(i)
        /\ v.risk = AssessRisk(c.type, Risks(a.hints, i.flags, c.trend.stage), a.minRisk)
        /\ v.confidence = Max({0, ScoreConfidence(i) - 100 * Reduction(i, a, 0)})
        /\ v.informed = InformedNegative(c.trend, Completeness(i, a))
    BY <1>2, VerdictOfJudged
  <1>4. /\ w.passed = CheckGate(InputOf(c.type, c.trend, c.facts, d))
        /\ w.score = ScoreOpportunity(j) /\ w.closed = AccessibilityVerdict(j)
        /\ w.risk = AssessRisk(c.type, Risks(b.hints, j.flags, c.trend.stage), b.minRisk)
        /\ w.confidence = Max({0, ScoreConfidence(j) - 100 * Reduction(j, b, 0)})
        /\ w.informed = InformedNegative(c.trend, Completeness(j, b))
    BY <1>2, VerdictOfJudged
  <1>5. i.flags = a.flags /\ j.flags = b.flags
    BY FieldsOfJudged
  <1> HIDE DEF i, j, a, b
  <1>6. v.score \in Int /\ w.score \in Int /\ w.score <= v.score
    BY <1>1, <1>3, <1>4, ScoreFalls
  <1>7. v.confidence \in Int /\ w.confidence \in Int /\ w.confidence <= v.confidence
    <2> DEFINE x == ScoreConfidence(i) - 100 * Reduction(i, a, 0)
               y == ScoreConfidence(j) - 100 * Reduction(j, b, 0)
    <2>1. /\ ScoreConfidence(i) \in Int /\ ScoreConfidence(j) \in Int
          /\ ScoreConfidence(j) <= ScoreConfidence(i)
      BY <1>1, ConfidenceFalls
    <2>2. /\ Reduction(i, a, 0) \in Int /\ Reduction(j, b, 0) \in Int
          /\ Reduction(i, a, 0) <= Reduction(j, b, 0)
      BY <1>1, ReductionGrows
    <2>3. x \in Int /\ y \in Int /\ y <= x
      BY <2>1, <2>2
    <2>4. v.confidence = Max({0, x}) /\ w.confidence = Max({0, y})
      BY <1>3, <1>4
    <2> HIDE DEF x, y
    <2>5. v.confidence = (IF 0 >= x THEN 0 ELSE x) /\ w.confidence = (IF 0 >= y THEN 0 ELSE y)
      BY <2>3, <2>4, MaxOfTwo
    <2> QED
      BY <2>3, <2>5
  <1>8. RankOf(w.risk) >= RankOf(v.risk)
    <2>1. /\ Risks(a.hints, a.flags, c.trend.stage) \subseteq Risks(b.hints, b.flags, c.trend.stage)
          /\ IsFiniteSet(Risks(b.hints, b.flags, c.trend.stage))
      BY <1>1, RisksGrow
    <2>2. a.minRisk = b.minRisk /\ a.minRisk \in {None, "high"}
      BY <1>1 DEF Grimmer
    <2>3. /\ v.risk = AssessRisk(c.type, Risks(a.hints, a.flags, c.trend.stage), a.minRisk)
          /\ w.risk = AssessRisk(c.type, Risks(b.hints, b.flags, c.trend.stage), a.minRisk)
      BY <1>3, <1>4, <1>5, <2>2
    <2> QED
      BY <2>1, <2>2, <2>3, MoreRisksRankHigher
  <1>9. w.passed => v.passed
    BY <1>3, <1>4, GateIsDeaf
  <1>10. v.closed => w.closed
    BY <1>1, <1>3, <1>4, WayInNarrows
  <1>11. w.informed => v.informed
    <2> DEFINE promising == c.trend.score >= 4000
               p == Completeness(i, a) >= 50
               q == Completeness(j, b) >= 50
    <2>1. v.informed = (promising /\ p) /\ w.informed = (promising /\ q)
      BY <1>3, <1>4 DEF InformedNegative
    <2>2. q => p
      BY <1>1, KnownLess
    <2> HIDE DEF promising, p, q
    <2> QED
      BY <2>1, <2>2
  <1>12. Stored(w) => Stored(v)
    BY <1>6, <1>7, <1>9, <1>10, <1>11 DEF Stored
  <1> QED
    BY <1>6, <1>7, <1>8, <1>12

-----------------------------------------------------------------------------
(* The last verdict was passed on a context that was nowhere worse.        *)

JudgedBefore ==
    verdict # None => \E e : NotBetter(e, candidate.ctx) /\ verdict = Verdict(Told(candidate, e))

CandidateInvariant == CandidateTyped /\ JudgedBefore

LEMMA NotBetterIsReflexive == ASSUME NEW e, IsContext(e) PROVE NotBetter(e, e)
  BY DEF NotBetter

\* What the inductive argument rests on, in every reachable state.
THEOREM CandidateInvariantHolds == CandidatesSpec => []CandidateInvariant
  <1>1. CandidatesInit => CandidateInvariant
    BY CandidatesAssumption DEF CandidatesInit, CandidateInvariant, CandidateTyped, JudgedBefore
  <1>2. CandidateTyped /\ CandidateTyped' /\ JudgedBefore /\ [CandidatesNext]_candidateVars => JudgedBefore'
    <2> SUFFICES ASSUME CandidateTyped, CandidateTyped', JudgedBefore, [CandidatesNext]_candidateVars
                 PROVE  JudgedBefore'
      OBVIOUS
    <2>1. CASE Judge
      <3>1. candidate' = candidate /\ verdict' = Verdict(candidate)
        BY <2>1 DEF Judge
      <3>2. IsCandidate(candidate) /\ IsContext(candidate.ctx)
        BY DEF CandidateTyped, IsCandidate
      <3>3. NotBetter(candidate.ctx, candidate.ctx) /\ Told(candidate, candidate.ctx) = candidate
        BY <3>2, NotBetterIsReflexive, ToldCandidate
      <3> QED
        BY <3>1, <3>3 DEF JudgedBefore
    <2>2. ASSUME NEW n \in News, GetsWorse(n[1], n[2]) PROVE JudgedBefore'
      <3> DEFINE old == candidate.ctx
                 new == [k \in DOMAIN old |-> IF k = n[1] THEN n[2] ELSE old[k]]
      <3>1. /\ verdict' = verdict
            /\ candidate'.type = candidate.type /\ candidate'.trend = candidate.trend
            /\ candidate'.facts = candidate.facts /\ candidate'.ctx = new
            /\ Worse(n[1], old[n[1]], n[2])
        BY <2>2 DEF GetsWorse, CandidateTyped, IsCandidate
      <3>2. NotBetter(old, new)
        <4>1. IsContext(old) /\ IsContext(new)
          BY <3>1 DEF CandidateTyped, IsCandidate
        <4>2. \A k \in DOMAIN old : old[k] = new[k] \/ Worse(k, old[k], new[k])
          BY <3>1
        <4> QED
          BY <4>1, <4>2 DEF NotBetter
      <3>3. CASE verdict # None
        <4>1. PICK e : NotBetter(e, old) /\ verdict = Verdict(Told(candidate, e))
          BY <3>3 DEF JudgedBefore
        <4>2. NotBetter(e, new)
          <5> HIDE DEF old, new
          <5> QED
            BY <3>2, <4>1, NotBetterIsTransitive
        <4>3. Told(candidate', e) = Told(candidate, e)
          BY <3>1 DEF Told
        <4> QED
          BY <3>1, <4>1, <4>2, <4>3 DEF JudgedBefore
      <3> QED
        BY <3>1, <3>3 DEF JudgedBefore
    <2>3. CASE UNCHANGED candidateVars
      BY <2>3 DEF JudgedBefore, candidateVars
    <2> QED
      BY <2>1, <2>2, <2>3 DEF CandidatesNext
  <1> QED
    BY <1>1, <1>2, CandidateIsAlwaysTyped, PTL DEF CandidatesSpec, CandidateInvariant

\* Whatever is known of a candidate and however much of it gets worse between two
\* analyses: the second never finds a higher score or confidence or a lower risk,
\* and stores nothing that the first refused (generate_opportunities).
THEOREM WorseNeverEverHelps == CandidatesSpec => WorseNeverHelps
  <1>1. CandidateInvariant /\ [CandidatesNext]_candidateVars
          => [verdict # None =>
                /\ verdict'.score <= verdict.score /\ verdict'.confidence <= verdict.confidence
                /\ RankOf(verdict'.risk) >= RankOf(verdict.risk)
                /\ Stored(verdict') => Stored(verdict)]_verdict
    <2> SUFFICES ASSUME CandidateInvariant, [CandidatesNext]_candidateVars, verdict' # verdict, verdict # None
                 PROVE  /\ verdict'.score <= verdict.score /\ verdict'.confidence <= verdict.confidence
                        /\ RankOf(verdict'.risk) >= RankOf(verdict.risk)
                        /\ Stored(verdict') => Stored(verdict)
      OBVIOUS
    <2>1. Judge
      BY DEF CandidatesNext, candidateVars, GetsWorse
    <2>2. IsCandidate(candidate) /\ IsContext(candidate.ctx)
      BY DEF CandidateInvariant, CandidateTyped, IsCandidate
    <2>3. PICK e : NotBetter(e, candidate.ctx) /\ verdict = Verdict(Told(candidate, e))
      BY DEF CandidateInvariant, JudgedBefore
    <2>4. verdict' = Verdict(Told(candidate, candidate.ctx))
      BY <2>1, <2>2, ToldCandidate DEF Judge
    <2> QED
      BY <2>2, <2>3, <2>4, WorseIsNotBetter
  <1> QED
    BY <1>1, CandidateInvariantHolds, PTL DEF CandidatesSpec, WorseNeverHelps
=============================================================================
