----------------------------- MODULE TotalProofs -----------------------------
(***************************************************************************)
(* Lemmas about Total, the sum of a function over a finite set, for the    *)
(* proofs about Aggregator.                                                *)
(*                                                                         *)
(* Total is a recursive function on the subsets of the set: it takes out   *)
(* an arbitrary element and adds the sum of the rest.  That such a         *)
(* function exists, and what it computes, is shown by looking at a         *)
(* smallest set for which it would not be so.                              *)
(***************************************************************************)
EXTENDS Aggregator, FiniteSetTheorems, TLAPS

Pick(s) == CHOOSE x \in s : TRUE
Rest(s) == s \ {Pick(s)}

\* h is the recursive function by which the sum over S is defined.
IsSum(h, f, S) ==
    h = [s \in SUBSET S |-> IF s = {} THEN 0 ELSE f[Pick(s)] + h[Rest(s)]]

LEMMA TotalDef ==
    ASSUME NEW f, NEW S
    PROVE  Total(f, S) = (CHOOSE h : IsSum(h, f, S))[S]
BY DEF Total, MapThenSumSet, MapThenFoldSet, IsSum, Pick, Rest

LEMMA PickFacts ==
    ASSUME NEW s, s # {}
    PROVE  Pick(s) \in s /\ Rest(s) \subseteq s /\ Rest(s) # s
BY DEF Pick, Rest

\* Every nonempty set of subsets of a finite set has a smallest member.
LEMMA Smallest ==
    ASSUME NEW S, IsFiniteSet(S), NEW T, T \subseteq SUBSET S, T # {}
    PROVE  \E s \in T : \A u \in T : ~(u \subseteq s /\ u # s)
<1>1. IsWellFoundedOn(StrictSubsetOrdering(S), SUBSET S)
  BY FS_StrictSubsetOrderingWellFounded, FS_FiniteSubsetsOfFinite
<1>2. PICK s \in T : \A u \in T : ~(<<u, s>> \in StrictSubsetOrdering(S))
  BY <1>1, WFMin
<1>3. ASSUME NEW u \in T, u \subseteq s, u # s
      PROVE  FALSE
  <2>1. <<u, s>> \in StrictSubsetOrdering(S)
    BY <1>3 DEF StrictSubsetOrdering
  <2> QED
    BY <1>2, <2>1
<1> QED
  BY <1>3

LEMMA SumUnique ==
    ASSUME NEW S, IsFiniteSet(S), NEW f, NEW g, NEW h, IsSum(g, f, S), IsSum(h, f, S)
    PROVE  g = h
<1> DEFINE T == {s \in SUBSET S : g[s] # h[s]}
<1>1. CASE T = {}
  <2>1. \A s \in SUBSET S : g[s] = h[s]
    BY <1>1
  <2>2. g = [s \in SUBSET S |-> g[s]] /\ h = [s \in SUBSET S |-> h[s]]
    BY DEF IsSum
  <2> QED
    BY <2>1, <2>2
<1>2. CASE T # {}
  <2>1. PICK s \in T : \A u \in T : ~(u \subseteq s /\ u # s)
    <3>1. T \subseteq SUBSET S
      OBVIOUS
    <3> HIDE DEF T
    <3> QED
      BY <1>2, <3>1, Smallest
  <2>2. s # {}
    <3>1. g[{}] = 0 /\ h[{}] = 0
      BY DEF IsSum
    <3> QED
      BY <2>1, <3>1
  <2>3. Rest(s) \in SUBSET S /\ Rest(s) \notin T
    BY <2>1, <2>2, PickFacts
  <2>4. g[s] = f[Pick(s)] + g[Rest(s)] /\ h[s] = f[Pick(s)] + h[Rest(s)]
    BY <2>2 DEF IsSum
  <2> QED
    BY <2>1, <2>3, <2>4
<1> QED
  BY <1>1, <1>2

\* The function for a set gives that for each subset of it.
LEMMA SumRestrict ==
    ASSUME NEW S, NEW f, NEW h, IsSum(h, f, S), NEW t \in SUBSET S
    PROVE  IsSum([s \in SUBSET t |-> h[s]], f, t)
<1> DEFINE r == [s \in SUBSET t |-> h[s]]
<1>1. ASSUME NEW s \in SUBSET t
      PROVE  r[s] = IF s = {} THEN 0 ELSE f[Pick(s)] + r[Rest(s)]
  <2>1. h[s] = IF s = {} THEN 0 ELSE f[Pick(s)] + h[Rest(s)]
    BY DEF IsSum
  <2>2. Rest(s) \in SUBSET t
    BY DEF Rest
  <2> QED
    BY <2>1, <2>2
<1> QED
  BY <1>1 DEF IsSum

\* Where the function exists, Total is its value for each subset.
LEMMA SumIsTotal ==
    ASSUME NEW S, IsFiniteSet(S), NEW f, NEW h, IsSum(h, f, S), NEW t \in SUBSET S
    PROVE  h[t] = Total(f, t)
<1> DEFINE r == [s \in SUBSET t |-> h[s]]
<1>1. IsSum(r, f, t)
  BY SumRestrict
<1>2. IsSum(CHOOSE g : IsSum(g, f, t), f, t)
  BY <1>1
<1>3. IsFiniteSet(t)
  BY FS_Subset
<1>4. r = CHOOSE g : IsSum(g, f, t)
  BY <1>1, <1>2, <1>3, SumUnique
<1>5. r[t] = h[t]
  OBVIOUS
<1> QED
  BY <1>4, <1>5, TotalDef

LEMMA SumExists ==
    ASSUME NEW S, IsFiniteSet(S), NEW f
    PROVE  \E h : IsSum(h, f, S)
<1> DEFINE T == {s \in SUBSET S : ~\E h : IsSum(h, f, s)}
<1>1. SUFFICES ASSUME T # {} PROVE FALSE
  OBVIOUS
<1>2. PICK s \in T : \A u \in T : ~(u \subseteq s /\ u # s)
  <2>1. T \subseteq SUBSET S
    OBVIOUS
  <2> HIDE DEF T
  <2> QED
    BY <1>1, <2>1, Smallest
<1>3. s \in SUBSET S /\ ~\E h : IsSum(h, f, s)
  BY <1>2
<1>4. ASSUME NEW u \in SUBSET s, u # s
      PROVE  \E h : IsSum(h, f, u)
  BY <1>2, <1>4
<1>5. \A u \in SUBSET S : IsFiniteSet(u)
  BY FS_Subset
<1> HIDE DEF T
<1>6. ASSUME NEW u \in SUBSET s, u # s
      PROVE  Total(f, u) = IF u = {} THEN 0 ELSE f[Pick(u)] + Total(f, Rest(u))
  <2>1. PICK h : IsSum(h, f, u)
    BY <1>4, <1>6
  <2>2. IsFiniteSet(u)
    BY <1>3, <1>5
  <2>3. h[u] = Total(f, u) /\ h[Rest(u)] = Total(f, Rest(u))
    BY <2>1, <2>2, SumIsTotal DEF Rest
  <2>4. h[u] = IF u = {} THEN 0 ELSE f[Pick(u)] + h[Rest(u)]
    BY <2>1 DEF IsSum
  <2> QED
    BY <2>3, <2>4
<1> DEFINE Value(u) == IF u = {} THEN 0 ELSE f[Pick(u)] + Total(f, Rest(u))
           r == [u \in SUBSET s |-> Value(u)]
<1>7. ASSUME NEW u \in SUBSET s, u # {}
      PROVE  r[Rest(u)] = Total(f, Rest(u))
  <2>1. Rest(u) \in SUBSET s /\ Rest(u) # s
    BY <1>7, PickFacts DEF Rest
  <2>2. Total(f, Rest(u)) = Value(Rest(u))
    BY <1>6, <2>1
  <2> QED
    BY <2>1, <2>2
<1>8. \A u \in SUBSET s : r[u] = IF u = {} THEN 0 ELSE f[Pick(u)] + r[Rest(u)]
  BY <1>7
<1>9. IsSum(r, f, s)
  BY <1>8 DEF IsSum
<1> QED
  BY <1>3, <1>9

\* The sum over a finite set is the sum of one element and the rest.
LEMMA TotalStep ==
    ASSUME NEW S, IsFiniteSet(S), NEW f
    PROVE  Total(f, S) = IF S = {} THEN 0 ELSE f[Pick(S)] + Total(f, Rest(S))
<1>1. PICK h : IsSum(h, f, S)
  BY SumExists
<1>2. Total(f, S) = h[S] /\ Total(f, Rest(S)) = h[Rest(S)]
  BY <1>1, SumIsTotal DEF Rest
<1> QED
  BY <1>1, <1>2 DEF IsSum

\* The sum of natural numbers is one.
LEMMA TotalType ==
    ASSUME NEW S, IsFiniteSet(S), NEW f, \A x \in S : f[x] \in Nat
    PROVE  Total(f, S) \in Nat
<1> DEFINE T == {s \in SUBSET S : Total(f, s) \notin Nat}
<1>1. SUFFICES ASSUME T # {} PROVE FALSE
  OBVIOUS
<1>2. PICK s \in T : \A u \in T : ~(u \subseteq s /\ u # s)
  <2>1. T \subseteq SUBSET S
    OBVIOUS
  <2> HIDE DEF T
  <2> QED
    BY <1>1, <2>1, Smallest
<1>3. IsFiniteSet(s) /\ s \in SUBSET S /\ Total(f, s) \notin Nat
  BY <1>2, FS_Subset
<1>4. s # {} /\ Total(f, s) = f[Pick(s)] + Total(f, Rest(s))
  BY <1>3, TotalStep
<1>5. f[Pick(s)] \in Nat /\ Total(f, Rest(s)) \in Nat
  BY <1>2, <1>3, <1>4, PickFacts
<1> QED
  BY <1>3, <1>4, <1>5

\* The sum depends on the values in the set only.
LEMMA TotalAgrees ==
    ASSUME NEW S, IsFiniteSet(S), NEW f, NEW g, \A x \in S : f[x] = g[x]
    PROVE  Total(f, S) = Total(g, S)
<1> DEFINE T == {s \in SUBSET S : Total(f, s) # Total(g, s)}
<1>1. SUFFICES ASSUME T # {} PROVE FALSE
  OBVIOUS
<1>2. PICK s \in T : \A u \in T : ~(u \subseteq s /\ u # s)
  <2>1. T \subseteq SUBSET S
    OBVIOUS
  <2> HIDE DEF T
  <2> QED
    BY <1>1, <2>1, Smallest
<1>3. IsFiniteSet(s) /\ s \in SUBSET S /\ Total(f, s) # Total(g, s)
  BY <1>2, FS_Subset
<1>4. /\ s # {}
      /\ Total(f, s) = f[Pick(s)] + Total(f, Rest(s))
      /\ Total(g, s) = g[Pick(s)] + Total(g, Rest(s))
  BY <1>3, TotalStep
<1>5. f[Pick(s)] = g[Pick(s)] /\ Total(f, Rest(s)) = Total(g, Rest(s))
  BY <1>2, <1>3, <1>4, PickFacts
<1> QED
  BY <1>3, <1>4, <1>5

\* Any element may be taken out first.
LEMMA TotalTake ==
    ASSUME NEW S, IsFiniteSet(S), NEW f, \A x \in S : f[x] \in Nat, NEW x \in S
    PROVE  Total(f, S) = f[x] + Total(f, S \ {x})
<1> DEFINE T == {s \in SUBSET S : \E y \in s : Total(f, s) # f[y] + Total(f, s \ {y})}
<1>1. SUFFICES ASSUME T # {} PROVE FALSE
  OBVIOUS
<1>2. PICK s \in T : \A u \in T : ~(u \subseteq s /\ u # s)
  <2>1. T \subseteq SUBSET S
    OBVIOUS
  <2> HIDE DEF T
  <2> QED
    BY <1>1, <2>1, Smallest
<1>3. PICK y \in s : Total(f, s) # f[y] + Total(f, s \ {y})
  BY <1>2
<1>4. s \in SUBSET S /\ IsFiniteSet(s)
  BY <1>2, FS_Subset
<1>5. \A u \in SUBSET s : u # s => \A z \in u : Total(f, u) = f[z] + Total(f, u \ {z})
  BY <1>2, <1>4
<1> HIDE DEF T
<1> DEFINE p == Pick(s)
<1>6. p \in s /\ Total(f, s) = f[p] + Total(f, s \ {p})
  BY <1>3, <1>4, TotalStep, PickFacts DEF Rest
<1> HIDE DEF p
<1>7. y # p
  BY <1>3, <1>6
<1>8. Total(f, s \ {p}) = f[y] + Total(f, (s \ {p}) \ {y})
  BY <1>3, <1>5, <1>6, <1>7
<1>9. Total(f, s \ {y}) = f[p] + Total(f, (s \ {y}) \ {p})
  BY <1>3, <1>5, <1>6, <1>7
<1>10. (s \ {p}) \ {y} = (s \ {y}) \ {p}
  OBVIOUS
<1>11. f[y] \in Nat /\ f[p] \in Nat /\ Total(f, (s \ {y}) \ {p}) \in Nat
  <2>1. IsFiniteSet((s \ {y}) \ {p})
    BY <1>4, FS_Subset
  <2> QED
    BY <1>3, <1>4, <1>6, <2>1, TotalType
<1> QED
  BY <1>3, <1>6, <1>8, <1>9, <1>10, <1>11

\* A part has at most the sum of the whole.
LEMMA TotalPart ==
    ASSUME NEW S, IsFiniteSet(S), NEW f, \A x \in S : f[x] \in Nat, NEW R \in SUBSET S
    PROVE  Total(f, R) <= Total(f, S)
<1> DEFINE T == {s \in SUBSET S : R \subseteq s /\ ~(Total(f, R) <= Total(f, s))}
<1>1. SUFFICES ASSUME T # {} PROVE FALSE
  OBVIOUS
<1>2. PICK s \in T : \A u \in T : ~(u \subseteq s /\ u # s)
  <2>1. T \subseteq SUBSET S
    OBVIOUS
  <2> HIDE DEF T
  <2> QED
    BY <1>1, <2>1, Smallest
<1>3. s \in SUBSET S /\ IsFiniteSet(s) /\ IsFiniteSet(R) /\ R \subseteq s /\ ~(Total(f, R) <= Total(f, s))
  BY <1>2, FS_Subset
<1>4. Total(f, R) \in Nat
  BY <1>3, TotalType
<1>5. R # s
  BY <1>3, <1>4
<1>6. PICK x \in s : x \notin R
  BY <1>3, <1>5
<1>7. s \ {x} \notin T
  BY <1>2, <1>6
<1>8. Total(f, R) <= Total(f, s \ {x})
  BY <1>3, <1>6, <1>7
<1>9. Total(f, s) = f[x] + Total(f, s \ {x})
  BY <1>3, <1>6, TotalTake
<1>10. f[x] \in Nat /\ Total(f, s \ {x}) \in Nat
  <2>1. IsFiniteSet(s \ {x})
    BY <1>3, FS_Subset
  <2> QED
    BY <1>3, <1>6, <2>1, TotalType
<1> QED
  BY <1>3, <1>4, <1>8, <1>9, <1>10

\* The sum of zeros.
LEMMA TotalZero ==
    ASSUME NEW S, IsFiniteSet(S), NEW f, \A x \in S : f[x] = 0
    PROVE  Total(f, S) = 0
<1> DEFINE T == {s \in SUBSET S : Total(f, s) # 0}
<1>1. SUFFICES ASSUME T # {} PROVE FALSE
  OBVIOUS
<1>2. PICK s \in T : \A u \in T : ~(u \subseteq s /\ u # s)
  <2>1. T \subseteq SUBSET S
    OBVIOUS
  <2> HIDE DEF T
  <2> QED
    BY <1>1, <2>1, Smallest
<1>3. IsFiniteSet(s) /\ s \in SUBSET S /\ Total(f, s) # 0
  BY <1>2, FS_Subset
<1>4. s # {} /\ Total(f, s) = f[Pick(s)] + Total(f, Rest(s))
  BY <1>3, TotalStep
<1>5. f[Pick(s)] = 0 /\ Total(f, Rest(s)) = 0
  BY <1>2, <1>3, <1>4, PickFacts
<1> QED
  BY <1>3, <1>4, <1>5

\* A count of n more for x, which may be new with a count of zero, adds at most
\* n to the sum.
LEMMA TotalCount ==
    ASSUME NEW S, IsFiniteSet(S), NEW x, NEW n \in Nat, NEW f, NEW g,
           \A y \in S \cup {x} : f[y] \in Nat /\ g[y] \in Nat,
           \A y \in S \ {x} : g[y] = f[y],
           x \notin S => f[x] = 0,
           g[x] <= f[x] + n
    PROVE  Total(g, S \cup {x}) <= Total(f, S) + n
<1> DEFINE R == S \ {x}
<1>1. IsFiniteSet(S \cup {x}) /\ IsFiniteSet(R)
  BY FS_AddElement, FS_Subset
<1>2. Total(g, S \cup {x}) = g[x] + Total(g, R)
  <2>1. (S \cup {x}) \ {x} = R
    OBVIOUS
  <2> QED
    BY <1>1, <2>1, TotalTake
<1>3. Total(g, R) = Total(f, R)
  BY <1>1, TotalAgrees
<1>4. Total(f, R) \in Nat /\ f[x] \in Nat /\ g[x] \in Nat
  BY <1>1, TotalType
<1>5. Total(f, S) = f[x] + Total(f, R)
  <2>1. CASE x \in S
    BY <2>1, TotalTake
  <2>2. CASE x \notin S
    <3>1. R = S
      BY <2>2
    <3>2. Total(f, S) = Total(f, R) /\ f[x] = 0
      BY <2>2, <3>1
    <3> HIDE DEF R
    <3> QED
      BY <1>4, <3>2
  <2> QED
    BY <2>1, <2>2
<1> HIDE DEF R
<1> QED
  BY <1>2, <1>3, <1>4, <1>5

=============================================================================
