----------------------------- MODULE Sums_proofs -----------------------------
(***************************************************************************)
(* What proofs need to know of a sum: that it does not depend on the order *)
(* in which the elements are added, and what an element added, removed or  *)
(* changed makes of it.                                                    *)
(*                                                                         *)
(* The fold behind Total is a recursive function, which has to be shown to *)
(* exist before anything is known of it.  Inductions are carried out over  *)
(* sets: a set of counterexamples that is not empty has a smallest element *)
(* (NatMin, Smallest).                                                     *)
(***************************************************************************)
EXTENDS Sums, FiniteSetTheorems, WellFoundedInduction, TLAPS

FirstOf(s) == CHOOSE x \in s : TRUE

AddsUp(f, g, s) == g[s] = IF s = {} THEN 0 ELSE f[FirstOf(s)] + g[s \ {FirstOf(s)}]

Unfolded(f, g, S) == [s \in SUBSET S |-> IF s = {} THEN 0 ELSE f[FirstOf(s)] + g[s \ {FirstOf(s)}]]

\* The fold of MapThenSumSet, for all the parts of S.
SumFold(f, S) == CHOOSE g : g = Unfolded(f, g, S)

LEMMA TotalIs ==
  ASSUME NEW f, NEW S
  PROVE  Total(f, S) = SumFold(f, S)[S]
  BY DEF Total, MapThenSumSet, MapThenFoldSet, SumFold, Unfolded, FirstOf

LessThan == {ss \in Nat \X Nat : ss[1] < ss[2]}

LEMMA NatMin ==
  ASSUME NEW T \in SUBSET Nat, T # {}
  PROVE  \E n \in T : \A m \in T : n <= m
<1>1. IsWellFoundedOn(LessThan, Nat)
  BY NatLessThanWellFounded DEF OpToRel, LessThan
<1>2. \E n \in T : \A m \in T : ~ (<<m, n>> \in LessThan)
  BY <1>1, WFMin
<1>3. ASSUME NEW m \in Nat, NEW n \in Nat, m < n
      PROVE  <<m, n>> \in LessThan
  BY <1>3 DEF LessThan
<1>4. PICK n \in T : \A m \in T : ~ (<<m, n>> \in LessThan)
  BY <1>2
<1>5. \A m \in T : ~(m < n)
  BY <1>3, <1>4
<1>. QED
  BY <1>5

LEMMA NatInduct ==
  ASSUME NEW T, 0 \in T, \A n \in Nat : n \in T => n + 1 \in T
  PROVE  Nat \subseteq T
<1>. SUFFICES ASSUME Nat \ T # {} PROVE FALSE
  OBVIOUS
<1>1. PICK n \in Nat \ T : \A m \in Nat \ T : n <= m
  BY NatMin
<1>2. n # 0 /\ n - 1 \in Nat
  BY <1>1
<1>3. n - 1 \in T
  BY <1>1, <1>2
<1>. QED
  BY <1>1, <1>2, <1>3

LEMMA Smallest ==
  ASSUME NEW S, IsFiniteSet(S), NEW T \in SUBSET (SUBSET S), T # {}
  PROVE  \E s \in T : \A t \in T : t \subseteq s => t = s
<1>1. T \subseteq FiniteSubsetsOf(S)
  BY FS_Subset DEF FiniteSubsetsOf
<1>2. \E s \in T : \A t \in T : ~ (<<t, s>> \in StrictSubsetOrdering(S))
  BY <1>1, FS_StrictSubsetOrderingWellFounded, WFMin
<1>3. PICK s \in T : \A t \in T : ~ (<<t, s>> \in StrictSubsetOrdering(S))
  BY <1>2
<1>4. ASSUME NEW t \in T, t \subseteq s, t # s
      PROVE  <<t, s>> \in StrictSubsetOrdering(S)
  BY <1>4 DEF StrictSubsetOrdering
<1>5. \A t \in T : t \subseteq s => t = s
  BY <1>3, <1>4
<1>. QED
  BY <1>5

LEMMA FirstOfIn ==
  ASSUME NEW s, s # {}
  PROVE  FirstOf(s) \in s
  BY DEF FirstOf

\* There is a function that satisfies the recursion: by induction on the size
\* of the sets for which it does.
LEMMA SumFoldExists ==
  ASSUME NEW f, NEW S, IsFiniteSet(S)
  PROVE  SumFold(f, S) = Unfolded(f, SumFold(f, S), S)
<1>. DEFINE Upto(n) == {s \in SUBSET S : Cardinality(s) <= n}
            N == {n \in Nat : \E g : \A s \in Upto(n) : AddsUp(f, g, s)}
<1>0. \A s \in SUBSET S : IsFiniteSet(s) /\ Cardinality(s) \in Nat
  BY FS_Subset, FS_CardinalityType
<1>1. 0 \in N
  <2>. DEFINE g == [s \in SUBSET S |-> 0]
  <2>1. ASSUME NEW s \in Upto(0) PROVE AddsUp(f, g, s)
    <3>1. s = {}
      BY <1>0, FS_EmptySet
    <3>. QED
      BY <3>1 DEF AddsUp
  <2>. QED
    BY <2>1
<1>2. ASSUME NEW n \in Nat, n \in N
      PROVE  n + 1 \in N
  <2>1. PICK g : \A s \in Upto(n) : AddsUp(f, g, s)
    BY <1>2
  <2>. DEFINE h == [s \in SUBSET S |-> IF Cardinality(s) <= n THEN g[s]
                                        ELSE f[FirstOf(s)] + g[s \ {FirstOf(s)}]]
  <2>2. ASSUME NEW s \in Upto(n + 1) PROVE AddsUp(f, h, s)
    <3>1. CASE s = {}
      <4>1. s \in Upto(n)
        BY <3>1, FS_EmptySet, <1>2
      <4>. QED
        BY <3>1, <4>1, <2>1 DEF AddsUp
    <3>2. CASE s # {}
      <4>. DEFINE r == s \ {FirstOf(s)}
      <4>1. Cardinality(r) = Cardinality(s) - 1
        BY <3>2, FirstOfIn, <1>0, FS_RemoveElement
      <4>2. r \in SUBSET S /\ Cardinality(r) <= n
        BY <4>1, <1>0
      <4>3. h[r] = g[r]
        BY <4>2
      <4>4. h[s] = f[FirstOf(s)] + g[r]
        <5>1. CASE Cardinality(s) <= n
          <6>1. g[s] = f[FirstOf(s)] + g[r]
            BY <5>1, <3>2, <2>1 DEF AddsUp
          <6>. QED
            BY <6>1, <5>1
        <5>2. CASE ~(Cardinality(s) <= n)
          BY <5>2
        <5>. QED
          BY <5>1, <5>2
      <4>. HIDE DEF h
      <4>. QED
        BY <4>3, <4>4, <3>2 DEF AddsUp
    <3>. QED
      BY <3>1, <3>2
  <2>. HIDE DEF h
  <2>. QED
    BY <2>2, <1>2
<1>. HIDE DEF N
<1>3. Nat \subseteq N
  BY <1>1, <1>2, NatInduct
<1>4. Cardinality(S) \in N
  BY <1>3, FS_CardinalityType
<1>5. PICK g : \A s \in Upto(Cardinality(S)) : AddsUp(f, g, s)
  BY <1>4 DEF N
<1>6. \A s \in SUBSET S : AddsUp(f, g, s)
  BY <1>5, FS_Subset
<1>. DEFINE h == [s \in SUBSET S |-> g[s]]
<1>7. h = Unfolded(f, h, S)
  <2>1. ASSUME NEW s \in SUBSET S
        PROVE  h[s] = IF s = {} THEN 0 ELSE f[FirstOf(s)] + h[s \ {FirstOf(s)}]
    BY <1>6 DEF AddsUp
  <2>. QED
    BY <2>1 DEF Unfolded
<1>. HIDE DEF h
<1>. QED
  BY <1>7 DEF SumFold


LEMMA SumFoldUnfolds ==
  ASSUME NEW f, NEW S, IsFiniteSet(S), NEW s \in SUBSET S
  PROVE  SumFold(f, S)[s] = IF s = {} THEN 0 ELSE f[FirstOf(s)] + SumFold(f, S)[s \ {FirstOf(s)}]
<1>1. PICK F : F = SumFold(f, S)
  OBVIOUS
<1>2. F = Unfolded(f, F, S)
  BY <1>1, SumFoldExists
<1>3. F[s] = IF s = {} THEN 0 ELSE f[FirstOf(s)] + F[s \ {FirstOf(s)}]
  BY <1>2 DEF Unfolded
<1>. QED
  BY <1>1, <1>3

\* The fold over a set and the fold over a part of it agree on the part.
LEMMA SumFoldAgrees ==
  ASSUME NEW f, NEW S, IsFiniteSet(S), NEW R \in SUBSET S, NEW s \in SUBSET R
  PROVE  SumFold(f, S)[s] = SumFold(f, R)[s]
<1>. DEFINE T == {t \in SUBSET R : SumFold(f, S)[t] # SumFold(f, R)[t]}
<1>. SUFFICES ASSUME T # {} PROVE FALSE
  OBVIOUS
<1>1. IsFiniteSet(R)
  BY FS_Subset
<1>2. PICK t \in T : \A u \in T : u \subseteq t => u = t
  <2>1. T \subseteq SUBSET R
    OBVIOUS
  <2>. HIDE DEF T
  <2>. QED
    BY <1>1, <2>1, Smallest
<1>3. t # {}
  BY <1>1, <1>2, SumFoldUnfolds
<1>. DEFINE u == t \ {FirstOf(t)}
<1>4. u \in SUBSET R /\ u \subseteq t /\ u # t
  BY <1>3, FirstOfIn
<1>5. SumFold(f, S)[u] = SumFold(f, R)[u]
  BY <1>2, <1>4
<1>6. SumFold(f, S)[t] = f[FirstOf(t)] + SumFold(f, S)[u]
  BY <1>3, SumFoldUnfolds
<1>7. SumFold(f, R)[t] = f[FirstOf(t)] + SumFold(f, R)[u]
  BY <1>1, <1>3, SumFoldUnfolds
<1>. QED
  BY <1>2, <1>5, <1>6, <1>7

LEMMA TotalEmpty ==
  ASSUME NEW f
  PROVE  Total(f, {}) = 0
  BY TotalIs, SumFoldUnfolds, FS_EmptySet

LEMMA TotalPick ==
  ASSUME NEW f, NEW S, IsFiniteSet(S), S # {}
  PROVE  Total(f, S) = f[FirstOf(S)] + Total(f, S \ {FirstOf(S)})
<1>. DEFINE R == S \ {FirstOf(S)}
<1>0. SumFold(f, S)[S] = f[FirstOf(S)] + SumFold(f, S)[R]
  BY SumFoldUnfolds
<1>1. Total(f, S) = f[FirstOf(S)] + SumFold(f, S)[R]
  BY <1>0, TotalIs
<1>2. SumFold(f, S)[R] = Total(f, R)
  BY TotalIs, SumFoldAgrees
<1>. QED
  BY <1>1, <1>2

LEMMA TotalType ==
  ASSUME NEW f, NEW S, IsFiniteSet(S), \A x \in S : f[x] \in Int
  PROVE  Total(f, S) \in Int
<1>. DEFINE T == {t \in SUBSET S : Total(f, t) \notin Int}
<1>. SUFFICES ASSUME T # {} PROVE FALSE
  OBVIOUS
<1>1. PICK t \in T : \A u \in T : u \subseteq t => u = t
  <2>1. T \subseteq SUBSET S
    OBVIOUS
  <2>. HIDE DEF T
  <2>. QED
    BY <2>1, Smallest
<1>2. t # {}
  BY <1>1, TotalEmpty
<1>3. FirstOf(t) \in t
  BY <1>2, FirstOfIn
<1>4. Total(f, t \ {FirstOf(t)}) \in Int
  BY <1>1, <1>3
<1>5. IsFiniteSet(t)
  BY FS_Subset
<1>6. Total(f, t) = f[FirstOf(t)] + Total(f, t \ {FirstOf(t)})
  BY <1>2, <1>5, TotalPick
<1>. QED
  BY <1>1, <1>3, <1>4, <1>6

\* The order in which the elements are added does not matter.
LEMMA TotalRemove ==
  ASSUME NEW f, NEW S, IsFiniteSet(S), \A x \in S : f[x] \in Int, NEW x \in S
  PROVE  Total(f, S) = f[x] + Total(f, S \ {x})
<1>. DEFINE Off(t) == {y \in t : Total(f, t) # f[y] + Total(f, t \ {y})}
            T == {t \in SUBSET S : Off(t) # {}}
<1>. SUFFICES ASSUME T # {} PROVE FALSE
  OBVIOUS
<1>1. PICK t \in T : \A u \in T : u \subseteq t => u = t
  <2>1. T \subseteq SUBSET S
    OBVIOUS
  <2>. HIDE DEF T
  <2>. QED
    BY <2>1, Smallest
<1>2. PICK y \in t : Total(f, t) # f[y] + Total(f, t \ {y})
  BY <1>1
<1>. DEFINE c == FirstOf(t)
<1>3. c \in t /\ t # {}
  BY <1>2, FirstOfIn
<1>4. \A u \in SUBSET t : IsFiniteSet(u) /\ Total(f, u) \in Int
  BY FS_Subset, TotalType
<1>5. Total(f, t) = f[c] + Total(f, t \ {c})
  BY <1>3, <1>4, TotalPick
<1>6. c # y
  BY <1>2, <1>5
<1>7. Total(f, t \ {c}) = f[y] + Total(f, (t \ {c}) \ {y})
  <2>1. t \ {c} \notin T
    BY <1>1, <1>3
  <2>. QED
    BY <2>1, <1>3, <1>6
<1>8. Total(f, t \ {y}) = f[c] + Total(f, (t \ {y}) \ {c})
  <2>1. t \ {y} \notin T
    BY <1>1, <1>2
  <2>. QED
    BY <2>1, <1>2, <1>3, <1>6
<1>9. (t \ {c}) \ {y} = (t \ {y}) \ {c}
  OBVIOUS
<1>10. PICK n \in Int : n = Total(f, (t \ {c}) \ {y})
  BY <1>4
<1>11. f[c] \in Int /\ f[y] \in Int
  BY <1>3
<1>12. Total(f, t) = f[c] + (f[y] + n) /\ Total(f, t \ {y}) = f[c] + n
  BY <1>5, <1>7, <1>8, <1>9, <1>10
<1>13. Total(f, t) = f[y] + Total(f, t \ {y})
  BY <1>10, <1>11, <1>12
<1>. QED
  BY <1>2, <1>13

LEMMA TotalAdd ==
  ASSUME NEW f, NEW S, IsFiniteSet(S), NEW x, x \notin S, \A y \in S \cup {x} : f[y] \in Int
  PROVE  Total(f, S \cup {x}) = Total(f, S) + f[x]
<1>1. IsFiniteSet(S \cup {x}) /\ (S \cup {x}) \ {x} = S
  BY FS_AddElement
<1>2. Total(f, S \cup {x}) = f[x] + Total(f, S)
  BY <1>1, TotalRemove
<1>. QED
  BY <1>2, TotalType

\* A smaller summand for every element, a smaller sum.
LEMMA TotalGrows ==
  ASSUME NEW f, NEW g, NEW S, IsFiniteSet(S),
         \A x \in S : f[x] \in Int /\ g[x] \in Int /\ f[x] <= g[x]
  PROVE  Total(f, S) <= Total(g, S)
<1>0. Total(f, {}) = 0 /\ Total(g, {}) = 0
  BY TotalEmpty
<1>. DEFINE T == {t \in SUBSET S : ~(Total(f, t) <= Total(g, t))}
<1>. SUFFICES ASSUME T # {} PROVE FALSE
  OBVIOUS
<1>1. PICK t \in T : \A u \in T : u \subseteq t => u = t
  <2>1. T \subseteq SUBSET S
    OBVIOUS
  <2>. HIDE DEF T
  <2>. QED
    BY <2>1, Smallest
<1>2. t # {}
  <2>1. {} \notin T
    BY <1>0
  <2>. QED
    BY <2>1, <1>1
<1>3. FirstOf(t) \in t
  BY <1>2, FirstOfIn
<1>. DEFINE u == t \ {FirstOf(t)}
<1>4. Total(f, u) <= Total(g, u)
  BY <1>1, <1>3
<1>5. IsFiniteSet(t) /\ IsFiniteSet(u)
  BY FS_Subset
<1>6. Total(f, t) = f[FirstOf(t)] + Total(f, u) /\ Total(g, t) = g[FirstOf(t)] + Total(g, u)
  BY <1>2, <1>5, TotalPick
<1>7. Total(f, u) \in Int /\ Total(g, u) \in Int
  BY <1>5, TotalType
<1>. QED
  BY <1>1, <1>3, <1>4, <1>6, <1>7

LEMMA TotalSame ==
  ASSUME NEW f, NEW g, NEW S, IsFiniteSet(S), \A x \in S : f[x] \in Int /\ f[x] = g[x]
  PROVE  Total(f, S) = Total(g, S)
<1>1. Total(f, S) <= Total(g, S) /\ Total(g, S) <= Total(f, S)
  BY TotalGrows
<1>. QED
  BY <1>1, TotalType

LEMMA TotalChange ==
  ASSUME NEW f, NEW g, NEW S, IsFiniteSet(S), NEW x \in S,
         \A y \in S : f[y] \in Int /\ g[y] \in Int,
         \A y \in S \ {x} : g[y] = f[y]
  PROVE  Total(g, S) = Total(f, S) - f[x] + g[x]
<1>1. Total(f, S) = f[x] + Total(f, S \ {x}) /\ Total(g, S) = g[x] + Total(g, S \ {x})
  BY TotalRemove
<1>2. IsFiniteSet(S \ {x})
  BY FS_RemoveElement
<1>3. Total(f, S \ {x}) = Total(g, S \ {x}) /\ Total(f, S \ {x}) \in Int
  BY <1>2, TotalSame, TotalType
<1>. QED
  BY <1>1, <1>3

\* Of a part, where no summand is negative.
LEMMA TotalPart ==
  ASSUME NEW f, NEW S, IsFiniteSet(S), \A x \in S : f[x] \in Nat, NEW R \in SUBSET S
  PROVE  Total(f, R) <= Total(f, S)
<1>. DEFINE T == {t \in SUBSET (S \ R) : ~(Total(f, R) <= Total(f, R \cup t))}
<1>. SUFFICES ASSUME T # {} PROVE FALSE
  <2>1. R \cup (S \ R) = S
    OBVIOUS
  <2>. QED
    BY <2>1
<1>1. IsFiniteSet(S \ R) /\ IsFiniteSet(R)
  BY FS_Subset
<1>2. PICK t \in T : \A u \in T : u \subseteq t => u = t
  <2>1. T \subseteq SUBSET (S \ R)
    OBVIOUS
  <2>. HIDE DEF T
  <2>. QED
    BY <1>1, <2>1, Smallest
<1>3. t # {}
  <2>1. Total(f, R) \in Int /\ R \cup {} = R
    BY <1>1, TotalType
  <2>2. {} \notin T
    BY <2>1
  <2>. QED
    BY <2>2
<1>4. FirstOf(t) \in t
  BY <1>3, FirstOfIn
<1>. DEFINE u == t \ {FirstOf(t)}
<1>5. Total(f, R) <= Total(f, R \cup u)
  <2>1. u \notin T /\ u \in SUBSET (S \ R)
    BY <1>2, <1>4
  <2>. QED
    BY <2>1
<1>6. IsFiniteSet(R \cup t) /\ IsFiniteSet(R \cup u)
  BY FS_Subset
<1>7. (R \cup t) \ {FirstOf(t)} = R \cup u
  BY <1>4
<1>8. Total(f, R \cup t) = f[FirstOf(t)] + Total(f, R \cup u)
  BY <1>4, <1>6, <1>7, TotalRemove
<1>9. Total(f, R \cup u) \in Int /\ Total(f, R) \in Int /\ f[FirstOf(t)] \in Nat
  BY <1>1, <1>4, <1>6, TotalType
<1>. QED
  BY <1>2, <1>5, <1>8, <1>9

\* Elements of which the summand is nothing may be left out.
LEMMA TotalOfRest ==
  ASSUME NEW f, NEW S, IsFiniteSet(S), \A x \in S : f[x] \in Nat, NEW R \in SUBSET S,
         \A x \in S \ R : f[x] = 0
  PROVE  Total(f, S) = Total(f, R)
<1>. DEFINE T == {t \in SUBSET (S \ R) : Total(f, R \cup t) # Total(f, R)}
<1>. SUFFICES ASSUME T # {} PROVE FALSE
  <2>1. (S \ R) \notin T
    OBVIOUS
  <2>2. Total(f, R \cup (S \ R)) = Total(f, R)
    BY <2>1
  <2>3. R \cup (S \ R) = S
    OBVIOUS
  <2>. HIDE DEF T
  <2>. QED
    BY <2>2, <2>3
<1>1. IsFiniteSet(S \ R)
  BY FS_Subset
<1>2. PICK t \in T : \A u \in T : u \subseteq t => u = t
  <2>1. T \subseteq SUBSET (S \ R)
    OBVIOUS
  <2>. HIDE DEF T
  <2>. QED
    BY <1>1, <2>1, Smallest
<1>3. t # {}
  <2>1. R \cup {} = R
    OBVIOUS
  <2>2. {} \notin T
    BY <2>1
  <2>. QED
    BY <2>2
<1>4. PICK x \in t : f[x] = 0
  BY <1>3
<1>. DEFINE u == t \ {x}
<1>5. Total(f, R \cup u) = Total(f, R)
  <2>1. u \notin T /\ u \in SUBSET (S \ R)
    BY <1>2, <1>4
  <2>. QED
    BY <2>1
<1>6. IsFiniteSet(R \cup t) /\ IsFiniteSet(R \cup u)
  BY FS_Subset
<1>7. (R \cup t) \ {x} = R \cup u
  BY <1>4
<1>8. Total(f, R \cup t) = f[x] + Total(f, R \cup u)
  BY <1>4, <1>6, <1>7, TotalRemove
<1>9. Total(f, R \cup u) \in Int
  BY <1>6, TotalType
<1>. QED
  BY <1>2, <1>4, <1>5, <1>8, <1>9

\* Where each summand is one, the sum is the number of elements.
LEMMA TotalOnes ==
  ASSUME NEW f, NEW S, IsFiniteSet(S), \A x \in S : f[x] = 1
  PROVE  Total(f, S) = Cardinality(S)
<1>. DEFINE T == {t \in SUBSET S : Total(f, t) # Cardinality(t)}
<1>. SUFFICES ASSUME T # {} PROVE FALSE
  OBVIOUS
<1>1. PICK t \in T : \A u \in T : u \subseteq t => u = t
  <2>1. T \subseteq SUBSET S
    OBVIOUS
  <2>. HIDE DEF T
  <2>. QED
    BY <2>1, Smallest
<1>2. t # {}
  <2>1. {} \notin T
    BY TotalEmpty, FS_EmptySet
  <2>. QED
    BY <2>1
<1>3. PICK x \in t : f[x] = 1
  BY <1>2
<1>. DEFINE u == t \ {x}
<1>4. Total(f, u) = Cardinality(u)
  <2>1. u \notin T /\ u \in SUBSET S
    BY <1>1, <1>3
  <2>. QED
    BY <2>1
<1>5. IsFiniteSet(t) /\ IsFiniteSet(u) /\ Cardinality(t) \in Nat /\ Cardinality(u) = Cardinality(t) - 1
  <2>1. IsFiniteSet(t)
    BY FS_Subset
  <2>. QED
    BY <1>3, <2>1, FS_Subset, FS_RemoveElement, FS_CardinalityType
<1>6. Total(f, t) = f[x] + Total(f, u)
  BY <1>3, <1>5, TotalRemove
<1>. QED
  BY <1>1, <1>3, <1>4, <1>5, <1>6

\* And where it is one for the elements of R and nothing for the others, the
\* number of these.
LEMMA TotalCounts ==
  ASSUME NEW f, NEW S, IsFiniteSet(S), NEW R \in SUBSET S,
         \A x \in S : f[x] = IF x \in R THEN 1 ELSE 0
  PROVE  Total(f, S) = Cardinality(R)
<1>1. Total(f, S) = Total(f, R)
  BY TotalOfRest
<1>2. IsFiniteSet(R) /\ \A x \in R : f[x] = 1
  BY FS_Subset
<1>. QED
  BY <1>1, <1>2, TotalOnes

=============================================================================
