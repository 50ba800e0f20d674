------------------------------- MODULE SumsProofs -------------------------------
(***************************************************************************)
(* What the sums of the solvers do, for every finite set of arguments: the *)
(* value does not depend on the order in which the terms are added.        *)
(*                                                                         *)
(* Total is defined by a recursive function on the subsets of S.  Its laws *)
(* are shown by induction on these subsets, stated for sets of subsets (so *)
(* that no theorem takes an operator): a set of subsets that has every     *)
(* subset all of whose smaller subsets it has, has them all.               *)
(***************************************************************************)
EXTENDS Sums, FiniteSets, FiniteSetTheorems, WellFoundedInduction, TLAPS

-----------------------------------------------------------------------------
\* Induction on the subsets of a finite set.

\* A set P of subsets of S that has T whenever it has all smaller subsets of T
\* is the set of all subsets.
LEMMA SubsetStrongInduction ==
  ASSUME NEW S, IsFiniteSet(S), NEW P,
         \A T \in SUBSET S : (\A U \in SUBSET T : U # T => U \in P) => T \in P
  PROVE  \A T \in SUBSET S : T \in P
<1> DEFINE Bad == {T \in SUBSET S : T \notin P}
<1> SUFFICES ASSUME Bad # {} PROVE FALSE
  OBVIOUS
<1>1. SUBSET S = FiniteSubsetsOf(S)
  BY FS_FiniteSubsetsOfFinite
<1>2. IsWellFoundedOn(StrictSubsetOrdering(S), SUBSET S)
  <2>1. IsWellFoundedOn(StrictSubsetOrdering(S), FiniteSubsetsOf(S))
    BY FS_StrictSubsetOrderingWellFounded, Zenon
  <2> QED
    BY <1>1, <2>1, Zenon
<1>3. PICK T \in Bad : \A U \in Bad : <<U, T>> \notin StrictSubsetOrdering(S)
  <2> HIDE DEF Bad
  <2>1. Bad \subseteq SUBSET S
    BY DEF Bad
  <2> QED
    BY <1>2, <2>1, WFMin
<1>4. \A U \in SUBSET T : U # T => U \in P
  BY <1>3 DEF StrictSubsetOrdering
<1> QED
  BY <1>4

\* A set P of subsets of S that has the empty one, and T with one more element
\* whenever it has T, has S.
LEMMA SubsetInduction ==
  ASSUME NEW S, IsFiniteSet(S), NEW P, {} \in P,
         \A T \in SUBSET S : \A x \in S \ T : T \in P => T \cup {x} \in P
  PROVE  S \in P
<1>1. ASSUME NEW T \in SUBSET S, \A U \in SUBSET T : U # T => U \in P
      PROVE  T \in P
  <2>1. CASE T = {}
    BY <2>1
  <2>2. CASE T # {}
    <3>1. PICK x \in T : TRUE
      BY <2>2
    <3>2. T \ {x} \in P
      BY <1>1
    <3>3. T = (T \ {x}) \cup {x} /\ T \ {x} \in SUBSET S /\ x \in S \ (T \ {x})
      OBVIOUS
    <3> QED
      BY <3>2, <3>3
  <2> QED
    BY <2>1, <2>2
<1> QED
  BY <1>1, SubsetStrongInduction

\* What holds of 0, and of k + 1 if of k, holds up to n.
LEMMA RangeInduction ==
  ASSUME NEW n \in Nat, NEW P, 0 \in P, \A k \in 0..n - 1 : k \in P => k + 1 \in P
  PROVE  \A k \in 0..n : k \in P
<1> DEFINE Q == {T \in SUBSET (0..n) : \A k \in 0..n : T = 0..k => k \in P}
<1>1. ASSUME NEW T \in SUBSET (0..n), \A U \in SUBSET T : U # T => U \in Q
      PROVE  T \in Q
  <2> SUFFICES ASSUME NEW k \in 0..n, T = 0..k PROVE k \in P
    OBVIOUS
  <2>1. CASE k = 0
    BY <2>1
  <2>2. CASE k # 0
    <3>1. k - 1 \in 0..n /\ k - 1 \in 0..n - 1 /\ k - 1 + 1 = k
      BY <2>2
    <3>2. 0..k - 1 \in SUBSET T /\ 0..k - 1 # T
      <4>1. k \in T /\ k \notin 0..k - 1 /\ \A j \in 0..k - 1 : j \in 0..k
        BY <2>2
      <4> QED
        BY <4>1
    <3>3. 0..k - 1 \in Q
      BY <1>1, <3>2
    <3>4. k - 1 \in P
      BY <3>1, <3>3
    <3> QED
      BY <3>1, <3>4
  <2> QED
    BY <2>1, <2>2
<1>2. \A T \in SUBSET (0..n) : T \in Q
  <2>1. IsFiniteSet(0..n)
    BY FS_Interval
  <2> HIDE DEF Q
  <2> QED
    BY <1>1, <2>1, SubsetStrongInduction
<1>3. ASSUME NEW k \in 0..n PROVE k \in P
  <2>1. 0..k \in SUBSET (0..n)
    OBVIOUS
  <2> QED
    BY <1>2, <2>1
<1> QED
  BY <1>3

-----------------------------------------------------------------------------
\* The recursive function behind Total.

Pick(s) == CHOOSE x \in s : TRUE

\* g is the function that MapThenFoldSet recurses with.
IsIter(f, T, g) ==
  g = [s \in SUBSET T |-> IF s = {} THEN 0 ELSE f[Pick(s)] + g[s \ {Pick(s)}]]

Iter(f, T) == CHOOSE g : IsIter(f, T, g)

LEMMA PickIsElement == ASSUME NEW s, s # {} PROVE Pick(s) \in s
BY DEF Pick

\* Two such functions agree where both are defined.
LEMMA IterIsUnique ==
  ASSUME NEW f, NEW T, NEW U, NEW g, NEW h, NEW s,
         IsIter(f, T, g), IsIter(f, U, h), s \subseteq T, s \subseteq U, IsFiniteSet(s)
  PROVE  g[s] = h[s]
<1> DEFINE P == {r \in SUBSET s : g[r] = h[r]}
<1>1. ASSUME NEW r \in SUBSET s, \A u \in SUBSET r : u # r => u \in P
      PROVE  r \in P
  <2>0. r \in SUBSET T /\ r \in SUBSET U
    OBVIOUS
  <2>1. CASE r = {}
    BY <2>0, <2>1 DEF IsIter
  <2>2. CASE r # {}
    <3>1. Pick(r) \in r
      BY <2>2, PickIsElement
    <3>2. g[r \ {Pick(r)}] = h[r \ {Pick(r)}]
      BY <3>1, <1>1
    <3>3. g[r] = f[Pick(r)] + g[r \ {Pick(r)}]
      BY <2>0, <2>2 DEF IsIter
    <3>4. h[r] = f[Pick(r)] + h[r \ {Pick(r)}]
      BY <2>0, <2>2 DEF IsIter
    <3> QED
      BY <3>2, <3>3, <3>4
  <2> QED
    BY <2>1, <2>2
<1>2. \A r \in SUBSET s : r \in P
  <2> HIDE DEF P
  <2> QED
    BY <1>1, SubsetStrongInduction
<1> QED
  BY <1>2

\* There is one for every finite set.
LEMMA IterExists ==
  ASSUME NEW f, NEW S, IsFiniteSet(S)
  PROVE  \E g : IsIter(f, S, g)
<1> DEFINE P == {T \in SUBSET S : \E g : IsIter(f, T, g)}
<1>1. ASSUME NEW T \in SUBSET S, \A U \in SUBSET T : U # T => U \in P
      PROVE  T \in P
  <2> DEFINE g == [s \in SUBSET T |-> IF s = {} THEN 0
                     ELSE f[Pick(s)] + Iter(f, s \ {Pick(s)})[s \ {Pick(s)}]]
  <2>1. \A U \in SUBSET T : U # T => IsIter(f, U, Iter(f, U))
    BY <1>1 DEF Iter
  <2>2. ASSUME NEW s \in SUBSET T, s # {}
        PROVE  g[s \ {Pick(s)}] = Iter(f, s \ {Pick(s)})[s \ {Pick(s)}]
    <3> DEFINE u == s \ {Pick(s)}
    <3>1. Pick(s) \in s /\ u \in SUBSET T /\ u # T
      BY <2>2, PickIsElement
    <3>2. IsIter(f, u, Iter(f, u))
      BY <2>1, <3>1
    <3>3. CASE u = {}
      <4>1. Iter(f, u)[u] = 0
        BY <3>2, <3>3 DEF IsIter
      <4> QED
        BY <3>1, <3>3, <4>1
    <3>4. CASE u # {}
      <4> DEFINE v == u \ {Pick(u)}
      <4>1. Pick(u) \in u /\ v \in SUBSET T /\ v # T /\ IsFiniteSet(v) /\ v \subseteq u
        <5>1. IsFiniteSet(v)
          BY FS_Subset
        <5> QED
          BY <3>4, <5>1, PickIsElement
      <4>2. IsIter(f, v, Iter(f, v))
        BY <2>1, <4>1
      <4>3. Iter(f, u)[v] = Iter(f, v)[v]
        BY <3>2, <4>1, <4>2, IterIsUnique
      <4>4. Iter(f, u)[u] = f[Pick(u)] + Iter(f, u)[v]
        <5> QED
          BY <3>2, <3>4 DEF IsIter
      <4>5. g[u] = f[Pick(u)] + Iter(f, v)[v]
        BY <3>1, <3>4
      <4> QED
        BY <4>3, <4>4, <4>5
    <3> QED
      BY <3>3, <3>4
  <2>3. IsIter(f, T, g)
    <3>1. g = [s \in SUBSET T |-> g[s]]
      OBVIOUS
    <3>2. \A s \in SUBSET T : s # {} => g[s] = f[Pick(s)] + g[s \ {Pick(s)}]
      BY <2>2
    <3>3. \A s \in SUBSET T : s = {} => g[s] = 0
      OBVIOUS
    <3> HIDE DEF g
    <3>4. \A s \in SUBSET T : g[s] = IF s = {} THEN 0 ELSE f[Pick(s)] + g[s \ {Pick(s)}]
      BY <3>2, <3>3
    <3>5. [s \in SUBSET T |-> g[s]]
            = [s \in SUBSET T |-> IF s = {} THEN 0 ELSE f[Pick(s)] + g[s \ {Pick(s)}]]
      BY <3>4
    <3> QED
      BY <3>1, <3>5 DEF IsIter
  <2> QED
    BY <2>3
<1>2. \A T \in SUBSET S : T \in P
  <2> HIDE DEF P
  <2> QED
    BY <1>1, SubsetStrongInduction
<1> QED
  BY <1>2

\* Total unfolds at the element that CHOOSE takes.
LEMMA TotalUnfolds ==
  ASSUME NEW f, NEW S, IsFiniteSet(S)
  PROVE  Total(f, S) = IF S = {} THEN 0 ELSE f[Pick(S)] + Total(f, S \ {Pick(S)})
<1>1. \A U : Total(f, U) = Iter(f, U)[U]
  BY DEF Total, MapThenSumSet, MapThenFoldSet, IsIter, Pick, Iter
<1>2. \A U \in SUBSET S : IsIter(f, U, Iter(f, U))
  <2>1. \A U \in SUBSET S : IsFiniteSet(U)
    BY FS_Subset
  <2> QED
    BY <2>1, IterExists DEF Iter
<1>3. CASE S = {}
  BY <1>1, <1>2, <1>3 DEF IsIter
<1>4. CASE S # {}
  <2> DEFINE u == S \ {Pick(S)}
  <2>1. u \subseteq S /\ IsFiniteSet(u)
    BY FS_Subset
  <2>2. Iter(f, S)[u] = Iter(f, u)[u]
    BY <1>2, <2>1, IterIsUnique
  <2>3. Iter(f, S)[S] = f[Pick(S)] + Iter(f, S)[u]
    <3> QED
      BY <1>2, <1>4 DEF IsIter
  <2> QED
    BY <1>1, <1>4, <2>2, <2>3
<1> QED
  BY <1>3, <1>4
-----------------------------------------------------------------------------
\* The laws of sums.

\* The sum over no arguments.
LEMMA TotalEmpty == ASSUME NEW f PROVE Total(f, {}) = 0
BY TotalUnfolds, FS_EmptySet

\* Only the values on the set count.
LEMMA TotalAgrees ==
  ASSUME NEW f, NEW g, NEW S, IsFiniteSet(S), \A x \in S : f[x] = g[x]
  PROVE  Total(f, S) = Total(g, S)
<1> DEFINE P == {T \in SUBSET S : Total(f, T) = Total(g, T)}
<1>1. ASSUME NEW T \in SUBSET S, \A U \in SUBSET T : U # T => U \in P
      PROVE  T \in P
  <2>1. IsFiniteSet(T)
    BY FS_Subset
  <2>2. CASE T = {}
    BY <2>2, TotalEmpty
  <2>3. CASE T # {}
    <3>1. Pick(T) \in T
      BY <2>3, PickIsElement
    <3>2. Total(f, T \ {Pick(T)}) = Total(g, T \ {Pick(T)})
      BY <1>1, <3>1
    <3> QED
      BY <2>1, <2>3, <3>1, <3>2, TotalUnfolds
  <2> QED
    BY <2>2, <2>3
<1>2. \A T \in SUBSET S : T \in P
  <2> HIDE DEF P
  <2> QED
    BY <1>1, SubsetStrongInduction
<1> QED
  BY <1>2

\* A sum of whole numbers is one.
LEMMA TotalInt ==
  ASSUME NEW f, NEW S, IsFiniteSet(S), \A x \in S : f[x] \in Int
  PROVE  Total(f, S) \in Int
<1> DEFINE P == {T \in SUBSET S : Total(f, T) \in Int}
<1>1. ASSUME NEW T \in SUBSET S, \A U \in SUBSET T : U # T => U \in P
      PROVE  T \in P
  <2>1. IsFiniteSet(T)
    BY FS_Subset
  <2>2. CASE T = {}
    BY <2>2, TotalEmpty
  <2>3. CASE T # {}
    <3>1. Pick(T) \in T /\ f[Pick(T)] \in Int
      BY <2>3, PickIsElement
    <3>2. Total(f, T \ {Pick(T)}) \in Int
      BY <1>1, <3>1
    <3> QED
      BY <2>1, <2>3, <3>1, <3>2, TotalUnfolds
  <2> QED
    BY <2>2, <2>3
<1>2. \A T \in SUBSET S : T \in P
  <2> HIDE DEF P
  <2> QED
    BY <1>1, SubsetStrongInduction
<1> QED
  BY <1>2

\* The sum can start at any element: addition does not care about the order.
LEMMA TotalRemove ==
  ASSUME NEW f, NEW S, IsFiniteSet(S), \A x \in S : f[x] \in Int, NEW a \in S
  PROVE  Total(f, S) = f[a] + Total(f, S \ {a})
<1> DEFINE P == {T \in SUBSET S : \A x \in T : Total(f, T) = f[x] + Total(f, T \ {x})}
<1>1. ASSUME NEW T \in SUBSET S, \A U \in SUBSET T : U # T => U \in P
      PROVE  T \in P
  <2>1. ASSUME NEW x \in T
        PROVE  Total(f, T) = f[x] + Total(f, T \ {x})
    <3> DEFINE p == Pick(T)
    <3>1. p \in T
      BY PickIsElement
    <3>2. Total(f, T) = f[p] + Total(f, T \ {p})
      <4>1. IsFiniteSet(T)
        BY FS_Subset
      <4> QED
        BY <4>1, TotalUnfolds
    <3>3. CASE x = p
      BY <3>2, <3>3
    <3>4. CASE x # p
      <4> HIDE DEF p
      <4>1. T \ {p} \in P /\ T \ {x} \in P
        BY <1>1, <3>1
      <4>2. Total(f, T \ {p}) = f[x] + Total(f, (T \ {p}) \ {x})
        BY <4>1, <3>4
      <4>3. Total(f, T \ {x}) = f[p] + Total(f, (T \ {x}) \ {p})
        BY <4>1, <3>1, <3>4
      <4>4. Total(f, (T \ {p}) \ {x}) = Total(f, (T \ {x}) \ {p})
        <5>1. (T \ {p}) \ {x} = (T \ {x}) \ {p}
          OBVIOUS
        <5> QED
          BY <5>1, Zenon
      <4>5. Total(f, (T \ {p}) \ {x}) \in Int
        <5>1. IsFiniteSet((T \ {p}) \ {x})
          BY FS_Subset
        <5> QED
          BY <5>1, TotalInt
      <4> QED
        BY <3>1, <3>2, <4>2, <4>3, <4>4, <4>5
    <3> QED
      BY <3>3, <3>4
  <2> QED
    BY <2>1
<1>2. \A T \in SUBSET S : T \in P
  <2> HIDE DEF P
  <2> QED
    BY <1>1, SubsetStrongInduction
<1> QED
  BY <1>2

\* One more argument adds its value.
LEMMA TotalAdd ==
  ASSUME NEW f, NEW S, IsFiniteSet(S), NEW a, a \notin S,
         \A x \in S \cup {a} : f[x] \in Int
  PROVE  Total(f, S \cup {a}) = Total(f, S) + f[a]
<1>1. IsFiniteSet(S \cup {a})
  BY FS_AddElement
<1>2. Total(f, (S \cup {a}) \ {a}) = Total(f, S)
  <2>1. (S \cup {a}) \ {a} = S
    OBVIOUS
  <2> QED
    BY <2>1, Zenon
<1>3. Total(f, S) \in Int
  BY TotalInt
<1>4. Total(f, S \cup {a}) = f[a] + Total(f, (S \cup {a}) \ {a})
  BY <1>1, TotalRemove
<1> QED
  BY <1>2, <1>3, <1>4

\* A sum of natural numbers is one.
LEMMA TotalNat ==
  ASSUME NEW f, NEW S, IsFiniteSet(S), \A x \in S : f[x] \in Nat
  PROVE  Total(f, S) \in Nat
<1> DEFINE P == {T \in SUBSET S : Total(f, T) \in Nat}
<1>1. {} \in P
  BY TotalEmpty
<1>2. ASSUME NEW T \in SUBSET S, NEW x \in S \ T, T \in P PROVE T \cup {x} \in P
  <2>1. Total(f, T \cup {x}) = Total(f, T) + f[x]
    <3>1. IsFiniteSet(T) /\ \A y \in T \cup {x} : f[y] \in Int
      BY FS_Subset
    <3> QED
      BY <3>1, TotalAdd
  <2> QED
    BY <1>2, <2>1
<1>3. S \in P
  <2> HIDE DEF P
  <2> QED
    BY <1>1, <1>2, SubsetInduction
<1> QED
  BY <1>3

\* Term by term comparison.
LEMMA TotalMonotone ==
  ASSUME NEW f, NEW g, NEW S, IsFiniteSet(S),
         \A x \in S : f[x] \in Int /\ g[x] \in Int /\ f[x] <= g[x]
  PROVE  Total(f, S) <= Total(g, S)
<1> DEFINE P == {T \in SUBSET S : Total(f, T) <= Total(g, T)}
<1>1. {} \in P
  BY TotalEmpty
<1>2. ASSUME NEW T \in SUBSET S, NEW x \in S \ T, T \in P PROVE T \cup {x} \in P
  <2>1. IsFiniteSet(T)
    BY FS_Subset
  <2>2. Total(f, T \cup {x}) = Total(f, T) + f[x] /\ Total(f, T) \in Int
    BY <2>1, TotalAdd, TotalInt
  <2>3. Total(g, T \cup {x}) = Total(g, T) + g[x] /\ Total(g, T) \in Int
    BY <2>1, TotalAdd, TotalInt
  <2> QED
    BY <1>2, <2>2, <2>3
<1>3. S \in P
  <2> HIDE DEF P
  <2> QED
    BY <1>1, <1>2, SubsetInduction
<1> QED
  BY <1>3

\* Of two functions, one never above the other, with the same sum, all values are equal.
LEMMA TotalSqueeze ==
  ASSUME NEW f, NEW g, NEW S, IsFiniteSet(S),
         \A x \in S : f[x] \in Int /\ g[x] \in Int /\ f[x] <= g[x],
         Total(g, S) <= Total(f, S), NEW a \in S
  PROVE  f[a] = g[a]
<1>1. IsFiniteSet(S \ {a})
  BY FS_Subset
<1>2. Total(f, S) = f[a] + Total(f, S \ {a}) /\ Total(g, S) = g[a] + Total(g, S \ {a})
  BY TotalRemove
<1>3. Total(f, S \ {a}) <= Total(g, S \ {a})
  BY <1>1, TotalMonotone
<1>4. Total(f, S \ {a}) \in Int /\ Total(g, S \ {a}) \in Int
  BY <1>1, TotalInt
<1> QED
  BY <1>2, <1>3, <1>4

\* Sums over disjoint sets of arguments add up.
LEMMA TotalDisjoint ==
  ASSUME NEW f, NEW S, NEW U, IsFiniteSet(S), IsFiniteSet(U), S \cap U = {},
         \A x \in S \cup U : f[x] \in Int
  PROVE  Total(f, S \cup U) = Total(f, S) + Total(f, U)
<1> DEFINE P == {T \in SUBSET U : Total(f, S \cup T) = Total(f, S) + Total(f, T)}
<1>0. Total(f, S) \in Int
  BY TotalInt
<1>1. {} \in P
  <2>1. S \cup {} = S
    OBVIOUS
  <2>2. Total(f, S \cup {}) = Total(f, S)
    BY <2>1, Zenon
  <2> QED
    BY <1>0, <2>2, TotalEmpty
<1>2. ASSUME NEW T \in SUBSET U, NEW x \in U \ T, T \in P PROVE T \cup {x} \in P
  <2>1. IsFiniteSet(T) /\ IsFiniteSet(S \cup T)
    BY FS_Subset, FS_Union
  <2>2. Total(f, T \cup {x}) = Total(f, T) + f[x] /\ Total(f, T) \in Int
    BY <2>1, TotalAdd, TotalInt
  <2>3. Total(f, (S \cup T) \cup {x}) = Total(f, S \cup T) + f[x]
    BY <2>1, TotalAdd
  <2>4. Total(f, (S \cup T) \cup {x}) = Total(f, S \cup (T \cup {x}))
    <3>1. (S \cup T) \cup {x} = S \cup (T \cup {x})
      OBVIOUS
    <3> QED
      BY <3>1, Zenon
  <2> QED
    BY <1>0, <1>2, <2>2, <2>3, <2>4
<1>3. U \in P
  <2> HIDE DEF P
  <2> QED
    BY <1>1, <1>2, SubsetInduction
<1> QED
  BY <1>3

\* The sum over two sets, the common part counted twice.
LEMMA TotalUnion ==
  ASSUME NEW f, NEW S, NEW U, IsFiniteSet(S), IsFiniteSet(U), \A x \in S \cup U : f[x] \in Int
  PROVE  Total(f, S \cup U) + Total(f, S \cap U) = Total(f, S) + Total(f, U)
<1> DEFINE R == U \ S
           I == S \cap U
<1>1. IsFiniteSet(R) /\ IsFiniteSet(I)
  BY FS_Subset
<1>2. S \cup R = S \cup U /\ S \cap R = {} /\ I \cup R = U /\ I \cap R = {}
  OBVIOUS
<1>3. (\A x \in S \cup R : f[x] \in Int) /\ (\A x \in I \cup R : f[x] \in Int)
  BY <1>2
<1> HIDE DEF R, I
<1>4. Total(f, S \cup R) = Total(f, S) + Total(f, R)
  BY <1>1, <1>2, <1>3, TotalDisjoint
<1>5. Total(f, I \cup R) = Total(f, I) + Total(f, R)
  BY <1>1, <1>2, <1>3, TotalDisjoint
<1>6. Total(f, S) \in Int /\ Total(f, R) \in Int /\ Total(f, I) \in Int
  BY <1>1, <1>3, TotalInt
<1>7. Total(f, S \cup U) = Total(f, S) + Total(f, R) /\ Total(f, U) = Total(f, I) + Total(f, R)
  BY <1>2, <1>4, <1>5, Zenon
<1>8. Total(f, S \cup U) + Total(f, I) = Total(f, S) + Total(f, U)
  BY <1>6, <1>7
<1> QED
  BY <1>8 DEF I

\* Fewer natural numbers sum up to no more.
LEMMA TotalSubset ==
  ASSUME NEW f, NEW S, IsFiniteSet(S), \A x \in S : f[x] \in Nat, NEW T \in SUBSET S
  PROVE  Total(f, T) <= Total(f, S)
<1>1. IsFiniteSet(T) /\ IsFiniteSet(S \ T) /\ T \cup (S \ T) = S
  BY FS_Subset
<1>2. Total(f, T \cup (S \ T)) = Total(f, T) + Total(f, S \ T)
  BY <1>1, TotalDisjoint
<1>3. Total(f, T) \in Nat /\ Total(f, S \ T) \in Nat
  BY <1>1, TotalNat
<1>4. Total(f, T \cup (S \ T)) = Total(f, S)
  BY <1>1, Zenon
<1> QED
  BY <1>2, <1>3, <1>4

\* Each of the natural numbers is at most their sum.
LEMMA TotalElement ==
  ASSUME NEW f, NEW S, IsFiniteSet(S), \A x \in S : f[x] \in Nat, NEW a \in S
  PROVE  f[a] <= Total(f, S)
<1>1. Total(f, S) = f[a] + Total(f, S \ {a})
  BY TotalRemove
<1>2. Total(f, S \ {a}) \in Nat
  BY TotalNat, FS_Subset
<1> QED
  BY <1>1, <1>2

\* Arguments of value 0 can be left out.
LEMMA TotalIgnoresZeros ==
  ASSUME NEW f, NEW S, IsFiniteSet(S), \A x \in S : f[x] \in Int, NEW T \in SUBSET S,
         \A x \in S \ T : f[x] = 0
  PROVE  Total(f, S) = Total(f, T)
<1> DEFINE R == S \ T
           P == {U \in SUBSET R : Total(f, U) = 0}
<1>1. {} \in P
  BY TotalEmpty
<1>2. ASSUME NEW U \in SUBSET R, NEW x \in R \ U, U \in P PROVE U \cup {x} \in P
  <2>1. Total(f, U \cup {x}) = Total(f, U) + f[x]
    BY FS_Subset, TotalAdd
  <2> QED
    BY <1>2, <2>1
<1>3. IsFiniteSet(R) /\ IsFiniteSet(T) /\ T \cup R = S
  BY FS_Subset
<1>4. R \in P
  <2> HIDE DEF P, R
  <2> QED
    BY <1>1, <1>2, <1>3, SubsetInduction
<1>5. Total(f, T \cup R) = Total(f, T) + Total(f, R) /\ Total(f, T) \in Int
  BY <1>3, TotalDisjoint, TotalInt
<1>6. Total(f, T \cup R) = Total(f, S)
  BY <1>3, Zenon
<1> QED
  BY <1>4, <1>5, <1>6

\* A sum of zeros.
LEMMA TotalIsZero ==
  ASSUME NEW f, NEW S, IsFiniteSet(S), \A x \in S : f[x] = 0
  PROVE  Total(f, S) = 0
BY TotalIgnoresZeros, TotalEmpty

\* Where one term changes, the sum changes by as much.
LEMMA TotalChange ==
  ASSUME NEW f, NEW g, NEW S, IsFiniteSet(S), NEW a \in S,
         \A x \in S : f[x] \in Int /\ g[x] \in Int,
         \A x \in S \ {a} : f[x] = g[x]
  PROVE  Total(g, S) = Total(f, S) + (g[a] - f[a])
<1>1. IsFiniteSet(S \ {a})
  BY FS_Subset
<1>2. Total(f, S) = f[a] + Total(f, S \ {a}) /\ Total(f, S \ {a}) \in Int
  BY <1>1, TotalRemove, TotalInt
<1>3. Total(g, S) = g[a] + Total(g, S \ {a})
  BY TotalRemove
<1>4. Total(g, S \ {a}) = Total(f, S \ {a})
  BY <1>1, TotalAgrees
<1> QED
  BY <1>2, <1>3, <1>4

\* The sum over one argument.
LEMMA TotalSingle ==
  ASSUME NEW f, NEW a, f[a] \in Int
  PROVE  Total(f, {a}) = f[a]
<1>1. Total(f, {} \cup {a}) = Total(f, {}) + f[a]
  BY FS_EmptySet, TotalAdd
<1>2. Total(f, {} \cup {a}) = Total(f, {a})
  <2>1. {} \cup {a} = {a}
    OBVIOUS
  <2> QED
    BY <2>1, Zenon
<1> QED
  BY <1>1, <1>2, TotalEmpty

\* The arguments can be renamed, each to one of its own.
LEMMA TotalRenamed ==
  ASSUME NEW f, NEW h, NEW I, IsFiniteSet(I),
         \A i \in I : f[h[i]] \in Int,
         \A i, j \in I : h[i] = h[j] => i = j
  PROVE  Total(f, {h[i] : i \in I}) = Total([i \in I |-> f[h[i]]], I)
<1> DEFINE g == [i \in I |-> f[h[i]]]
           Image(J) == {h[i] : i \in J}
           P == {J \in SUBSET I : Total(f, Image(J)) = Total(g, J) /\ IsFiniteSet(Image(J))}
<1>1. {} \in P
  <2>1. Image({}) = {}
    OBVIOUS
  <2> HIDE DEF Image, g
  <2>2. Total(f, Image({})) = Total(g, {}) /\ IsFiniteSet(Image({}))
    BY <2>1, TotalEmpty, FS_EmptySet
  <2> QED
    BY <2>2
<1>2. ASSUME NEW J \in SUBSET I, NEW i \in I \ J, J \in P PROVE J \cup {i} \in P
  <2>1. Image(J \cup {i}) = Image(J) \cup {h[i]} /\ h[i] \notin Image(J)
    OBVIOUS
  <2>2. \A y \in Image(J) \cup {h[i]} : f[y] \in Int
    OBVIOUS
  <2>3. \A j \in J \cup {i} : g[j] \in Int
    OBVIOUS
  <2>4. IsFiniteSet(J) /\ g[i] = f[h[i]]
    BY FS_Subset
  <2> HIDE DEF Image, g
  <2>5. Total(f, Image(J) \cup {h[i]}) = Total(f, Image(J)) + f[h[i]]
    BY <1>2, <2>1, <2>2, TotalAdd
  <2>6. Total(g, J \cup {i}) = Total(g, J) + g[i]
    BY <2>3, <2>4, TotalAdd
  <2>7. IsFiniteSet(Image(J) \cup {h[i]})
    BY <1>2, FS_AddElement
  <2> QED
    BY <1>2, <2>1, <2>4, <2>5, <2>6, <2>7
<1>3. I \in P
  <2> HIDE DEF P
  <2> QED
    BY <1>1, <1>2, SubsetInduction
<1> QED
  BY <1>3

\* The sum of two functions is the sum of their sums.
LEMMA TotalPlus ==
  ASSUME NEW f, NEW g, NEW h, NEW S, IsFiniteSet(S),
         \A x \in S : f[x] \in Int /\ g[x] \in Int /\ h[x] = f[x] + g[x]
  PROVE  Total(h, S) = Total(f, S) + Total(g, S)
<1> DEFINE P == {T \in SUBSET S : Total(h, T) = Total(f, T) + Total(g, T)}
<1>1. {} \in P
  BY TotalEmpty
<1>2. ASSUME NEW T \in SUBSET S, NEW x \in S \ T, T \in P PROVE T \cup {x} \in P
  <2>1. IsFiniteSet(T)
    BY FS_Subset
  <2>2. Total(f, T \cup {x}) = Total(f, T) + f[x] /\ Total(f, T) \in Int
    BY <2>1, TotalAdd, TotalInt
  <2>3. Total(g, T \cup {x}) = Total(g, T) + g[x] /\ Total(g, T) \in Int
    BY <2>1, TotalAdd, TotalInt
  <2>4. Total(h, T \cup {x}) = Total(h, T) + h[x]
    <3>1. \A y \in T \cup {x} : h[y] \in Int
      OBVIOUS
    <3> QED
      BY <2>1, <3>1, TotalAdd
  <2> QED
    BY <1>2, <2>2, <2>3, <2>4
<1>3. S \in P
  <2> HIDE DEF P
  <2> QED
    BY <1>1, <1>2, SubsetInduction
<1> QED
  BY <1>3

\* A common factor.
LEMMA TotalScaled ==
  ASSUME NEW f, NEW g, NEW c \in Int, NEW S, IsFiniteSet(S),
         \A x \in S : f[x] \in Int /\ g[x] = c * f[x]
  PROVE  Total(g, S) = c * Total(f, S)
<1> DEFINE P == {T \in SUBSET S : Total(g, T) = c * Total(f, T)}
<1>0. \A a, b \in Int : c * a \in Int /\ c * (a + b) = c * a + c * b
  OBVIOUS
<1>1. {} \in P
  BY TotalEmpty
<1>2. ASSUME NEW T \in SUBSET S, NEW x \in S \ T, T \in P PROVE T \cup {x} \in P
  <2>1. IsFiniteSet(T) /\ \A y \in T \cup {x} : g[y] \in Int
    BY <1>0, FS_Subset
  <2>2. Total(f, T \cup {x}) = Total(f, T) + f[x] /\ Total(f, T) \in Int
    BY <2>1, TotalAdd, TotalInt
  <2>3. Total(g, T \cup {x}) = Total(g, T) + g[x]
    BY <2>1, TotalAdd
  <2> QED
    BY <1>0, <1>2, <2>2, <2>3
<1>3. S \in P
  <2> HIDE DEF P
  <2> QED
    BY <1>1, <1>2, SubsetInduction
<1> QED
  BY <1>3

\* A table can be summed up row by row or column by column.
LEMMA TotalSwap ==
  ASSUME NEW m, NEW I, NEW K, IsFiniteSet(I), IsFiniteSet(K),
         \A i \in I, k \in K : m[i][k] \in Int
  PROVE  Total([i \in I |-> Total(m[i], K)], I)
           = Total([k \in K |-> Total([i \in I |-> m[i][k]], I)], K)
<1> DEFINE row(J) == [i \in I |-> Total(m[i], J)]
           col == [k \in K |-> Total([i \in I |-> m[i][k]], I)]
           P == {J \in SUBSET K : Total(row(J), I) = Total(col, J)}
<1>1. {} \in P
  <2>1. \A i \in I : row({})[i] = 0
    BY TotalEmpty
  <2>2. Total(row({}), I) = Total(row({}), {})
    <3> HIDE DEF row
    <3> QED
      BY <2>1, TotalIgnoresZeros
  <2> HIDE DEF row, col
  <2> QED
    BY <2>2, TotalEmpty
<1>2. ASSUME NEW J \in SUBSET K, NEW k \in K \ J, J \in P PROVE J \cup {k} \in P
  <2> DEFINE new == [i \in I |-> m[i][k]]
  <2>1. IsFiniteSet(J)
    BY FS_Subset
  <2>2. \A i \in I : row(J \cup {k})[i] = row(J)[i] + new[i] /\ row(J)[i] \in Int /\ new[i] \in Int
    BY <2>1, TotalAdd, TotalInt
  <2>3. Total(row(J \cup {k}), I) = Total(row(J), I) + Total(new, I)
    <3> DEFINE before == row(J)
               after == row(J \cup {k})
    <3>1. \A i \in I : before[i] \in Int /\ new[i] \in Int /\ after[i] = before[i] + new[i]
      BY <2>2
    <3> HIDE DEF before, after, new
    <3>2. Total(after, I) = Total(before, I) + Total(new, I)
      BY <3>1, TotalPlus
    <3> QED
      BY <3>2 DEF before, after
  <2>4. \A j \in K : col[j] \in Int
    <3>1. ASSUME NEW j \in K PROVE Total([i \in I |-> m[i][j]], I) \in Int
      <4>1. \A i \in I : [x \in I |-> m[x][j]][i] \in Int
        OBVIOUS
      <4> QED
        BY <4>1, TotalInt
    <3> QED
      BY <3>1
  <2>5. Total(col, J \cup {k}) = Total(col, J) + col[k]
    <3> HIDE DEF col
    <3> QED
      BY <2>1, <2>4, TotalAdd
  <2>6. col[k] = Total(new, I)
    OBVIOUS
  <2> HIDE DEF row, col, new
  <2> QED
    BY <1>2, <2>3, <2>5, <2>6
<1>3. K \in P
  <2> HIDE DEF P
  <2> QED
    BY <1>1, <1>2, SubsetInduction
<1> QED
  BY <1>3


-----------------------------------------------------------------------------
\* The extremes of finite sets of whole numbers.

\* A sum is the sum of the sums over the arguments that h sends to the same place.
LEMMA TotalFibers ==
  ASSUME NEW f, NEW h, NEW I, NEW K, IsFiniteSet(I), IsFiniteSet(K),
         \A i \in I : f[i] \in Int /\ h[i] \in K
  PROVE  Total(f, I) = Total([k \in K |-> Total(f, {i \in I : h[i] = k})], K)
<1> DEFINE part(J) == [k \in K |-> Total(f, {i \in J : h[i] = k})]
           P == {J \in SUBSET I : Total(f, J) = Total(part(J), K)}
<1>1. {} \in P
  <2>1. \A k \in K : part({})[k] = 0
    <3>1. \A k \in K : {i \in {} : h[i] = k} = {}
      OBVIOUS
    <3> QED
      BY <3>1, TotalEmpty, Zenon
  <2> DEFINE g == part({})
  <2>2. \A k \in K : g[k] = 0
    BY <2>1
  <2>3. Total(g, K) = 0
    <3> HIDE DEF g
    <3> QED
      BY <2>2, TotalIsZero
  <2> QED
    BY <2>3, TotalEmpty
<1>2. ASSUME NEW J \in SUBSET I, NEW x \in I \ J, J \in P
      PROVE  J \cup {x} \in P
  <2> DEFINE g == part(J)
             g2 == part(J \cup {x})
             mine == {i \in J : h[i] = h[x]}
             mine2 == {i \in J \cup {x} : h[i] = h[x]}
  <2>1. IsFiniteSet(J)
    BY FS_Subset
  <2>2. \A k \in K : g[k] \in Int /\ g2[k] \in Int
    <3>1. ASSUME NEW U \in SUBSET I PROVE Total(f, U) \in Int
      <4>1. IsFiniteSet(U)
        BY FS_Subset
      <4> QED
        BY <4>1, TotalInt
    <3>2. \A k \in K : {i \in J : h[i] = k} \in SUBSET I /\ {i \in J \cup {x} : h[i] = k} \in SUBSET I
      OBVIOUS
    <3>3. \A k \in K : Total(f, {i \in J : h[i] = k}) \in Int /\ Total(f, {i \in J \cup {x} : h[i] = k}) \in Int
      BY <3>1, <3>2
    <3> QED
      BY <3>3
  <2>3. \A k \in K \ {h[x]} : g[k] = g2[k]
    <3>1. \A k \in K \ {h[x]} : {i \in J : h[i] = k} = {i \in J \cup {x} : h[i] = k}
      OBVIOUS
    <3> QED
      BY <3>1, Zenon
  <2>4. g2[h[x]] = g[h[x]] + f[x]
    <3>1. mine2 = mine \cup {x} /\ x \notin mine /\ mine \subseteq I
      OBVIOUS
    <3>2. IsFiniteSet(mine)
      BY FS_Subset
    <3>3. Total(f, mine \cup {x}) = Total(f, mine) + f[x]
      <4> HIDE DEF mine
      <4> QED
        BY <3>1, <3>2, TotalAdd
    <3>4. Total(f, mine2) = Total(f, mine \cup {x})
      BY <3>1, Zenon
    <3>5. g[h[x]] = Total(f, mine) /\ g2[h[x]] = Total(f, mine2)
      OBVIOUS
    <3> QED
      BY <3>3, <3>4, <3>5
  <2>5. Total(g2, K) = Total(g, K) + (g2[h[x]] - g[h[x]])
    <3>1. h[x] \in K
      OBVIOUS
    <3> HIDE DEF g, g2
    <3> QED
      BY <2>2, <2>3, <3>1, TotalChange
  <2>6. Total(f, J \cup {x}) = Total(f, J) + f[x]
    BY <2>1, TotalAdd
  <2>7. Total(g, K) \in Int
    <3> HIDE DEF g
    <3> QED
      BY <2>2, TotalInt
  <2>8. g[h[x]] \in Int /\ f[x] \in Int
    BY <2>2
  <2>9. Total(f, J) = Total(g, K)
    BY <1>2
  <2>10. Total(f, J \cup {x}) = Total(g2, K)
    <3> HIDE DEF g, g2
    <3> QED
      BY <2>4, <2>5, <2>6, <2>7, <2>8, <2>9
  <2> QED
    BY <2>10
<1>3. I \in P
  <2> HIDE DEF P
  <2> QED
    BY <1>1, <1>2, SubsetInduction
<1> QED
  BY <1>3

-----------------------------------------------------------------------------
\* The values that a variable takes over a loop of additions.

IsAccumulation(f, n, a) == a = [k \in 0..n |-> IF k = 0 THEN 0 ELSE a[k - 1] + f[k]]

\* It starts at 0 and adds a term per turn.
LEMMA AccumulatedUnfolds ==
  ASSUME NEW f, NEW n \in Nat, \A k \in 1..n : f[k] \in Int
  PROVE  /\ DOMAIN Accumulated(f, n) = 0..n
         /\ Accumulated(f, n)[0] = 0
         /\ \A k \in 1..n : Accumulated(f, n)[k] = Accumulated(f, n)[k - 1] + f[k]
<1> DEFINE t == [k \in 0..n |-> Total(f, 1..k)]
<1>1. t[0] = 0
  <2>1. 1..0 = {}
    OBVIOUS
  <2>2. Total(f, 1..0) = 0
    BY <2>1, TotalEmpty, Zenon
  <2> QED
    BY <2>2
<1>2. \A k \in 1..n : t[k] = t[k - 1] + f[k]
  <2> SUFFICES ASSUME NEW k \in 1..n PROVE t[k] = t[k - 1] + f[k]
    OBVIOUS
  <2>1. 1..k = (1..k - 1) \cup {k} /\ k \notin 1..k - 1 /\ k - 1 \in 0..n /\ k \in 0..n
    OBVIOUS
  <2>2. IsFiniteSet(1..k - 1)
    BY FS_Interval
  <2>3. Total(f, (1..k - 1) \cup {k}) = Total(f, 1..k - 1) + f[k]
    <3>1. \A x \in (1..k - 1) \cup {k} : f[x] \in Int
      OBVIOUS
    <3> HIDE DEF t
    <3> QED
      BY <2>1, <2>2, <3>1, TotalAdd, Zenon
  <2>4. Total(f, 1..k) = Total(f, (1..k - 1) \cup {k})
    BY <2>1, Zenon
  <2> QED
    BY <2>1, <2>3, <2>4
<1>3. IsAccumulation(f, n, t)
  <2>1. t = [k \in 0..n |-> t[k]]
    OBVIOUS
  <2> HIDE DEF t
  <2>2. \A k \in 0..n : t[k] = IF k = 0 THEN 0 ELSE t[k - 1] + f[k]
    BY <1>1, <1>2
  <2>3. [k \in 0..n |-> t[k]] = [k \in 0..n |-> IF k = 0 THEN 0 ELSE t[k - 1] + f[k]]
    BY <2>2
  <2> QED
    BY <2>1, <2>3 DEF IsAccumulation
<1>4. IsAccumulation(f, n, CHOOSE a : IsAccumulation(f, n, a))
  <2> HIDE DEF t
  <2> QED
    BY <1>3
<1>5. Accumulated(f, n) = CHOOSE a : IsAccumulation(f, n, a)
  BY DEF Accumulated, IsAccumulation
<1>6. IsAccumulation(f, n, Accumulated(f, n))
  BY <1>4, <1>5
<1> DEFINE b == Accumulated(f, n)
<1> HIDE DEF b
<1>7. b = [k \in 0..n |-> IF k = 0 THEN 0 ELSE b[k - 1] + f[k]]
  BY <1>6 DEF IsAccumulation, b
<1>8. DOMAIN b = 0..n /\ b[0] = 0 /\ \A k \in 1..n : b[k] = b[k - 1] + f[k]
  BY <1>7
<1> QED
  BY <1>8 DEF b

\* Its values are the sums of the terms so far.
LEMMA AccumulatedIsTotal ==
  ASSUME NEW f, NEW n \in Nat, \A k \in 1..n : f[k] \in Int
  PROVE  \A k \in 0..n : Accumulated(f, n)[k] = Total(f, 1..k)
<1> DEFINE a == Accumulated(f, n)
           P == {k \in 0..n : a[k] = Total(f, 1..k)}
<1>1. 0 \in P
  <2>1. 1..0 = {}
    OBVIOUS
  <2>2. Total(f, 1..0) = 0
    BY <2>1, TotalEmpty, Zenon
  <2> QED
    BY <2>2, AccumulatedUnfolds
<1>2. ASSUME NEW k \in 0..n - 1, k \in P PROVE k + 1 \in P
  <2>1. 1..k + 1 = (1..k) \cup {k + 1} /\ k + 1 \notin 1..k /\ k + 1 \in 1..n /\ k + 1 - 1 = k
    OBVIOUS
  <2>2. IsFiniteSet(1..k)
    BY FS_Interval
  <2>3. Total(f, (1..k) \cup {k + 1}) = Total(f, 1..k) + f[k + 1]
    <3>1. \A x \in (1..k) \cup {k + 1} : f[x] \in Int
      OBVIOUS
    <3> QED
      BY <2>1, <2>2, <3>1, TotalAdd, Zenon
  <2>4. Total(f, 1..k + 1) = Total(f, (1..k) \cup {k + 1})
    BY <2>1, Zenon
  <2>5. a[k + 1] = a[k] + f[k + 1]
    BY <2>1, AccumulatedUnfolds
  <2> QED
    BY <1>2, <2>1, <2>3, <2>4, <2>5
<1>3. \A k \in 0..n : k \in P
  <2> HIDE DEF P
  <2> QED
    BY <1>1, <1>2, RangeInduction
<1> QED
  BY <1>3

-----------------------------------------------------------------------------
LEMMA MaxOfFinite ==
  ASSUME NEW S, IsFiniteSet(S), S # {}, S \subseteq Int
  PROVE  Max(S) \in S /\ \A y \in S : y <= Max(S)
<1> DEFINE P == {T \in SUBSET S : T = {} \/ \E m \in T : \A y \in T : m >= y}
<1>1. ASSUME NEW T \in SUBSET S, NEW x \in S \ T, T \in P PROVE T \cup {x} \in P
  <2>1. CASE T = {}
    BY <2>1
  <2>2. ASSUME NEW m \in T, \A y \in T : m >= y
        PROVE  \E n \in T \cup {x} : \A y \in T \cup {x} : n >= y
    <3>1. CASE m >= x
      BY <2>2, <3>1
    <3>2. CASE ~(m >= x)
      BY <2>2, <3>2
    <3> QED
      BY <3>1, <3>2
  <2> QED
    BY <1>1, <2>1, <2>2
<1>2. S \in P
  <2>1. {} \in P
    OBVIOUS
  <2> HIDE DEF P
  <2> QED
    BY <1>1, <2>1, SubsetInduction
<1>3. \E m \in S : \A y \in S : m >= y
  BY <1>2
<1>4. Max(S) \in S /\ \A y \in S : Max(S) >= y
  BY <1>3, Zenon DEF Max
<1> QED
  BY <1>4

\* A number of the set that no other is below is its Min.
LEMMA MinIs ==
  ASSUME NEW S, S \subseteq Int, NEW m \in S, \A y \in S : m <= y
  PROVE  Min(S) = m
<1>1. \E n \in S : \A y \in S : n <= y
  OBVIOUS
<1>2. Min(S) \in S /\ \A y \in S : Min(S) <= y
  BY <1>1, Zenon DEF Min
<1>3. \A n \in S : (\A y \in S : n <= y) => n = m
  OBVIOUS
<1> QED
  BY <1>2, <1>3, Zenon

\* A factor keeps an inequality.
LEMMA FactorKeepsOrder ==
  ASSUME NEW a \in Int, NEW b \in Int, NEW c \in Nat, a <= b
  PROVE  c * a <= c * b
OBVIOUS

=============================================================================
