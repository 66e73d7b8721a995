----------------------------- MODULE SumsProofs -----------------------------
(***************************************************************************)
(* Lemmas about SumFunctionOnSet.  The function a fold is made of is a     *)
(* CHOOSE of a solution of its recursive equation, so that a solution      *)
(* exists and is unique are the first things to prove, both by induction   *)
(* over the subsets of a finite set.                                       *)
(***************************************************************************)
EXTENDS Functions, Integers, FiniteSetTheorems, TLAPS

-----------------------------------------------------------------------------
(***************************************************************************)
(* Induction over the subsets of a finite set, for a set of subsets        *)
(***************************************************************************)

\* A set of subsets that has a set when it has it short of any one element
\* has every subset of S.
LEMMA SubsetDescent ==
  ASSUME NEW S, IsFiniteSet(S), NEW G,
         \A T \in SUBSET S : (\A x \in T : T \ {x} \in G) => T \in G
  PROVE  \A T \in SUBSET S : T \in G
<1> DEFINE Bad == {T \in SUBSET S : T \notin G}
           R == StrictSubsetOrdering(S)
<1>1. IsWellFoundedOn(R, SUBSET S)
  BY FS_FiniteSubsetsOfFinite, FS_StrictSubsetOrderingWellFounded, Zenon
<1>2. SUFFICES ASSUME Bad # {} PROVE FALSE
  OBVIOUS
<1>3. PICK m \in Bad : \A T \in Bad : <<T, m>> \notin R
  <2>1. Bad \subseteq SUBSET S
    OBVIOUS
  <2>. HIDE DEF Bad, R
  <2>. QED
    BY <1>1, <1>2, <2>1, WFMin, Zenon
<1>4. ASSUME NEW x \in m PROVE m \ {x} \in G
  <2>1. m \ {x} \in SUBSET S /\ <<m \ {x}, m>> \in R
    BY DEF StrictSubsetOrdering
  <2>. QED
    BY <1>3, <2>1
<1>. QED
  BY <1>3, <1>4

\* The usual form: from the empty set, one element more at a time.
LEMMA SubsetInduction ==
  ASSUME NEW S, IsFiniteSet(S), NEW G, {} \in G,
         \A T \in SUBSET S : \A x \in S \ T : T \in G => T \cup {x} \in G
  PROVE  \A T \in SUBSET S : T \in G
<1>1. ASSUME NEW T \in SUBSET S, \A x \in T : T \ {x} \in G PROVE T \in G
  <2>1. CASE T = {}
    BY <2>1
  <2>2. ASSUME NEW x \in T PROVE T \in G
    <3>1. (T \ {x}) \cup {x} = T /\ x \in S \ (T \ {x}) /\ T \ {x} \in SUBSET S
      OBVIOUS
    <3>2. (T \ {x}) \cup {x} \in G
      BY <1>1, <3>1
    <3>. QED
      BY <3>1, <3>2
  <2>. QED
    BY <2>1, <2>2
<1>. QED
  BY <1>1, SubsetDescent
-----------------------------------------------------------------------------
(***************************************************************************)
(* The recursive equation of a sum has exactly one solution                *)
(***************************************************************************)

\* One step of a sum over T: some element, and the rest with h.
Unfold(w, h, T) ==
  IF T = {} THEN 0 ELSE LET x == CHOOSE x \in T : TRUE IN w[x] + h[T \ {x}]

\* h adds up w over the subsets of S.
Adds(w, h, S) ==
  /\ h \in [SUBSET S -> Int]
  /\ h[{}] = 0
  /\ \A T \in SUBSET S : \A x \in S \ T : h[T \cup {x}] = w[x] + h[T]

\* There is a function that adds up.
LEMMA AddsExists ==
  ASSUME NEW D, IsFiniteSet(D), NEW w, \A x \in D : w[x] \in Int
  PROVE  \A S \in SUBSET D : \E h : Adds(w, h, S)
<1> DEFINE G == {S \in SUBSET D : \E h : Adds(w, h, S)}
<1>1. {} \in G
  <2> DEFINE h == [T \in SUBSET {} |-> 0]
  <2>1. Adds(w, h, {})
    BY DEF Adds
  <2>. QED
    BY <2>1
<1>2. ASSUME NEW S \in SUBSET D, NEW y \in D \ S, S \in G PROVE S \cup {y} \in G
  <2>1. PICK h : Adds(w, h, S)
    BY <1>2
  <2> DEFINE g == [T \in SUBSET (S \cup {y}) |-> IF y \in T THEN w[y] + h[T \ {y}] ELSE h[T]]
  <2>2. w[y] \in Int /\ \A T \in SUBSET S : h[T] \in Int
    BY <2>1 DEF Adds
  <2>3. \A T \in SUBSET (S \cup {y}) : T \ {y} \in SUBSET S /\ (y \notin T => T \in SUBSET S)
    OBVIOUS
  <2>4. g \in [SUBSET (S \cup {y}) -> Int]
    BY <2>2, <2>3
  <2>5. g[{}] = 0
    BY <2>1 DEF Adds
  <2>6. \A T \in SUBSET (S \cup {y}) : g[T] = IF y \in T THEN w[y] + h[T \ {y}] ELSE h[T]
    OBVIOUS
  <2>. HIDE DEF g
  <2>7. ASSUME NEW T \in SUBSET (S \cup {y}), NEW x \in (S \cup {y}) \ T
        PROVE  g[T \cup {x}] = w[x] + g[T]
    <3>0. w[x] \in Int /\ T \cup {x} \in SUBSET (S \cup {y})
      OBVIOUS
    <3>1. CASE x = y
      <4>1. (T \cup {x}) \ {y} = T /\ T \in SUBSET S /\ y \notin T
        BY <3>1
      <4>. QED
        BY <2>6, <3>0, <3>1, <4>1
    <3>2. CASE x # y /\ y \in T
      <4>1. (T \cup {x}) \ {y} = (T \ {y}) \cup {x} /\ x \in S \ (T \ {y})
        BY <3>2
      <4>2. h[(T \ {y}) \cup {x}] = w[x] + h[T \ {y}]
        BY <2>1, <2>3, <4>1 DEF Adds
      <4>3. g[T \cup {x}] = w[y] + (w[x] + h[T \ {y}]) /\ g[T] = w[y] + h[T \ {y}]
        BY <2>6, <3>0, <3>2, <4>1, <4>2
      <4>4. h[T \ {y}] \in Int
        BY <2>2, <2>3
      <4>. QED
        BY <2>2, <3>0, <4>3, <4>4
    <3>3. CASE x # y /\ y \notin T
      <4>1. x \in S \ T /\ T \in SUBSET S /\ y \notin T \cup {x}
        BY <3>3
      <4>2. h[T \cup {x}] = w[x] + h[T]
        BY <2>1, <4>1 DEF Adds
      <4>. QED
        BY <2>6, <3>0, <3>3, <4>1, <4>2
    <3>. QED
      BY <3>1, <3>2, <3>3
  <2>8. Adds(w, g, S \cup {y})
    BY <2>4, <2>5, <2>7 DEF Adds
  <2>. QED
    BY <2>8
<1>. HIDE DEF G
<1>3. \A T \in SUBSET D : \A x \in D \ T : T \in G => T \cup {x} \in G
  BY <1>2
<1>4. \A S \in SUBSET D : S \in G
  BY <1>1, <1>3, SubsetInduction
<1>. QED
  BY <1>4 DEF G

LEMMA ChosenElement ==
  ASSUME NEW T, T # {}
  PROVE  (CHOOSE x \in T : TRUE) \in T
OBVIOUS

\* A function that adds up solves the equation ...
LEMMA AddsUnfolds ==
  ASSUME NEW S, NEW w, \A x \in S : w[x] \in Int, NEW h, Adds(w, h, S)
  PROVE  h = [T \in SUBSET S |-> Unfold(w, h, T)]
<1>1. ASSUME NEW T \in SUBSET S PROVE h[T] = Unfold(w, h, T)
  <2>1. CASE T = {}
    BY <2>1 DEF Adds, Unfold
  <2>2. CASE T # {}
    <3> DEFINE x == CHOOSE x \in T : TRUE
    <3>1. x \in T
      BY <2>2, ChosenElement
    <3>. HIDE DEF x
    <3>2. T \ {x} \in SUBSET S /\ x \in S \ (T \ {x}) /\ (T \ {x}) \cup {x} = T
      BY <3>1
    <3>3. h[(T \ {x}) \cup {x}] = w[x] + h[T \ {x}]
      BY <3>2 DEF Adds
    <3>4. h[T] = w[x] + h[T \ {x}]
      BY <3>2, <3>3
    <3>. QED
      BY <2>2, <3>4 DEF Unfold, x
  <2>. QED
    BY <2>1, <2>2
<1>2. h = [T \in SUBSET S |-> h[T]]
  BY DEF Adds
<1>. QED
  BY <1>1, <1>2

\* ... and is its only solution.
LEMMA UnfoldUnique ==
  ASSUME NEW S, IsFiniteSet(S), NEW w, \A x \in S : w[x] \in Int, NEW h, Adds(w, h, S),
         NEW g, g = [T \in SUBSET S |-> Unfold(w, g, T)]
  PROVE  g[S] = h[S]
<1> DEFINE G == {T \in SUBSET S : g[T] = h[T]}
<1>1. ASSUME NEW T \in SUBSET S, \A x \in T : T \ {x} \in G PROVE T \in G
  <2>1. g[T] = Unfold(w, g, T) /\ h[T] = Unfold(w, h, T)
    BY AddsUnfolds
  <2>2. CASE T = {}
    BY <2>1, <2>2 DEF Unfold
  <2>3. CASE T # {}
    <3> DEFINE x == CHOOSE x \in T : TRUE
    <3>1. x \in T
      BY <2>3, ChosenElement
    <3>2. g[T] = w[x] + g[T \ {x}] /\ h[T] = w[x] + h[T \ {x}]
      BY <2>1, <2>3 DEF Unfold
    <3>. QED
      BY <1>1, <3>1, <3>2
  <2>. QED
    BY <2>2, <2>3
<1>. HIDE DEF G
<1>2. \A T \in SUBSET S : T \in G
  BY <1>1, SubsetDescent
<1>. QED
  BY <1>2 DEF G

\* What SumFunctionOnSet computes.
LEMMA SumIsUnique ==
  ASSUME NEW S, IsFiniteSet(S), NEW w, \A x \in S : w[x] \in Int, NEW h, Adds(w, h, S)
  PROVE  SumFunctionOnSet(w, S) = h[S]
<1> DEFINE P(g) == g = [T \in SUBSET S |-> Unfold(w, g, T)]
           iter == CHOOSE g : P(g)
<1>1. P(h)
  BY AddsUnfolds
<1>2. P(iter)
  <2>. HIDE DEF P
  <2>. QED
    BY <1>1
<1>3. SumFunctionOnSet(w, S) = iter[S]
  BY DEF SumFunctionOnSet, FoldFunctionOnSet, MapThenFoldSet, Unfold
<1>4. iter = [T \in SUBSET S |-> Unfold(w, iter, T)]
  BY <1>2
<1>. HIDE DEF iter
<1>. QED
  BY <1>3, <1>4, UnfoldUnique

-----------------------------------------------------------------------------
(***************************************************************************)
(* The lemmas the balances use                                             *)
(***************************************************************************)

LEMMA SumEmpty ==
  ASSUME NEW w
  PROVE  SumFunctionOnSet(w, {}) = 0
<1>1. IsFiniteSet({}) /\ \A x \in {} : w[x] \in Int
  BY FS_EmptySet
<1>2. PICK h : Adds(w, h, {})
  BY <1>1, AddsExists, {} \in SUBSET {}
<1>. QED
  BY <1>1, <1>2, SumIsUnique DEF Adds

LEMMA SumType ==
  ASSUME NEW S, IsFiniteSet(S), NEW w, \A x \in S : w[x] \in Int
  PROVE  SumFunctionOnSet(w, S) \in Int
<1>1. PICK h : Adds(w, h, S)
  BY AddsExists, S \in SUBSET S
<1>2. h[S] \in Int
  BY <1>1 DEF Adds
<1>. QED
  BY <1>1, <1>2, SumIsUnique

\* One element more.
LEMMA SumAdd ==
  ASSUME NEW S, IsFiniteSet(S), NEW x, x \notin S, NEW w, w[x] \in Int,
         \A y \in S : w[y] \in Int
  PROVE  SumFunctionOnSet(w, S \cup {x}) = SumFunctionOnSet(w, S) + w[x]
<1> DEFINE D == S \cup {x}
<1>1. IsFiniteSet(D)
  BY FS_AddElement
<1>2. \A y \in D : w[y] \in Int
  OBVIOUS
<1>3. S \in SUBSET D /\ D \in SUBSET D
  OBVIOUS
<1>4. PICK h : Adds(w, h, D)
  <2>. HIDE DEF D
  <2>. QED
    BY <1>1, <1>2, <1>3, AddsExists
<1>5. PICK g : Adds(w, g, S)
  <2>. HIDE DEF D
  <2>. QED
    BY AddsExists, S \in SUBSET S
<1>6. h[D] = w[x] + h[S]
  BY <1>4 DEF Adds
<1>7. SumFunctionOnSet(w, D) = h[D]
  <2>. HIDE DEF D
  <2>. QED
    BY <1>1, <1>2, <1>4, SumIsUnique
<1>8. h[S] = SumFunctionOnSet(w, S)
  <2> DEFINE k == [T \in SUBSET S |-> h[T]]
  <2>1. Adds(w, k, S)
    <3>1. \A T \in SUBSET S : T \in SUBSET D /\ h[T] \in Int
      BY <1>4 DEF Adds
    <3>2. \A T \in SUBSET S : \A y \in S \ T : h[T \cup {y}] = w[y] + h[T]
      BY <1>4 DEF Adds
    <3>3. k[{}] = 0
      BY <1>4 DEF Adds
    <3>. QED
      BY <3>1, <3>2, <3>3 DEF Adds
  <2>2. k[S] = h[S]
    OBVIOUS
  <2>. HIDE DEF k
  <2>. QED
    BY <2>1, <2>2, SumIsUnique
<1>9. h[S] \in Int /\ w[x] \in Int
  BY <1>4 DEF Adds
<1>. QED
  BY <1>6, <1>7, <1>8, <1>9

\* Larger sets of natural numbers have larger sums.
LEMMA SumMonotone ==
  ASSUME NEW T, IsFiniteSet(T), NEW S \in SUBSET T, NEW w, \A x \in T : w[x] \in Nat
  PROVE  SumFunctionOnSet(w, S) <= SumFunctionOnSet(w, T)
<1> DEFINE G == {U \in SUBSET T : SumFunctionOnSet(w, S) <= SumFunctionOnSet(w, S \cup U)}
<1>0. \A U \in SUBSET T : IsFiniteSet(S \cup U) /\ SumFunctionOnSet(w, S \cup U) \in Int
  <2>. TAKE U \in SUBSET T
  <2>1. S \cup U \in SUBSET T
    OBVIOUS
  <2>2. IsFiniteSet(S \cup U)
    BY <2>1, FS_Subset
  <2>3. \A x \in S \cup U : w[x] \in Int
    BY <2>1
  <2>. QED
    BY <2>2, <2>3, SumType
<1>1. {} \in G
  <2>1. S \cup {} = S /\ {} \in SUBSET T
    OBVIOUS
  <2>2. SumFunctionOnSet(w, S \cup {}) \in Int
    BY <1>0, <2>1
  <2> DEFINE n == SumFunctionOnSet(w, S)
  <2>3. n \in Int /\ n <= n
    BY <2>1, <2>2
  <2>. QED
    BY <2>1, <2>3
<1>2. ASSUME NEW U \in SUBSET T, NEW x \in T \ U, U \in G PROVE U \cup {x} \in G
  <2>1. CASE x \in S
    <3>1. S \cup (U \cup {x}) = S \cup U /\ U \cup {x} \in SUBSET T
      BY <2>1
    <3>. QED
      BY <1>2, <3>1
  <2>2. CASE x \notin S
    <3>1. /\ S \cup (U \cup {x}) = (S \cup U) \cup {x} /\ U \cup {x} \in SUBSET T
          /\ x \notin S \cup U
      BY <2>2
    <3>2. \A y \in S \cup U : w[y] \in Int
      OBVIOUS
    <3>3. w[x] \in Nat
      OBVIOUS
    <3>4. SumFunctionOnSet(w, (S \cup U) \cup {x}) = SumFunctionOnSet(w, S \cup U) + w[x]
      BY <1>0, <3>1, <3>2, <3>3, SumAdd
    <3>5. SumFunctionOnSet(w, S) \in Int
      <4>1. S \cup {} = S /\ {} \in SUBSET T
        OBVIOUS
      <4>2. SumFunctionOnSet(w, S \cup {}) \in Int
        BY <1>0, <4>1
      <4>. QED
        BY <4>1, <4>2
    <3>6. /\ SumFunctionOnSet(w, S \cup U) \in Int
          /\ SumFunctionOnSet(w, S) <= SumFunctionOnSet(w, S \cup U)
      BY <1>0, <1>2
    <3>7. SumFunctionOnSet(w, S) <= SumFunctionOnSet(w, S \cup (U \cup {x}))
      BY <3>1, <3>3, <3>4, <3>5, <3>6
    <3>. QED
      BY <3>1, <3>7
  <2>. QED
    BY <2>1, <2>2
<1>. HIDE DEF G
<1>3. T \in G
  BY <1>1, <1>2, SubsetInduction, T \in SUBSET T
<1>. QED
  BY <1>3, S \cup T = T DEF G

\* A sum depends on the numbers that are added only.
LEMMA SumAgrees ==
  ASSUME NEW S, IsFiniteSet(S), NEW w, NEW v,
         \A x \in S : w[x] \in Int /\ w[x] = v[x]
  PROVE  SumFunctionOnSet(w, S) = SumFunctionOnSet(v, S)
<1>1. PICK h : Adds(w, h, S)
  BY AddsExists, S \in SUBSET S
<1>2. Adds(v, h, S)
  BY <1>1 DEF Adds
<1>. QED
  BY <1>1, <1>2, SumIsUnique
=============================================================================
