----------------------------- MODULE SumLemmas -----------------------------
(***************************************************************************)
(* Sums of functions over finite sets, as SumFunction of the community     *)
(* modules computes them: element by element, in the order CHOOSE picks.   *)
(* Induction is replaced by a least counterexample among the subsets (the  *)
(* strict subsets of a finite set are well-founded), which needs no        *)
(* operator as a parameter.                                                *)
(***************************************************************************)
EXTENDS Functions, FiniteSetTheorems, TLAPS

Pick(S) == CHOOSE x \in S : TRUE

IsSum(g, f, S) ==
  g = [s \in SUBSET S |-> IF s = {} THEN 0 ELSE f[Pick(s)] + g[s \ {Pick(s)}]]

\* What SumFunctionOnSet means, with its recursive function made explicit.
LEMMA SumIsChosen ==
  ASSUME NEW f, NEW S
  PROVE  SumFunctionOnSet(f, S) = (CHOOSE g : IsSum(g, f, S))[S]
BY DEF SumFunctionOnSet, FoldFunctionOnSet, MapThenFoldSet, IsSum, Pick

\* Pick finds an element where there is one.
LEMMA PickIsIn ==
  ASSUME NEW S, S # {}
  PROVE  Pick(S) \in S
BY DEF Pick

\* Of a non-empty collection of subsets of a finite set, one is least.
LEMMA LeastSubset ==
  ASSUME NEW S, IsFiniteSet(S), NEW T, T \subseteq SUBSET S, T # {}
  PROVE  \E s \in T : \A r \in T : r \subseteq s => r = s
<1>1. IsWellFoundedOn(StrictSubsetOrdering(S), FiniteSubsetsOf(S))
  BY FS_StrictSubsetOrderingWellFounded
<1>2. IsWellFoundedOn(StrictSubsetOrdering(S), SUBSET S)
  BY <1>1, FS_FiniteSubsetsOfFinite
<1>3. \E s \in T : \A r \in T : ~ (<<r, s>> \in StrictSubsetOrdering(S))
  BY <1>2, WFMin
<1> QED
  BY <1>3 DEF StrictSubsetOrdering

\* Partial sums over a subset are the partial sums over the whole set.
LEMMA SumIsUnique ==
  ASSUME NEW S, IsFiniteSet(S), NEW f, NEW R \in SUBSET S,
         NEW g, IsSum(g, f, S), NEW h, IsSum(h, f, R)
  PROVE  \A s \in SUBSET R : g[s] = h[s]
<1> DEFINE Differ == {s \in SUBSET R : g[s] # h[s]}
<1> SUFFICES ASSUME Differ # {} PROVE FALSE
  OBVIOUS
<1>1. PICK s \in Differ : \A r \in Differ : r \subseteq s => r = s
  <2>1. IsFiniteSet(R) /\ Differ \subseteq SUBSET R
    BY FS_Subset
  <2> HIDE DEF Differ
  <2> QED
    BY <2>1, LeastSubset
<1>2. s # {} /\ s \in SUBSET R /\ s \in SUBSET S
  BY DEF IsSum
<1>3. g[s \ {Pick(s)}] = h[s \ {Pick(s)}]
  BY <1>1, <1>2, PickIsIn
<1>4. /\ g[s] = f[Pick(s)] + g[s \ {Pick(s)}]
      /\ h[s] = f[Pick(s)] + h[s \ {Pick(s)}]
  BY <1>2 DEF IsSum
<1> QED
  BY <1>1, <1>3, <1>4

\* The recursion over subsets is solvable.
LEMMA SumExists ==
  ASSUME NEW S, IsFiniteSet(S), NEW f
  PROVE  \E g : IsSum(g, f, S)
<1> DEFINE None == {s \in SUBSET S : ~ \E g : IsSum(g, f, s)}
<1> SUFFICES ASSUME None # {} PROVE FALSE
  OBVIOUS
<1>1. PICK s \in None : \A r \in None : r \subseteq s => r = s
  <2>1. None \subseteq SUBSET S
    OBVIOUS
  <2> HIDE DEF None
  <2> QED
    BY <2>1, LeastSubset
<1> DEFINE G(r) == CHOOSE g : IsSum(g, f, r)
           g == [r \in SUBSET s |-> IF r = {} THEN 0 ELSE f[Pick(r)] + G(r \ {Pick(r)})[r \ {Pick(r)}]]
<1>2. \A r \in SUBSET s : r # s => IsSum(G(r), f, r)
  BY <1>1
<1>3. ASSUME NEW r \in SUBSET s, r # {}
      PROVE  G(r \ {Pick(r)})[r \ {Pick(r)}] = g[r \ {Pick(r)}]
  <2> DEFINE q == r \ {Pick(r)}
  <2>1. q # s /\ q \in SUBSET s
    BY <1>3, PickIsIn
  <2>2. IsSum(G(q), f, q)
    BY <1>2, <2>1
  <2>3. CASE q = {}
    BY <2>2, <2>3 DEF IsSum
  <2>4. CASE q # {}
    <3> DEFINE t == q \ {Pick(q)}
    <3>1. t # s /\ t \in SUBSET s /\ t \in SUBSET q
      BY <2>1, <2>4, PickIsIn
    <3>2. G(q)[q] = f[Pick(q)] + G(q)[t]
      BY <2>2, <2>4 DEF IsSum
    <3>3. G(q)[t] = G(t)[t]
      <4>1. IsFiniteSet(q)
        BY <2>1, FS_Subset
      <4>2. IsSum(G(t), f, t)
        BY <1>2, <3>1
      <4> QED
        BY <2>2, <3>1, <4>1, <4>2, SumIsUnique
    <3>4. g[q] = f[Pick(q)] + G(t)[t]
      BY <2>1, <2>4
    <3> QED
      BY <3>2, <3>3, <3>4
  <2> QED
    BY <2>3, <2>4
<1>4. g = [r \in SUBSET s |-> IF r = {} THEN 0 ELSE f[Pick(r)] + g[r \ {Pick(r)}]]
  <2>1. \A r \in SUBSET s :
          (IF r = {} THEN 0 ELSE f[Pick(r)] + G(r \ {Pick(r)})[r \ {Pick(r)}])
          = IF r = {} THEN 0 ELSE f[Pick(r)] + g[r \ {Pick(r)}]
    <3> HIDE DEF g, G
    <3> QED BY <1>3
  <2> DEFINE k == [r \in SUBSET s |-> IF r = {} THEN 0 ELSE f[Pick(r)] + g[r \ {Pick(r)}]]
  <2>2. \A r \in SUBSET s : k[r] = IF r = {} THEN 0 ELSE f[Pick(r)] + g[r \ {Pick(r)}]
    <3> HIDE DEF g
    <3> QED OBVIOUS
  <2>3. \A r \in SUBSET s : g[r] = IF r = {} THEN 0 ELSE f[Pick(r)] + G(r \ {Pick(r)})[r \ {Pick(r)}]
    <3> HIDE DEF G
    <3> QED OBVIOUS
  <2>4. g = [r \in SUBSET s |-> g[r]]
    <3> HIDE DEF G
    <3> QED OBVIOUS
  <2>5. k = [r \in SUBSET s |-> k[r]]
    <3> HIDE DEF g
    <3> QED OBVIOUS
  <2>6. \A r \in SUBSET s : g[r] = k[r]
    <3> HIDE DEF g, k, G
    <3> QED BY <2>1, <2>2, <2>3
  <2>7. g = k
    <3> HIDE DEF g, k
    <3> QED BY <2>4, <2>5, <2>6
  <2> QED
    BY <2>7, Zenon
<1>5. IsSum(g, f, s)
  BY <1>4 DEF IsSum
<1> QED
  BY <1>1, <1>5

\* So the sum follows its recursion.
LEMMA SumRecurs ==
  ASSUME NEW S, IsFiniteSet(S), NEW f
  PROVE  SumFunctionOnSet(f, S) =
           IF S = {} THEN 0 ELSE f[Pick(S)] + SumFunctionOnSet(f, S \ {Pick(S)})
<1> DEFINE g == CHOOSE g : IsSum(g, f, S)
           R == S \ {Pick(S)}
           h == CHOOSE h : IsSum(h, f, R)
<1>1. IsSum(g, f, S)
  BY SumExists
<1>2. IsFiniteSet(R) /\ R \in SUBSET S
  BY FS_Subset
<1>3. IsSum(h, f, R)
  <2> HIDE DEF R
  <2> QED BY <1>2, SumExists
<1>4. SumFunctionOnSet(f, S) = g[S] /\ SumFunctionOnSet(f, R) = h[R]
  BY SumIsChosen
<1>5. g[R] = h[R]
  <2> HIDE DEF g, h, R
  <2> QED BY <1>1, <1>2, <1>3, SumIsUnique
<1>6. g[S] = IF S = {} THEN 0 ELSE f[Pick(S)] + g[R]
  <2> HIDE DEF g
  <2> QED BY <1>1 DEF IsSum
<1> QED
  <2> HIDE DEF g, h, R
  <2>1. SumFunctionOnSet(f, S) = IF S = {} THEN 0 ELSE f[Pick(S)] + SumFunctionOnSet(f, R)
    BY <1>4, <1>5, <1>6
  <2> QED BY <2>1 DEF R

\* Nothing sums to zero.
LEMMA SumOfNone ==
  ASSUME NEW f
  PROVE  SumFunctionOnSet(f, {}) = 0
BY SumRecurs, FS_EmptySet

\* Integers sum to an integer.
LEMMA SumIsInt ==
  ASSUME NEW S, IsFiniteSet(S), NEW f, \A x \in S : f[x] \in Int
  PROVE  SumFunctionOnSet(f, S) \in Int
<1> DEFINE Bad == {s \in SUBSET S : SumFunctionOnSet(f, s) \notin Int}
<1> SUFFICES ASSUME Bad # {} PROVE FALSE
  BY DEF Bad
<1>1. PICK s \in Bad : \A r \in Bad : r \subseteq s => r = s
  <2>1. Bad \subseteq SUBSET S
    OBVIOUS
  <2> HIDE DEF Bad
  <2> QED BY <2>1, LeastSubset
<1>2. IsFiniteSet(s) /\ s \subseteq S
  BY FS_Subset
<1>3. SumFunctionOnSet(f, s) = IF s = {} THEN 0 ELSE f[Pick(s)] + SumFunctionOnSet(f, s \ {Pick(s)})
  BY <1>2, SumRecurs
<1>4. s # {} => SumFunctionOnSet(f, s \ {Pick(s)}) \in Int
  BY <1>1, PickIsIn
<1>5. s # {} => f[Pick(s)] \in Int
  BY <1>2, PickIsIn
<1>6. SumFunctionOnSet(f, s) \in Int
  BY <1>3, <1>4, <1>5
<1> QED
  BY <1>6

\* Functions that agree on a set have the same sum over it.
LEMMA SumAgrees ==
  ASSUME NEW S, IsFiniteSet(S), NEW f, NEW g, \A x \in S : f[x] = g[x]
  PROVE  SumFunctionOnSet(f, S) = SumFunctionOnSet(g, S)
<1> DEFINE Bad == {s \in SUBSET S : SumFunctionOnSet(f, s) # SumFunctionOnSet(g, s)}
<1> SUFFICES ASSUME Bad # {} PROVE FALSE
  BY DEF Bad
<1>1. PICK s \in Bad : \A r \in Bad : r \subseteq s => r = s
  <2>1. Bad \subseteq SUBSET S
    OBVIOUS
  <2> HIDE DEF Bad
  <2> QED BY <2>1, LeastSubset
<1>2. IsFiniteSet(s) /\ s \subseteq S
  BY FS_Subset
<1>3. SumFunctionOnSet(f, s) = IF s = {} THEN 0 ELSE f[Pick(s)] + SumFunctionOnSet(f, s \ {Pick(s)})
  BY <1>2, SumRecurs
<1>4. SumFunctionOnSet(g, s) = IF s = {} THEN 0 ELSE g[Pick(s)] + SumFunctionOnSet(g, s \ {Pick(s)})
  BY <1>2, SumRecurs
<1>5. s # {} => SumFunctionOnSet(f, s \ {Pick(s)}) = SumFunctionOnSet(g, s \ {Pick(s)})
  BY <1>1, PickIsIn
<1>6. s # {} => f[Pick(s)] = g[Pick(s)]
  BY <1>2, PickIsIn
<1> QED
  BY <1>1, <1>3, <1>4, <1>5, <1>6

\* Any element may be taken first.
LEMMA SumWithout ==
  ASSUME NEW S, IsFiniteSet(S), NEW f, \A x \in S : f[x] \in Int, NEW a \in S
  PROVE  SumFunctionOnSet(f, S) = f[a] + SumFunctionOnSet(f, S \ {a})
<1> DEFINE Fits(s) == \A x \in s : SumFunctionOnSet(f, s) = f[x] + SumFunctionOnSet(f, s \ {x})
           Bad == {s \in SUBSET S : ~Fits(s)}
<1> SUFFICES ASSUME Bad # {} PROVE FALSE
  OBVIOUS
<1>1. PICK s \in Bad : \A r \in Bad : r \subseteq s => r = s
  <2>1. Bad \subseteq SUBSET S
    OBVIOUS
  <2> HIDE DEF Bad
  <2> QED BY <2>1, LeastSubset
<1>2. PICK x \in s : SumFunctionOnSet(f, s) # f[x] + SumFunctionOnSet(f, s \ {x})
  OBVIOUS
<1> DEFINE y == Pick(s)
<1>3. IsFiniteSet(s) /\ s \subseteq S /\ s # {} /\ y \in s
  BY FS_Subset, PickIsIn
<1>4. SumFunctionOnSet(f, s) = f[y] + SumFunctionOnSet(f, s \ {y})
  BY <1>3, SumRecurs
<1> HIDE DEF y
<1>5. x # y
  BY <1>2, <1>4
<1>6. Fits(s \ {x}) /\ Fits(s \ {y})
  BY <1>1, <1>2, <1>3
<1>7. /\ SumFunctionOnSet(f, s \ {x}) = f[y] + SumFunctionOnSet(f, (s \ {x}) \ {y})
      /\ SumFunctionOnSet(f, s \ {y}) = f[x] + SumFunctionOnSet(f, (s \ {y}) \ {x})
  BY <1>3, <1>5, <1>6
<1>8. (s \ {x}) \ {y} = (s \ {y}) \ {x}
  OBVIOUS
<1>9. SumFunctionOnSet(f, (s \ {x}) \ {y}) \in Int
  <2>1. IsFiniteSet((s \ {x}) \ {y})
    BY <1>3, FS_Subset
  <2> QED BY <1>3, <2>1, SumIsInt
<1>10. f[x] \in Int /\ f[y] \in Int
  BY <1>3
<1>11. SumFunctionOnSet(f, s) = f[x] + SumFunctionOnSet(f, s \ {x})
  <2> DEFINE w == SumFunctionOnSet(f, (s \ {x}) \ {y})
  <2>1. SumFunctionOnSet(f, s) = f[y] + (f[x] + w)
    BY <1>4, <1>7, <1>8, Zenon
  <2>2. SumFunctionOnSet(f, s \ {x}) = f[y] + w
    BY <1>7, Zenon
  <2>3. w \in Int
    BY <1>9
  <2> HIDE DEF w
  <2>4. f[y] + (f[x] + w) = f[x] + (f[y] + w)
    BY <1>10, <2>3
  <2> QED BY <2>1, <2>2, <2>4, Zenon
<1> QED
  BY <1>2, <1>11

\* Natural numbers sum to a natural number.
LEMMA SumIsNat ==
  ASSUME NEW S, IsFiniteSet(S), NEW f \in [S -> Nat]
  PROVE  SumFunction(f) \in Nat
<1> DEFINE Bad == {s \in SUBSET S : SumFunctionOnSet(f, s) \notin Nat}
<1>1. Bad = {}
  <2> SUFFICES ASSUME Bad # {} PROVE FALSE
    OBVIOUS
  <2>1. PICK s \in Bad : \A r \in Bad : r \subseteq s => r = s
    <3>1. Bad \subseteq SUBSET S
      OBVIOUS
    <3> HIDE DEF Bad
    <3> QED BY <3>1, LeastSubset
  <2>2. IsFiniteSet(s) /\ s \subseteq S
    BY FS_Subset
  <2>3. SumFunctionOnSet(f, s) = IF s = {} THEN 0 ELSE f[Pick(s)] + SumFunctionOnSet(f, s \ {Pick(s)})
    BY <2>2, SumRecurs
  <2>4. s # {} => SumFunctionOnSet(f, s \ {Pick(s)}) \in Nat /\ f[Pick(s)] \in Nat
    BY <2>1, <2>2, PickIsIn
  <2>5. SumFunctionOnSet(f, s) \in Nat
    BY <2>3, <2>4
  <2> QED
    BY <2>5
<1> QED
  BY <1>1 DEF SumFunction

\* Zeros sum to zero.
LEMMA SumOfZeros ==
  ASSUME NEW S, IsFiniteSet(S), NEW f, f = [x \in S |-> 0]
  PROVE  SumFunction(f) = 0
<1> DEFINE Bad == {s \in SUBSET S : SumFunctionOnSet(f, s) # 0}
<1>1. Bad = {}
  <2> SUFFICES ASSUME Bad # {} PROVE FALSE
    OBVIOUS
  <2>1. PICK s \in Bad : \A r \in Bad : r \subseteq s => r = s
    <3>1. Bad \subseteq SUBSET S
      OBVIOUS
    <3> HIDE DEF Bad
    <3> QED BY <3>1, LeastSubset
  <2>2. IsFiniteSet(s) /\ s \subseteq S
    BY FS_Subset
  <2>3. SumFunctionOnSet(f, s) = IF s = {} THEN 0 ELSE f[Pick(s)] + SumFunctionOnSet(f, s \ {Pick(s)})
    BY <2>2, SumRecurs
  <2>4. s # {} => SumFunctionOnSet(f, s \ {Pick(s)}) = 0 /\ f[Pick(s)] = 0
    BY <2>1, <2>2, PickIsIn
  <2> QED
    BY <2>1, <2>3, <2>4
<1> QED
  BY <1>1 DEF SumFunction

\* A function that changes at one place changes its sum by the difference there.
LEMMA SumChanges ==
  ASSUME NEW S, IsFiniteSet(S), NEW f \in [S -> Int], NEW g \in [S -> Int],
         NEW a \in S, \A x \in S : x # a => f[x] = g[x]
  PROVE  /\ SumFunction(f) \in Int
         /\ SumFunction(g) = SumFunction(f) - f[a] + g[a]
<1>1. IsFiniteSet(S \ {a})
  BY FS_Subset
<1>2. SumFunctionOnSet(f, S \ {a}) = SumFunctionOnSet(g, S \ {a})
  BY <1>1, SumAgrees
<1>3. SumFunctionOnSet(f, S \ {a}) \in Int
  BY <1>1, SumIsInt
<1>4. SumFunctionOnSet(f, S) = f[a] + SumFunctionOnSet(f, S \ {a})
  BY SumWithout
<1>5. SumFunctionOnSet(g, S) = g[a] + SumFunctionOnSet(g, S \ {a})
  BY SumWithout
<1>6. SumFunction(f) = SumFunctionOnSet(f, S) /\ SumFunction(g) = SumFunctionOnSet(g, S)
  BY DEF SumFunction
<1>7. f[a] \in Int /\ g[a] \in Int
  OBVIOUS
<1> QED
  BY <1>2, <1>3, <1>4, <1>5, <1>6, <1>7

\* The same for natural numbers and EXCEPT.
LEMMA SumExcept ==
  ASSUME NEW S, IsFiniteSet(S), NEW f \in [S -> Nat], NEW a \in S, NEW n \in Nat
  PROVE  /\ SumFunction(f) \in Nat
         /\ SumFunction([f EXCEPT ![a] = n]) \in Nat
         /\ SumFunction([f EXCEPT ![a] = n]) = SumFunction(f) - f[a] + n
<1> DEFINE g == [f EXCEPT ![a] = n]
<1>1. /\ g \in [S -> Nat] /\ g[a] = n
      /\ \A x \in S : x # a => f[x] = g[x]
  OBVIOUS
<1>2. f \in [S -> Int] /\ g \in [S -> Int]
  BY <1>1
<1> HIDE DEF g
<1>3. SumFunction(f) \in Nat /\ SumFunction(g) \in Nat
  BY <1>1, SumIsNat
<1>4. SumFunction(g) = SumFunction(f) - f[a] + g[a]
  BY <1>1, <1>2, SumChanges
<1> QED
  BY <1>1, <1>3, <1>4 DEF g
=============================================================================
