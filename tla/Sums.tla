-------------------------------- MODULE Sums --------------------------------
(***************************************************************************)
(* What MapThenSumSet of the community modules computes: the sums of       *)
(* used_storage.  The induction over finite sets is done by hand, with a   *)
(* minimal counterexample.                                                 *)
(***************************************************************************)
EXTENDS FiniteSetsExt, FiniteSetTheorems, TLAPS

\* The sum of w's values over S, as the library has it.
Total(w, S) == MapThenSumSet(LAMBDA x : w[x], S)

First(s) == CHOOSE x \in s : TRUE

\* g sums w over each subset of T: the library's recursive function.
IsSum(g, w, T) ==
  g = [s \in SUBSET T |-> IF s = {} THEN 0 ELSE w[First(s)] + g[s \ {First(s)}]]

-----------------------------------------------------------------------------
\* Among subsets of a finite set there is a minimal one.
LEMMA MinimalSubset ==
  ASSUME NEW S, IsFiniteSet(S), NEW B, B \subseteq SUBSET S, B # {}
  PROVE  \E s \in B : \A t \in B : t \subseteq s => t = s
<1>1. IsWellFoundedOn(StrictSubsetOrdering(S), SUBSET S)
  BY FS_StrictSubsetOrderingWellFounded, FS_FiniteSubsetsOfFinite
<1>2. PICK s \in B : \A t \in B : <<t, s>> \notin StrictSubsetOrdering(S)
  BY <1>1, WFMin
<1> QED
  BY <1>2 DEF StrictSubsetOrdering

LEMMA FirstIsIn == ASSUME NEW s, s # {} PROVE First(s) \in s
BY DEF First

\* Two such functions agree on what both sum.
LEMMA SumUnique ==
  ASSUME NEW S, IsFiniteSet(S), NEW w, NEW A, NEW B, S \subseteq A, S \subseteq B,
         NEW g, NEW h, IsSum(g, w, A), IsSum(h, w, B)
  PROVE  g[S] = h[S]
<1> DEFINE Bad == {s \in SUBSET S : g[s] # h[s]}
<1> SUFFICES ASSUME Bad # {} PROVE FALSE
  OBVIOUS
<1>0. Bad \subseteq SUBSET S
  OBVIOUS
<1>1. PICK s \in Bad : \A t \in Bad : t \subseteq s => t = s
  <2> HIDE DEF Bad
  <2> QED
    BY <1>0, MinimalSubset
<1>2. s \in SUBSET A /\ s \in SUBSET B
  OBVIOUS
<1>3. CASE s = {}
  BY <1>2, <1>3 DEF IsSum
<1>4. CASE s # {}
  <2> DEFINE rest == s \ {First(s)}
  <2>1. rest \subseteq s /\ rest # s
    BY <1>4, FirstIsIn
  <2>2. g[rest] = h[rest]
    BY <1>1, <2>1
  <2>3. g[s] = w[First(s)] + g[rest] /\ h[s] = w[First(s)] + h[rest]
    BY <1>2, <1>4 DEF IsSum
  <2> QED
    BY <2>2, <2>3
<1> QED
  BY <1>3, <1>4

\* There is one.
LEMMA SumExists ==
  ASSUME NEW S, IsFiniteSet(S), NEW w
  PROVE  \E g : IsSum(g, w, S)
<1> DEFINE Bad == {s \in SUBSET S : ~\E g : IsSum(g, w, s)}
<1> SUFFICES ASSUME Bad # {} PROVE FALSE
  OBVIOUS
<1>0. Bad \subseteq SUBSET S
  OBVIOUS
<1>1. PICK s \in Bad : \A t \in Bad : t \subseteq s => t = s
  <2> HIDE DEF Bad
  <2> QED
    BY <1>0, MinimalSubset
<1> DEFINE
  Sum(t) == (CHOOSE g : IsSum(g, w, t))[t]
  next(t) == IF t = {} THEN 0 ELSE w[First(t)] + Sum(t \ {First(t)})
  f == [t \in SUBSET s |-> next(t)]
<1>2. ASSUME NEW t \in SUBSET s, t # s
      PROVE  IsSum(CHOOSE g : IsSum(g, w, t), w, t)
  <2>1. \E g : IsSum(g, w, t)
    BY <1>1, <1>2
  <2> HIDE DEF Bad
  <2> QED
    BY <2>1
<1>3. ASSUME NEW t \in SUBSET s, t # s PROVE Sum(t) = next(t)
  <2> DEFINE g == CHOOSE g : IsSum(g, w, t)
  <2>1. IsSum(g, w, t)
    BY <1>2, <1>3
  <2>2. CASE t = {}
    BY <2>1, <2>2 DEF IsSum
  <2>3. CASE t # {}
    <3> DEFINE rest == t \ {First(t)}
               h == CHOOSE h : IsSum(h, w, rest)
    <3>1. rest \subseteq t /\ rest \subseteq s /\ rest # s /\ rest \subseteq S
      BY <2>3, FirstIsIn
    <3>2. IsSum(h, w, rest)
      BY <3>1, <1>2
    <3>3. IsFiniteSet(rest)
      BY <3>1, FS_Subset
    <3>4. g[rest] = h[rest]
      <4> HIDE DEF g, h, rest, Bad
      <4> QED
        BY <2>1, <3>1, <3>2, <3>3, SumUnique
    <3>5. g[t] = w[First(t)] + g[rest]
      <4> HIDE DEF g
      <4> QED
        BY <2>1, <2>3 DEF IsSum
    <3> QED
      BY <2>3, <3>4, <3>5
  <2> QED
    BY <2>2, <2>3
<1>4. IsSum(f, w, s)
  <2>1. ASSUME NEW t \in SUBSET s, t # {} PROVE Sum(t \ {First(t)}) = f[t \ {First(t)}]
    <3>1. t \ {First(t)} \in SUBSET s /\ t \ {First(t)} # s
      BY <2>1, FirstIsIn
    <3> HIDE DEF Sum, next
    <3> QED
      BY <3>1, <1>3
  <2> HIDE DEF Sum
  <2> QED
    BY <2>1 DEF IsSum
<1> QED
  BY <1>4

\* The library's sum is what any such function computes.
LEMMA TotalIsSum ==
  ASSUME NEW S, IsFiniteSet(S), NEW w
  PROVE  \E g : IsSum(g, w, S) /\ Total(w, S) = g[S]
<1> DEFINE g == CHOOSE g : IsSum(g, w, S)
<1>1. IsSum(g, w, S)
  BY SumExists
<1>2. Total(w, S) = g[S]
  BY DEF Total, MapThenSumSet, MapThenFoldSet, IsSum, First
<1> QED
  BY <1>1, <1>2
-----------------------------------------------------------------------------
\* The recursion of the library's sum.
LEMMA TotalRecursion ==
  ASSUME NEW S, IsFiniteSet(S), NEW w
  PROVE  Total(w, S) = IF S = {} THEN 0
                       ELSE w[First(S)] + Total(w, S \ {First(S)})
<1>1. PICK g : IsSum(g, w, S) /\ Total(w, S) = g[S]
  BY TotalIsSum
<1>2. CASE S = {}
  BY <1>1, <1>2 DEF IsSum
<1>3. CASE S # {}
  <2> DEFINE rest == S \ {First(S)}
  <2>1. IsFiniteSet(rest) /\ rest \subseteq S
    BY FS_Subset
  <2>2. PICK h : IsSum(h, w, rest) /\ Total(w, rest) = h[rest]
    <3> HIDE DEF rest
    <3> QED
      BY <2>1, TotalIsSum
  <2>3. g[rest] = h[rest]
    <3> HIDE DEF rest
    <3> QED
      BY <1>1, <2>1, <2>2, SumUnique
  <2>4. g[S] = w[First(S)] + g[rest]
    BY <1>1, <1>3 DEF IsSum
  <2> QED
    BY <1>1, <1>3, <2>2, <2>3, <2>4
<1> QED
  BY <1>2, <1>3

LEMMA TotalEmpty == \A w : Total(w, {}) = 0
BY TotalRecursion, FS_EmptySet

\* A sum of integers is one, and it is the same for functions that agree.
LEMMA TotalType ==
  ASSUME NEW S, IsFiniteSet(S), NEW w, \A x \in S : w[x] \in Int
  PROVE  Total(w, S) \in Int
<1> DEFINE Bad == {s \in SUBSET S : Total(w, s) \notin Int}
<1> SUFFICES ASSUME Bad # {} PROVE FALSE
  OBVIOUS
<1>0. Bad \subseteq SUBSET S
  OBVIOUS
<1>1. PICK s \in Bad : \A t \in Bad : t \subseteq s => t = s
  <2> HIDE DEF Bad
  <2> QED
    BY <1>0, MinimalSubset
<1>2. IsFiniteSet(s) /\ Total(w, s) \notin Int
  BY FS_Subset
<1>3. s # {}
  BY <1>2, TotalEmpty
<1>4. First(s) \in s /\ s \ {First(s)} \subseteq s /\ s \ {First(s)} # s
  BY <1>3, FirstIsIn
<1>5. Total(w, s \ {First(s)}) \in Int /\ w[First(s)] \in Int
  BY <1>1, <1>4
<1>6. Total(w, s) = w[First(s)] + Total(w, s \ {First(s)})
  BY <1>2, <1>3, TotalRecursion
<1> HIDE DEF Bad
<1> QED
  BY <1>2, <1>5, <1>6

LEMMA TotalSame ==
  ASSUME NEW S, IsFiniteSet(S), NEW v, NEW w, \A x \in S : v[x] = w[x]
  PROVE  Total(v, S) = Total(w, S)
<1> DEFINE Bad == {s \in SUBSET S : Total(v, s) # Total(w, s)}
<1> SUFFICES ASSUME Bad # {} PROVE FALSE
  OBVIOUS
<1>0. Bad \subseteq SUBSET S
  OBVIOUS
<1>1. PICK s \in Bad : \A t \in Bad : t \subseteq s => t = s
  <2> HIDE DEF Bad
  <2> QED
    BY <1>0, MinimalSubset
<1>2. IsFiniteSet(s) /\ Total(v, s) # Total(w, s)
  BY FS_Subset
<1>3. s # {}
  BY <1>2, TotalEmpty
<1>4. First(s) \in s /\ s \ {First(s)} \subseteq s /\ s \ {First(s)} # s
  BY <1>3, FirstIsIn
<1>5. Total(v, s \ {First(s)}) = Total(w, s \ {First(s)}) /\ v[First(s)] = w[First(s)]
  BY <1>1, <1>4
<1>6. /\ Total(v, s) = v[First(s)] + Total(v, s \ {First(s)})
      /\ Total(w, s) = w[First(s)] + Total(w, s \ {First(s)})
  BY <1>2, <1>3, TotalRecursion
<1> QED
  BY <1>2, <1>5, <1>6

\* Any element may be taken first: the order does not matter.
LEMMA TotalRemove ==
  ASSUME NEW S, IsFiniteSet(S), NEW w, \A x \in S : w[x] \in Int, NEW e \in S
  PROVE  Total(w, S) = w[e] + Total(w, S \ {e})
<1> DEFINE Bad == {s \in SUBSET S : \E x \in s : Total(w, s) # w[x] + Total(w, s \ {x})}
<1> SUFFICES ASSUME Bad # {} PROVE FALSE
  OBVIOUS
<1>0. Bad \subseteq SUBSET S
  OBVIOUS
<1>1. PICK s \in Bad : \A t \in Bad : t \subseteq s => t = s
  <2> HIDE DEF Bad
  <2> QED
    BY <1>0, MinimalSubset
<1>2. PICK x \in s : Total(w, s) # w[x] + Total(w, s \ {x})
  OBVIOUS
<1> DEFINE y == First(s)
           both == s \ {x, y}
<1>3. y \in s /\ \A t \in SUBSET s : IsFiniteSet(t)
  BY FirstIsIn, FS_Subset
<1>4. Total(w, s) = w[y] + Total(w, s \ {y})
  BY <1>3, TotalRecursion
<1>5. x # y
  BY <1>2, <1>4
<1>6. Total(w, s \ {y}) = w[x] + Total(w, both)
  <2>1. s \ {y} \notin Bad /\ s \ {y} \subseteq S /\ x \in s \ {y}
    BY <1>1, <1>3, <1>5
  <2>2. (s \ {y}) \ {x} = both
    OBVIOUS
  <2> QED
    BY <2>1, <2>2
<1>7. Total(w, s \ {x}) = w[y] + Total(w, both)
  <2>1. s \ {x} \notin Bad /\ s \ {x} \subseteq S /\ y \in s \ {x}
    BY <1>1, <1>2, <1>3, <1>5
  <2>2. (s \ {x}) \ {y} = both
    OBVIOUS
  <2> QED
    BY <2>1, <2>2
<1>8. w[x] \in Int /\ w[y] \in Int /\ Total(w, both) \in Int
  BY <1>3, TotalType
<1> HIDE DEF y, both, Bad
<1> QED
  BY <1>2, <1>4, <1>6, <1>7, <1>8

\* What a sum becomes when one of its values changes, or an element comes.
LEMMA TotalChange ==
  ASSUME NEW S, IsFiniteSet(S), NEW v, NEW w, NEW e \in S,
         \A x \in S : v[x] \in Int /\ w[x] \in Int, \A x \in S \ {e} : v[x] = w[x]
  PROVE  Total(v, S) = Total(w, S) + v[e] - w[e]
<1>1. IsFiniteSet(S \ {e})
  BY FS_Subset
<1>2. Total(v, S \ {e}) = Total(w, S \ {e}) /\ Total(w, S \ {e}) \in Int
  BY <1>1, TotalSame, TotalType
<1>3. Total(v, S) = v[e] + Total(v, S \ {e}) /\ Total(w, S) = w[e] + Total(w, S \ {e})
  BY TotalRemove
<1> QED
  BY <1>2, <1>3

LEMMA TotalAdd ==
  ASSUME NEW S, IsFiniteSet(S), NEW w, NEW e, e \notin S,
         \A x \in S \cup {e} : w[x] \in Int
  PROVE  Total(w, S \cup {e}) = Total(w, S) + w[e]
<1>1. IsFiniteSet(S \cup {e}) /\ (S \cup {e}) \ {e} = S
  BY FS_AddElement
<1>2. Total(w, S \cup {e}) = w[e] + Total(w, S)
  BY <1>1, TotalRemove
<1>3. Total(w, S) \in Int
  BY TotalType
<1> QED
  BY <1>2, <1>3

LEMMA TotalOfZeros ==
  ASSUME NEW S, IsFiniteSet(S), NEW w, \A x \in S : w[x] = 0
  PROVE  Total(w, S) = 0
<1> DEFINE Bad == {s \in SUBSET S : Total(w, s) # 0}
<1> SUFFICES ASSUME Bad # {} PROVE FALSE
  OBVIOUS
<1>0. Bad \subseteq SUBSET S
  OBVIOUS
<1>1. PICK s \in Bad : \A t \in Bad : t \subseteq s => t = s
  <2> HIDE DEF Bad
  <2> QED
    BY <1>0, MinimalSubset
<1>2. IsFiniteSet(s) /\ Total(w, s) # 0
  BY FS_Subset
<1>3. s # {}
  BY <1>2, TotalEmpty
<1>4. Total(w, s \ {First(s)}) = 0 /\ w[First(s)] = 0
  BY <1>1, <1>3, FirstIsIn
<1>5. Total(w, s) = w[First(s)] + Total(w, s \ {First(s)})
  BY <1>2, <1>3, TotalRecursion
<1> HIDE DEF Bad
<1> QED
  BY <1>2, <1>4, <1>5
=============================================================================
