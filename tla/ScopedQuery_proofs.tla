-------------------------- MODULE ScopedQuery_proofs --------------------------
(***************************************************************************)
(* Two parts.  A query against gardens that change meanwhile, for any      *)
(* number of them and any records in them; and the cache of what is        *)
(* projected, with its quarantine, a specification by itself.              *)
(***************************************************************************)
EXTENDS ScopedQuery, CacheStore, FiniteSetTheorems, WellFoundedInduction, SequenceTheorems,
        TLAPS

(***************************************************************************)
(* Counting.                                                               *)
(***************************************************************************)
\* A non-empty set of natural numbers has a smallest member.
LEMMA Smallest ==
    ASSUME NEW T, T \subseteq Nat, T # {}
    PROVE  \E n \in T : \A m \in T : n <= m
<1> DEFINE U == {0..n : n \in T}
<1>1. U \subseteq FiniteSubsetsOf(Nat) /\ U # {}
  <2>1. ASSUME NEW n \in T
        PROVE  0..n \in FiniteSubsetsOf(Nat)
    BY FS_Interval DEF FiniteSubsetsOf
  <2> QED BY <2>1
<1>2. PICK u \in U : \A t \in U : ~ (<<t, u>> \in StrictSubsetOrdering(Nat))
  <2> HIDE DEF U
  <2> QED BY <1>1, FS_StrictSubsetOrderingWellFounded, WFMin
<1>3. PICK n \in T : u = 0..n
  OBVIOUS
<1>4. ASSUME NEW m \in T, ~ (n <= m)
      PROVE  FALSE
  <2>1. n \in Nat /\ m \in Nat /\ m < n
    BY <1>4
  <2>2. 0..m \subseteq 0..n /\ n \in 0..n /\ n \notin 0..m
    BY <2>1
  <2>3. <<0..m, 0..n>> \in StrictSubsetOrdering(Nat)
    BY <2>2 DEF StrictSubsetOrdering
  <2> QED BY <1>2, <1>3, <2>3
<1> QED BY <1>4

\* What holds at 0 and of each number after one it holds of holds of all up to k.
LEMMA Upwards ==
    ASSUME NEW P, NEW k \in Nat, 0 \in P, \A n \in 1..k : n - 1 \in P => n \in P
    PROVE  \A n \in 0..k : n \in P
<1> DEFINE Bad == {n \in 0..k : n \notin P}
<1> SUFFICES ASSUME Bad # {}
             PROVE  FALSE
  OBVIOUS
<1>1. PICK n \in Bad : \A m \in Bad : n <= m
  <2>1. Bad \subseteq Nat
    OBVIOUS
  <2> HIDE DEF Bad
  <2> QED BY <2>1, Smallest
<1>2. n \in 1..k /\ n - 1 \in 0..k /\ ~ (n <= n - 1)
  OBVIOUS
<1>3. n - 1 \notin Bad
  BY <1>1, <1>2
<1> QED BY <1>2, <1>3

\* A sequence of k steps through D, from base.
Run(f, D, k, base, F) ==
    f \in [0..k -> D] /\ f[0] = base /\ \A n \in 1..k : f[n] = F[n][f[n - 1]]

LEMMA Running ==
    ASSUME NEW D, NEW k \in Nat, NEW base \in D, NEW F \in [1..k -> [D -> D]]
    PROVE  \E f : Run(f, D, k, base, F)
<1> DEFINE P == {n \in 0..k : \E f : Run(f, D, n, base, F)}
<1>1. 0 \in P
  <2>1. Run([m \in 0..0 |-> base], D, 0, base, F)
    BY DEF Run
  <2>2. 0 \in 0..k
    OBVIOUS
  <2> QED BY <2>1, <2>2
<1>2. ASSUME NEW n \in 1..k, n - 1 \in P
      PROVE  n \in P
  <2>1. PICK f : Run(f, D, n - 1, base, F)
    BY <1>2
  <2>2. n \in Nat /\ n - 1 \in Nat /\ n # 0 /\ n - 1 \in 0..(n - 1) /\ n \in 0..k
    OBVIOUS
  <2>3. f[n - 1] \in D
    BY <2>1, <2>2 DEF Run
  <2>4. F[n][f[n - 1]] \in D
    BY <2>3
  <2> DEFINE g == [m \in 0..n |-> IF m = n THEN F[n][f[n - 1]] ELSE f[m]]
  <2>5. ASSUME NEW m \in 0..n
        PROVE  g[m] \in D
    BY <2>1, <2>2, <2>4 DEF Run
  <2>6. g[0] = base
    BY <2>1, <2>2 DEF Run
  <2>7. ASSUME NEW m \in 1..n
        PROVE  g[m] = F[m][g[m - 1]]
    <3>1. m \in 0..n /\ m - 1 \in 0..n /\ m - 1 # n
      BY <2>2
    <3>2. g[m - 1] = f[m - 1]
      BY <3>1
    <3>3. CASE m = n
      BY <3>1, <3>2, <3>3
    <3>4. CASE m # n
      <4>1. m \in 1..(n - 1)
        BY <3>4, <2>2
      <4> QED BY <4>1, <2>1, <3>1, <3>2, <3>4 DEF Run
    <3> QED BY <3>3, <3>4
  <2>8. g \in [0..n -> D]
    BY <2>5
  <2>9. Run(g, D, n, base, F)
    BY <2>6, <2>7, <2>8 DEF Run
  <2> QED BY <2>2, <2>9
<1>3. \A n \in 0..k : n \in P
  <2> HIDE DEF P
  <2> QED BY <1>1, <1>2, Upwards
<1>4. k \in 0..k
  OBVIOUS
<1> QED BY <1>3, <1>4

(***************************************************************************)
(* Sums over finite sets.                                                  *)
(***************************************************************************)
\* g is the sum of f over each subset of T, in whatever order it is taken.
Sums(f, T, g) ==
    /\ g \in [SUBSET T -> Nat]
    /\ g[{}] = 0
    /\ \A s \in SUBSET T : \A x \in s : g[s] = f[x] + g[s \ {x}]

Summed(f, T) == \E g : Sums(f, T, g)

Counts(f, T) == \A x \in T : f[x] \in Nat

\* One element more still has a sum.
LEMMA SumsMore ==
    ASSUME NEW f, NEW T, Summed(f, T), NEW x, x \notin T, f[x] \in Nat, \A y \in T : f[y] \in Nat
    PROVE  Summed(f, T \cup {x})
<1> DEFINE U == T \cup {x}
<1>1. PICK g : Sums(f, T, g)
  BY DEF Summed
<1> DEFINE h == [s \in SUBSET U |-> IF x \in s THEN f[x] + g[s \ {x}] ELSE g[s]]
<1>2. h \in [SUBSET U -> Nat]
  <2>1. ASSUME NEW s \in SUBSET U
        PROVE  (IF x \in s THEN f[x] + g[s \ {x}] ELSE g[s]) \in Nat
    <3>1. s \ {x} \in SUBSET T /\ (x \notin s => s \in SUBSET T)
      OBVIOUS
    <3> QED BY <1>1, <3>1 DEF Sums
  <2> HIDE DEF U
  <2> QED BY <2>1
<1>3. h[{}] = 0
  <2>1. {} \in SUBSET U
    OBVIOUS
  <2> HIDE DEF U
  <2> QED BY <1>1, <2>1 DEF Sums
<1>4. ASSUME NEW s \in SUBSET U, NEW y \in s
      PROVE  h[s] = f[y] + h[s \ {y}]
  <2>1. /\ s \ {y} \in SUBSET U /\ s \ {x} \in SUBSET T /\ (x \notin s => s \in SUBSET T)
        /\ (s \ {y}) \ {x} \in SUBSET T
    OBVIOUS
  <2>2. h[s] = (IF x \in s THEN f[x] + g[s \ {x}] ELSE g[s])
    <3> HIDE DEF U
    <3> QED OBVIOUS
  <2>3. h[s \ {y}] = (IF x \in s \ {y} THEN f[x] + g[(s \ {y}) \ {x}] ELSE g[s \ {y}])
    <3> HIDE DEF U
    <3> QED BY <2>1
  <2> HIDE DEF h, U
  <2>4. CASE y = x
    <3>1. h[s] = f[x] + g[s \ {x}] /\ h[s \ {y}] = g[s \ {x}]
      BY <2>2, <2>3, <2>4
    <3> QED BY <2>4, <3>1
  <2>5. CASE y # x /\ x \in s
    <3>1. y \in s \ {x} /\ (s \ {x}) \ {y} = (s \ {y}) \ {x}
      BY <2>5
    <3>2. g[s \ {x}] = f[y] + g[(s \ {x}) \ {y}]
      BY <1>1, <2>1, <3>1 DEF Sums
    <3>3. h[s] = f[x] + g[s \ {x}] /\ h[s \ {y}] = f[x] + g[(s \ {x}) \ {y}]
      BY <2>2, <2>3, <2>5, <3>1
    <3>4. y \in T /\ f[y] \in Nat /\ f[x] \in Nat
      BY <2>5 DEF U
    <3>5. g[(s \ {x}) \ {y}] \in Nat
      BY <1>1, <2>1, <3>1 DEF Sums
    <3> QED BY <3>2, <3>3, <3>4, <3>5
  <2>6. CASE y # x /\ x \notin s
    <3>1. h[s] = g[s] /\ h[s \ {y}] = g[s \ {y}]
      BY <2>2, <2>3, <2>6
    <3>2. g[s] = f[y] + g[s \ {y}]
      BY <1>1, <2>1, <2>6 DEF Sums
    <3> QED BY <3>1, <3>2
  <2> QED BY <2>4, <2>5, <2>6
<1>5. Sums(f, U, h)
  <2> HIDE DEF h, U
  <2> QED BY <1>2, <1>3, <1>4 DEF Sums
<1> QED BY <1>5 DEF Summed

\* Numbers on a finite set have sums.
LEMMA SumsExist ==
    ASSUME NEW T, IsFiniteSet(T), NEW f, \A y \in T : f[y] \in Nat
    PROVE  Summed(f, T)
<1> DEFINE k == Cardinality(T)
           Q == {n \in 0..k : \A s \in SUBSET T : Cardinality(s) = n => Summed(f, s)}
<1>1. k \in Nat
  BY FS_CardinalityType
<1>2. 0 \in Q
  <2>1. 0 \in 0..k
    BY <1>1
  <2>2. Sums(f, {}, [s \in {{}} |-> 0])
    BY DEF Sums
  <2>3. ASSUME NEW s \in SUBSET T, Cardinality(s) = 0
        PROVE  s = {}
    <3>1. IsFiniteSet(s)
      BY FS_Subset
    <3> QED BY <2>3, <3>1, FS_EmptySet
  <2> QED BY <2>1, <2>2, <2>3 DEF Summed
<1>3. ASSUME NEW n \in 1..k, n - 1 \in Q
      PROVE  n \in Q
  <2>1. n \in 0..k
    BY <1>1
  <2>2. ASSUME NEW s \in SUBSET T, Cardinality(s) = n
        PROVE  Summed(f, s)
    <3>1. IsFiniteSet(s)
      BY FS_Subset
    <3>2. s # {}
      <4> HIDE DEF k, Q
      <4> QED BY <2>2, <1>3, <1>1, FS_EmptySet
    <3>3. PICK x \in s : TRUE
      BY <3>2
    <3>4. Cardinality(s \ {x}) = n - 1
      <4> HIDE DEF k, Q
      <4> QED BY <2>2, <3>1, <3>3, FS_RemoveElement
    <3>5. Summed(f, s \ {x})
      BY <1>3, <3>4
    <3>6. s = (s \ {x}) \cup {x}
      BY <3>3
    <3>7. Summed(f, (s \ {x}) \cup {x})
      <4> HIDE DEF k, Q
      <4> QED BY <3>3, <3>5, SumsMore
    <3> QED BY <3>6, <3>7
  <2> QED BY <2>1, <2>2
<1>4. \A n \in 0..k : n \in Q
  <2> HIDE DEF k, Q
  <2> QED BY <1>1, <1>2, <1>3, Upwards
<1>5. k \in 0..k
  BY <1>1
<1>6. k \in Q
  <2> HIDE DEF k, Q
  <2> QED BY <1>4, <1>5
<1> QED BY <1>6

\* What adds up one element after another adds up to the sum.
AddsUp(f, T, h) ==
    /\ h[{}] = 0
    /\ \A s \in SUBSET T : s # {} => \E x \in s : h[s] = f[x] + h[s \ {x}]

LEMMA SumsAre ==
    ASSUME NEW T, IsFiniteSet(T), NEW f, NEW g, Sums(f, T, g), NEW h, AddsUp(f, T, h)
    PROVE  h[T] = g[T]
<1>a. /\ h[{}] = 0
      /\ \A s \in SUBSET T : s # {} => \E x \in s : h[s] = f[x] + h[s \ {x}]
  BY DEF AddsUp
<1> DEFINE k == Cardinality(T)
           Q == {n \in 0..k : \A s \in SUBSET T : Cardinality(s) = n => h[s] = g[s]}
<1>1. k \in Nat
  BY FS_CardinalityType
<1>2. 0 \in Q
  <2>1. 0 \in 0..k
    BY <1>1
  <2>3. ASSUME NEW s \in SUBSET T, Cardinality(s) = 0
        PROVE  h[s] = g[s]
    <3>1. IsFiniteSet(s)
      BY FS_Subset
    <3>2. s = {}
      BY <2>3, <3>1, FS_EmptySet
    <3> QED BY <1>a, <3>2 DEF Sums
  <2> QED BY <2>1, <2>3
<1>3. ASSUME NEW n \in 1..k, n - 1 \in Q
      PROVE  n \in Q
  <2>1. n \in 0..k
    BY <1>1
  <2>2. ASSUME NEW s \in SUBSET T, Cardinality(s) = n
        PROVE  h[s] = g[s]
    <3>1. IsFiniteSet(s)
      BY FS_Subset
    <3>2. s # {}
      <4> HIDE DEF k, Q
      <4> QED BY <2>2, <1>3, <1>1, FS_EmptySet
    <3>3. PICK x \in s : h[s] = f[x] + h[s \ {x}]
      BY <1>a, <3>2
    <3>4. Cardinality(s \ {x}) = n - 1
      <4> HIDE DEF k, Q
      <4> QED BY <2>2, <3>1, <3>3, FS_RemoveElement
    <3>5. h[s \ {x}] = g[s \ {x}]
      BY <1>3, <3>4
    <3>6. g[s] = f[x] + g[s \ {x}]
      BY DEF Sums
    <3> QED BY <3>3, <3>5, <3>6
  <2> QED BY <2>1, <2>2
<1>4. \A n \in 0..k : n \in Q
  <2> HIDE DEF k, Q
  <2> QED BY <1>1, <1>2, <1>3, Upwards
<1>5. ASSUME NEW s \in SUBSET T
      PROVE  h[s] = g[s]
  <2>1. Cardinality(s) \in 0..k
    <3>1. IsFiniteSet(s) /\ Cardinality(s) <= Cardinality(T)
      BY FS_Subset
    <3> QED BY <1>1, <3>1, FS_CardinalityType
  <2> HIDE DEF k
  <2>2. Cardinality(s) \in Q
    <3> HIDE DEF Q
    <3> QED BY <1>4, <2>1
  <2> QED BY <2>2
<1>6. \A s \in SUBSET T : h[s] = g[s]
  BY <1>5
<1> QED BY <1>6

\* SumFunctionOnSet is that sum.
LEMMA SumIs ==
    ASSUME NEW T, IsFiniteSet(T), NEW f, NEW g, Sums(f, T, g)
    PROVE  SumFunctionOnSet(f, T) = g[T]
<1> DEFINE Is(h) == h = [s \in SUBSET T |->
                 IF s = {} THEN 0 ELSE LET x == CHOOSE y \in s : TRUE IN f[x] + h[s \ {x}]]
           iter == CHOOSE h : Is(h)
<1>1. SumFunctionOnSet(f, T) = iter[T]
  BY DEF SumFunctionOnSet, FoldFunctionOnSet, MapThenFoldSet
<1>2. Is(g)
  <2>1. ASSUME NEW s \in SUBSET T
        PROVE  g[s] = IF s = {} THEN 0 ELSE LET x == CHOOSE y \in s : TRUE IN f[x] + g[s \ {x}]
    <3>1. CASE s = {}
      BY <3>1 DEF Sums
    <3>2. CASE s # {}
      <4>1. PICK x : x = CHOOSE y \in s : TRUE
        OBVIOUS
      <4>2. x \in s
        BY <3>2, <4>1
      <4>3. g[s] = f[x] + g[s \ {x}]
        BY <4>2 DEF Sums
      <4> QED BY <3>2, <4>1, <4>3
    <3> QED BY <3>1, <3>2
  <2>2. g = [s \in SUBSET T |-> g[s]]
    BY DEF Sums
  <2> QED BY <2>1, <2>2
<1>3. Is(iter)
  <2> HIDE DEF Is
  <2> QED BY <1>2
<1>4. PICK h : h = iter
  OBVIOUS
<1>5. \A s \in SUBSET T :
         h[s] = IF s = {} THEN 0 ELSE LET x == CHOOSE y \in s : TRUE IN f[x] + h[s \ {x}]
  <2>1. Is(h)
    BY <1>3, <1>4
  <2> HIDE DEF iter
  <2> QED BY <2>1
<1> HIDE DEF iter, Is
<1>6. h[{}] = 0
  BY <1>5
<1>7. ASSUME NEW s \in SUBSET T, s # {}
      PROVE  \E x \in s : h[s] = f[x] + h[s \ {x}]
  <2>1. PICK x : x = CHOOSE y \in s : TRUE
    OBVIOUS
  <2>2. x \in s
    BY <1>7, <2>1
  <2>3. h[s] = f[x] + h[s \ {x}]
    BY <1>5, <1>7, <2>1
  <2> QED BY <2>2, <2>3
<1>8. h[T] = g[T]
  <2>1. AddsUp(f, T, h)
    BY <1>6, <1>7 DEF AddsUp
  <2> QED BY <2>1, SumsAre
<1> QED BY <1>1, <1>4, <1>8

\* A sum is a number, and one element more adds its own.
LEMMA SumAdds ==
    ASSUME NEW T, IsFiniteSet(T), NEW f, Counts(f, T)
    PROVE  /\ SumFunctionOnSet(f, T) \in Nat
           /\ SumFunctionOnSet(f, {}) = 0
           /\ \A x \in T : SumFunctionOnSet(f, T) = f[x] + SumFunctionOnSet(f, T \ {x})
<1>1. PICK g : Sums(f, T, g)
  <2>1. Summed(f, T)
    BY SumsExist DEF Counts
  <2> QED BY <2>1 DEF Summed
<1>2. ASSUME NEW s \in SUBSET T
      PROVE  SumFunctionOnSet(f, s) = g[s]
  <2>1. PICK h : h = [x \in SUBSET s |-> g[x]]
    OBVIOUS
  <2>2. IsFiniteSet(s)
    BY FS_Subset
  <2>3. Sums(f, s, h)
    <3>1. h \in [SUBSET s -> Nat]
      BY <1>1, <2>1 DEF Sums
    <3>2. \A t \in SUBSET s : h[t] = g[t] /\ \A x \in t : g[t] = f[x] + g[t \ {x}]
      BY <1>1, <2>1 DEF Sums
    <3>3. \A t \in SUBSET s : \A x \in t : t \ {x} \in SUBSET s
      OBVIOUS
    <3>4. {} \in SUBSET s /\ g[{}] = 0
      BY <1>1 DEF Sums
    <3> QED BY <3>1, <3>2, <3>3, <3>4 DEF Sums
  <2>4. SumFunctionOnSet(f, s) = h[s]
    BY <2>2, <2>3, SumIs
  <2> QED BY <2>1, <2>4
<1>3. \A x \in T : T \ {x} \in SUBSET T
  OBVIOUS
<1>4. T \in SUBSET T /\ {} \in SUBSET T
  OBVIOUS
<1>5. g[T] \in Nat /\ g[{}] = 0 /\ \A x \in T : g[T] = f[x] + g[T \ {x}]
  BY <1>1, <1>4 DEF Sums
<1> QED BY <1>2, <1>3, <1>4, <1>5

SameOn(f, h, T) == \A x \in T : f[x] = h[x]

\* A sum only depends on the values there are on the set.
LEMMA SumAgrees ==
    ASSUME NEW T, IsFiniteSet(T), NEW f, Counts(f, T), NEW h, SameOn(f, h, T)
    PROVE  SumFunctionOnSet(f, T) = SumFunctionOnSet(h, T)
<1>1. PICK g : Sums(f, T, g)
  <2>1. Summed(f, T)
    BY SumsExist DEF Counts
  <2> QED BY <2>1 DEF Summed
<1>2. Sums(h, T, g)
  <2>1. ASSUME NEW s \in SUBSET T, NEW x \in s
        PROVE  g[s] = h[x] + g[s \ {x}]
    <3>1. x \in T
      OBVIOUS
    <3>2. g[s] = f[x] + g[s \ {x}]
      BY <1>1 DEF Sums
    <3> QED BY <3>1, <3>2 DEF SameOn
  <2> QED BY <1>1, <2>1 DEF Sums
<1> QED BY <1>1, <1>2, SumIs

(***************************************************************************)
(* Records that fall with what they depend on.                             *)
(***************************************************************************)
Closed(A, ids) == \A i \in ids : Dependencies(A[i]) \subseteq ids

\* What the work list leaves after n rounds.
Shrinks(left, k, A, ids) ==
    /\ left[0] = ids
    /\ \A n \in 1..k : left[n] = {i \in left[n - 1] : Dependencies(A[i]) \subseteq left[n - 1]}

LEMMA StandingIs ==
    ASSUME NEW A, NEW ids, IsFiniteSet(ids)
    PROVE  \E left : /\ Standing(A, ids) = left[Cardinality(ids)]
                     /\ Shrinks(left, Cardinality(ids), A, ids)
<1> DEFINE k == Cardinality(ids)
           D == SUBSET ids
           step == [now \in D |-> {i \in now : Dependencies(A[i]) \subseteq now}]
           F == [n \in 1..k |-> step]
           Is(f) == f = [n \in 0..k |-> IF n = 0 THEN ids
                                    ELSE LET now == f[n - 1]
                                         IN  {i \in now : Dependencies(A[i]) \subseteq now}]
           left == CHOOSE f : Is(f)
<1>1. k \in Nat
  BY FS_CardinalityType
<1>2. ids \in D /\ step \in [D -> D]
  OBVIOUS
<1>3. F \in [1..k -> [D -> D]]
  BY <1>2
<1>4. PICK f : Run(f, D, k, ids, F)
  <2> HIDE DEF D, F, k
  <2> QED BY <1>1, <1>2, <1>3, Running
<1>5. ASSUME NEW n \in 1..k
      PROVE  f[n] = {i \in f[n - 1] : Dependencies(A[i]) \subseteq f[n - 1]}
  <2>1. n - 1 \in 0..k
    BY <1>1
  <2>2. f[n - 1] \in D
    BY <1>4, <2>1 DEF Run
  <2>3. F[n] = step /\ f[n] = F[n][f[n - 1]]
    BY <1>4 DEF Run
  <2> QED BY <2>2, <2>3
<1>6. Is(f)
  BY <1>4, <1>5 DEF Run
<1>7. Is(left)
  BY <1>6
<1>8. Standing(A, ids) = left[k]
  BY DEF Standing
<1>9. /\ left[0] = ids
      /\ \A n \in 1..k :
            left[n] = {i \in left[n - 1] : Dependencies(A[i]) \subseteq left[n - 1]}
  <2> HIDE DEF left, k
  <2>1. 0 \in 0..k /\ \A n \in 1..k : n \in 0..k /\ n # 0
    BY <1>1
  <2>2. left[0] = ids
    BY <1>7, <2>1
  <2>3. ASSUME NEW n \in 1..k
        PROVE  left[n] = {i \in left[n - 1] : Dependencies(A[i]) \subseteq left[n - 1]}
    BY <1>7, <2>1
  <2> QED BY <2>2, <2>3
<1> HIDE DEF left
<1>10. Shrinks(left, k, A, ids)
  BY <1>9 DEF Shrinks
<1> QED BY <1>8, <1>10

\* After as many rounds as there are records nothing that stands depends on what fell:
\* every round but the last takes one away at least.
LEMMA StandingClosed ==
    ASSUME NEW A, NEW ids, IsFiniteSet(ids)
    PROVE  Standing(A, ids) \subseteq ids /\ Closed(A, Standing(A, ids))
<1> DEFINE k == Cardinality(ids)
<1>1. k \in Nat
  BY FS_CardinalityType
<1>2. PICK left : Standing(A, ids) = left[k] /\ Shrinks(left, k, A, ids)
  BY StandingIs
<1> HIDE DEF k
<1> DEFINE P == {n \in 0..k : /\ left[n] \subseteq ids
                              /\ Closed(A, left[n]) \/ Cardinality(left[n]) <= k - n}
<1>3. 0 \in P
  BY <1>1, <1>2 DEF k, Shrinks
<1>4. ASSUME NEW n \in 1..k, n - 1 \in P
      PROVE  n \in P
  <2> DEFINE now == left[n - 1]
             next == left[n]
  <2>a. n \in 0..k /\ n - 1 \in Nat /\ k \in Nat
    BY <1>1
  <2>b. now \subseteq ids
    BY <1>4
  <2>c. next = {i \in now : Dependencies(A[i]) \subseteq now}
    BY <1>2 DEF Shrinks
  <2>1. /\ n \in 0..k /\ n - 1 \in Nat /\ k \in Nat
        /\ now \subseteq ids
        /\ next = {i \in now : Dependencies(A[i]) \subseteq now}
    BY <2>a, <2>b, <2>c
  <2>2. IsFiniteSet(now) /\ IsFiniteSet(next) /\ next \subseteq now
    BY <2>1, FS_Subset
  <2>3. CASE Closed(A, now)
    <3>1. next = now
      BY <2>1, <2>3 DEF Closed
    <3> QED BY <2>1, <2>3, <3>1
  <2>4. CASE ~ Closed(A, now)
    <3>1. next # now
      BY <2>1, <2>4 DEF Closed
    <3>2. /\ Cardinality(next) \in Nat /\ Cardinality(now) \in Nat
          /\ Cardinality(next) <= Cardinality(now)
          /\ Cardinality(now) # Cardinality(next)
      BY <2>2, <3>1, FS_Subset, FS_CardinalityType
    <3>3. Cardinality(now) <= k - (n - 1)
      BY <1>4, <2>4
    <3>4. Cardinality(next) <= k - n
      <4> HIDE DEF now, next
      <4> QED BY <2>1, <3>2, <3>3
    <3> QED BY <2>1, <2>2, <3>4
  <2> QED BY <2>3, <2>4
<1>5. \A n \in 0..k : n \in P
  <2> HIDE DEF P
  <2> QED BY <1>1, <1>3, <1>4, Upwards
<1>6. /\ left[k] \subseteq ids
      /\ Closed(A, left[k]) \/ Cardinality(left[k]) <= k - k
  <2>1. k \in 0..k
    BY <1>1
  <2>2. k \in P
    BY <1>5, <2>1
  <2> QED BY <2>2
<1>7. CASE Cardinality(left[k]) <= k - k
  <2>1. IsFiniteSet(left[k])
    BY <1>6, FS_Subset
  <2>2. Cardinality(left[k]) = 0
    BY <1>1, <1>7, <2>1, FS_CardinalityType
  <2>3. left[k] = {}
    BY <2>1, <2>2, FS_EmptySet
  <2> QED BY <1>2, <1>6, <2>3 DEF Closed
<1> QED BY <1>2, <1>6, <1>7

\* found[n] is what is reached from the roots in n rounds.
Reaches(found, k, A, roots) ==
    /\ found[0] = roots
    /\ \A n \in 1..k :
          found[n] = found[n - 1] \cup UNION {Dependencies(A[i]) : i \in found[n - 1]}

LEMMA NeededIs ==
    ASSUME NEW A, NEW T, NEW roots, roots \subseteq T, Closed(A, T), NEW ids, IsFiniteSet(ids)
    PROVE  \E found :
              /\ Needed(A, roots, ids) = found[Cardinality(ids)]
              /\ Reaches(found, Cardinality(ids), A, roots)
<1> DEFINE k == Cardinality(ids)
           D == SUBSET T
           step == [now \in D |-> now \cup UNION {Dependencies(A[i]) : i \in now}]
           F == [n \in 1..k |-> step]
           Is(f) == f = [n \in 0..k |->
                           IF n = 0 THEN roots
                           ELSE LET now == f[n - 1]
                                IN  now \cup UNION {Dependencies(A[i]) : i \in now}]
           found == CHOOSE f : Is(f)
<1>1. k \in Nat
  BY FS_CardinalityType
<1>2. roots \in D /\ step \in [D -> D]
  BY DEF Closed
<1>3. F \in [1..k -> [D -> D]]
  BY <1>2
<1>4. PICK f : Run(f, D, k, roots, F)
  <2> HIDE DEF D, F, k
  <2> QED BY <1>1, <1>2, <1>3, Running
<1>5. ASSUME NEW n \in 1..k
      PROVE  f[n] = f[n - 1] \cup UNION {Dependencies(A[i]) : i \in f[n - 1]}
  <2>1. n - 1 \in 0..k
    BY <1>1
  <2>2. f[n - 1] \in D
    BY <1>4, <2>1 DEF Run
  <2>3. F[n] = step /\ f[n] = F[n][f[n - 1]]
    BY <1>4 DEF Run
  <2> QED BY <2>2, <2>3
<1>6. Is(f)
  BY <1>4, <1>5 DEF Run
<1>7. Is(found)
  BY <1>6
<1>8. Needed(A, roots, ids) = found[k]
  BY DEF Needed
<1>9. Reaches(found, k, A, roots)
  <2> HIDE DEF found, k
  <2>1. 0 \in 0..k /\ \A n \in 1..k : n \in 0..k /\ n # 0
    BY <1>1
  <2>2. found[0] = roots
    BY <1>7, <2>1
  <2>3. ASSUME NEW n \in 1..k
        PROVE  found[n] = found[n - 1] \cup UNION {Dependencies(A[i]) : i \in found[n - 1]}
    BY <1>7, <2>1
  <2> QED BY <2>2, <2>3 DEF Reaches
<1> HIDE DEF found
<1> QED BY <1>8, <1>9

LEMMA NeededWithin ==
    ASSUME NEW A, NEW T, NEW roots, roots \subseteq T, Closed(A, T), NEW ids, IsFiniteSet(ids)
    PROVE  Needed(A, roots, ids) \subseteq T
<1> DEFINE k == Cardinality(ids)
<1>1. k \in Nat
  BY FS_CardinalityType
<1>2. PICK found :
         /\ Needed(A, roots, ids) = found[k]
         /\ Reaches(found, k, A, roots)
  BY NeededIs
<1> HIDE DEF k
<1> DEFINE P == {n \in 0..k : found[n] \subseteq T}
<1>3. 0 \in P
  BY <1>1, <1>2 DEF Reaches
<1>4. ASSUME NEW n \in 1..k, n - 1 \in P
      PROVE  n \in P
  <2>1. n \in 0..k
    BY <1>1
  <2>2. found[n] = found[n - 1] \cup UNION {Dependencies(A[i]) : i \in found[n - 1]}
    BY <1>2 DEF Reaches
  <2>3. found[n - 1] \subseteq T
    BY <1>4
  <2>4. found[n] \subseteq T
    BY <2>2, <2>3 DEF Closed
  <2> QED BY <2>1, <2>4
<1>5. \A n \in 0..k : n \in P
  <2> HIDE DEF P
  <2> QED BY <1>1, <1>3, <1>4, Upwards
<1>6. k \in 0..k
  BY <1>1
<1>7. k \in P
  BY <1>5, <1>6
<1> QED BY <1>2, <1>7

(***************************************************************************)
(* The join of scopes.                                                     *)
(***************************************************************************)
LEMMA StrictestIs ==
    ASSUME NEW levels \in SUBSET Level, levels # {}
    PROVE  /\ Strictest(levels) \in levels
           /\ \A l \in levels : l <= Strictest(levels)
<1>1. \E l \in levels : \A m \in levels : m <= l
  <2>1. CASE 2 \in levels
    BY <2>1 DEF Level
  <2>2. CASE 2 \notin levels /\ 1 \in levels
    BY <2>2 DEF Level
  <2>3. CASE 2 \notin levels /\ 1 \notin levels
    <3>1. ASSUME NEW l \in levels
          PROVE  l = 0
      <4>1. l \in 0..2 /\ l # 1 /\ l # 2
        BY <2>3 DEF Level
      <4> QED BY <4>1
    <3> QED BY <3>1
  <2> QED BY <2>1, <2>2, <2>3
<1> QED BY <1>1 DEF Strictest

LEMMA StrictestUnique ==
    ASSUME NEW levels \in SUBSET Level, NEW l \in levels, \A m \in levels : m <= l
    PROVE  Strictest(levels) = l
<1>1. Strictest(levels) \in levels /\ l <= Strictest(levels)
  BY StrictestIs
<1>2. Strictest(levels) <= l
  BY <1>1
<1>3. l \in 0..2 /\ Strictest(levels) \in 0..2
  BY <1>1 DEF Level
<1> HIDE DEF Strictest
<1> QED BY <1>1, <1>2, <1>3

\* Labels that have no join but the strictest.
Mixed(scopes) ==
    \/ \E s \in scopes : s.visibility = "restricted"
    \/ \E s, t \in scopes : s.visibility = "organization" /\ t.visibility = "personal"

LEMMA InheritIs ==
    ASSUME NEW scopes \in SUBSET ScopeFields, scopes # {}
    PROVE  /\ Inherit(scopes) \in Scopes
           /\ Mixed(scopes) => Inherit(scopes) = Restricted
           /\ ~ Mixed(scopes) =>
                /\ Inherit(scopes).visibility \in Visibility \ {"restricted"}
                /\ \A v \in {"organization", "personal"} :
                      Inherit(scopes).visibility = v <=> \E s \in scopes : s.visibility = v
                /\ Inherit(scopes).publication = Strictest({s.publication : s \in scopes})
                /\ Inherit(scopes).execution = Strictest({s.execution : s \in scopes})
                /\ Inherit(scopes).persistence = Strictest({s.persistence : s \in scopes})
<1> DEFINE labels == {s.visibility : s \in scopes}
           private == labels \ {"public"}
<1>1. labels \in SUBSET Visibility
  BY DEF ScopeFields
<1>2. /\ Mixed(scopes) => Classification(labels) = "restricted"
      /\ ~ Mixed(scopes) =>
            /\ Classification(labels) \in Visibility \ {"restricted"}
            /\ \A v \in {"organization", "personal"} :
                  Classification(labels) = v <=> v \in labels
  <2>1. Mixed(scopes) <=> \/ "restricted" \in labels
                          \/ {"organization", "personal"} \subseteq labels
    BY DEF Mixed
  <2> HIDE DEF labels
  <2>2. CASE private = {}
    BY <1>1, <2>1, <2>2 DEF Classification, Visibility
  <2>3. ASSUME NEW v, private = {v}
        PROVE  Classification(labels) = v
    BY <2>3 DEF Classification
  <2>4. CASE \E v \in private : private = {v}
    <3>1. PICK v \in private : private = {v}
      BY <2>4
    <3>2. Classification(labels) = v /\ v \in Visibility \ {"public"}
      BY <1>1, <2>3, <3>1
    <3> QED BY <1>1, <2>1, <3>1, <3>2 DEF Visibility
  <2>5. CASE private # {} /\ ~ \E v \in private : private = {v}
    <3>1. Classification(labels) = "restricted"
      BY <2>5 DEF Classification
    <3>2. Mixed(scopes)
      BY <1>1, <2>1, <2>5 DEF Visibility
    <3> QED BY <3>1, <3>2
  <2> QED BY <2>2, <2>4, <2>5
<1>3. /\ {s.publication : s \in scopes} \in SUBSET Level
      /\ {s.execution : s \in scopes} \in SUBSET Level
      /\ {s.persistence : s \in scopes} \in SUBSET Level
      /\ {s.publication : s \in scopes} # {}
      /\ {s.execution : s \in scopes} # {}
      /\ {s.persistence : s \in scopes} # {}
  BY DEF ScopeFields
<1>4. CASE Mixed(scopes)
  <2>1. Inherit(scopes) = Restricted
    BY <1>2, <1>4 DEF Inherit
  <2>2. Restricted \in Scopes
    BY DEF Restricted, Scopes, ScopeFields, Visibility, Level, Offline, EncryptedVault
  <2> QED BY <1>4, <2>1, <2>2
<1>5. CASE ~ Mixed(scopes)
  <2> DEFINE class == Classification(labels)
             joined == [visibility  |-> class,
                        publication |-> Strictest({s.publication : s \in scopes}),
                        execution   |-> Strictest({s.execution : s \in scopes}),
                        persistence |-> Strictest({s.persistence : s \in scopes})]
  <2>1. Inherit(scopes) = joined
    BY <1>2, <1>5 DEF Inherit
  <2>2. /\ class \in Visibility \ {"restricted"}
        /\ \A v \in {"organization", "personal"} : class = v <=> v \in labels
    BY <1>2, <1>5
  <2>3. /\ Strictest({s.publication : s \in scopes}) \in Level
        /\ Strictest({s.execution : s \in scopes}) \in Level
        /\ Strictest({s.persistence : s \in scopes}) \in Level
    BY <1>3, StrictestIs
  <2> HIDE DEF class
  <2>4. joined \in Scopes
    BY <2>2, <2>3 DEF Scopes, ScopeFields
  <2> QED BY <1>5, <2>1, <2>2, <2>4
<1> QED BY <1>4, <1>5

\* A join is at least as strict as what it joins.
LEMMA InheritBounds ==
    ASSUME NEW scopes \in SUBSET ScopeFields, NEW s \in scopes
    PROVE  AtLeast(Inherit(scopes), s)
<1>1. s \in ScopeFields /\ scopes # {}
  OBVIOUS
<1>2. CASE Mixed(scopes)
  <2>1. Inherit(scopes) = Restricted
    BY <1>1, <1>2, InheritIs
  <2> QED BY <1>1, <2>1 DEF AtLeast, Restricted, ScopeFields, Level, Offline, EncryptedVault
<1>3. CASE ~ Mixed(scopes)
  <2> DEFINE t == Inherit(scopes)
             pub == {x.publication : x \in scopes}
             exe == {x.execution : x \in scopes}
             per == {x.persistence : x \in scopes}
  <2>1. /\ t.publication = Strictest(pub)
        /\ t.execution = Strictest(exe)
        /\ t.persistence = Strictest(per)
        /\ \A v \in {"organization", "personal"} :
              t.visibility = v <=> \E x \in scopes : x.visibility = v
    BY <1>1, <1>3, InheritIs
  <2>2. /\ pub \in SUBSET Level /\ s.publication \in pub
        /\ exe \in SUBSET Level /\ s.execution \in exe
        /\ per \in SUBSET Level /\ s.persistence \in per
    BY DEF ScopeFields
  <2>3. /\ s.publication <= Strictest(pub)
        /\ s.execution <= Strictest(exe)
        /\ s.persistence <= Strictest(per)
    <3> HIDE DEF pub, exe, per
    <3> QED BY <2>2, StrictestIs
  <2>4. s.visibility \in {"public", "organization", "personal"}
    BY <1>1, <1>3 DEF Mixed, ScopeFields, Visibility
  <2>5. s.visibility = "public" \/ t.visibility = s.visibility
    BY <2>1, <2>4
  <2> HIDE DEF t, pub, exe, per
  <2> QED BY <2>1, <2>3, <2>5 DEF AtLeast, t
<1> QED BY <1>2, <1>3

LEMMA AtLeastTransitive ==
    ASSUME NEW s \in ScopeFields, NEW t \in ScopeFields, NEW u \in ScopeFields,
           AtLeast(s, t), AtLeast(t, u)
    PROVE  AtLeast(s, u)
<1>1. /\ u.publication <= s.publication
      /\ u.execution <= s.execution
      /\ u.persistence <= s.persistence
  BY DEF AtLeast, ScopeFields, Level
<1>2. u.visibility = "public" \/ s.visibility \in {u.visibility, "restricted"}
  BY DEF AtLeast, ScopeFields, Visibility
<1> QED BY <1>1, <1>2 DEF AtLeast

\* The strictest of the strictest is the strictest of all.
Tops(f, I) == {Strictest(f[i]) : i \in I}
Joined(f, I) == UNION {f[i] : i \in I}

LEMMA StrictestOfStrictest ==
    ASSUME NEW I, NEW f \in [I -> SUBSET Level], I # {}, \A i \in I : f[i] # {}
    PROVE  Strictest(Tops(f, I)) = Strictest(Joined(f, I))
<1> DEFINE tops == {Strictest(f[i]) : i \in I}
           all == UNION {f[i] : i \in I}
<1>1. \A i \in I : Strictest(f[i]) \in f[i] /\ \A l \in f[i] : l <= Strictest(f[i])
  BY StrictestIs
<1>2. tops \in SUBSET Level /\ tops # {} /\ tops \subseteq all /\ all \in SUBSET Level
  BY <1>1
<1>3. Strictest(tops) \in tops /\ \A l \in tops : l <= Strictest(tops)
  <2> HIDE DEF tops
  <2> QED BY <1>2, StrictestIs
<1>4. ASSUME NEW m \in all
      PROVE  m <= Strictest(tops)
  <2>1. PICK i \in I : m \in f[i]
    OBVIOUS
  <2>2. m <= Strictest(f[i]) /\ Strictest(f[i]) <= Strictest(tops)
    BY <1>1, <1>3, <2>1
  <2>3. m \in 0..2 /\ Strictest(f[i]) \in 0..2 /\ Strictest(tops) \in 0..2
    BY <1>1, <1>2, <1>3, <2>1 DEF Level
  <2> HIDE DEF tops
  <2> QED BY <2>2, <2>3
<1>5. Strictest(tops) \in all
  BY <1>2, <1>3
<1> HIDE DEF tops, all
<1>6. Strictest(all) = Strictest(tops)
  BY <1>2, <1>4, <1>5, StrictestUnique
<1> QED BY <1>6 DEF tops, all, Tops, Joined

Joins(f, I) == {Inherit(f[i]) : i \in I}

\* Joining joins joins all.
LEMMA JoinOfJoins ==
    ASSUME NEW I, NEW f \in [I -> SUBSET ScopeFields], I # {}, \A i \in I : f[i] # {}
    PROVE  Inherit(Joins(f, I)) = Inherit(Joined(f, I))
<1> DEFINE joins == {Inherit(f[i]) : i \in I}
           all == UNION {f[i] : i \in I}
<1>0. SUFFICES Inherit(joins) = Inherit(all)
  BY DEF Joins, Joined
<1>1. \A i \in I : f[i] \in SUBSET ScopeFields /\ f[i] # {}
  OBVIOUS
<1>2. \A i \in I : Inherit(f[i]) \in ScopeFields
  BY <1>1, InheritIs DEF Scopes
<1>3. joins \in SUBSET ScopeFields /\ joins # {} /\ all \in SUBSET ScopeFields /\ all # {}
  BY <1>1, <1>2
<1>4. ASSUME NEW i \in I, NEW s \in f[i]
      PROVE  s.visibility \in {"public", Inherit(f[i]).visibility}
                \/ Inherit(f[i]).visibility = "restricted"
  BY <1>1, InheritBounds DEF AtLeast
<1>5. ASSUME NEW i \in I, NEW v \in {"organization", "personal"}, Inherit(f[i]).visibility = v
      PROVE  \E s \in f[i] : s.visibility = v
  <2>1. ~ Mixed(f[i])
    <3>1. Inherit(f[i]) # Restricted
      BY <1>5 DEF Restricted
    <3> QED BY <1>1, <3>1, InheritIs
  <2> QED BY <1>1, <1>5, <2>1, InheritIs
<1>6. ASSUME NEW i \in I, Inherit(f[i]).visibility = "restricted"
      PROVE  Mixed(f[i])
  BY <1>1, <1>6, InheritIs
<1>7. Mixed(joins) => Mixed(all)
  <2>1. ASSUME NEW i \in I, Inherit(f[i]).visibility = "restricted"
        PROVE  Mixed(all)
    BY <1>6, <2>1 DEF Mixed
  <2>2. ASSUME NEW i \in I, NEW j \in I, Inherit(f[i]).visibility = "organization",
               Inherit(f[j]).visibility = "personal"
        PROVE  Mixed(all)
    <3>1. \E s \in f[i] : s.visibility = "organization"
      BY <1>5, <2>2
    <3>2. \E s \in f[j] : s.visibility = "personal"
      BY <1>5, <2>2
    <3> QED BY <3>1, <3>2 DEF Mixed
  <2> QED BY <2>1, <2>2 DEF Mixed
<1>8. Mixed(all) => Mixed(joins)
  <2>1. ASSUME NEW i \in I, NEW s \in f[i], s.visibility = "restricted"
        PROVE  Mixed(joins)
    BY <1>4, <2>1 DEF Mixed
  <2>2. ASSUME NEW i \in I, NEW s \in f[i], s.visibility = "organization",
               NEW j \in I, NEW t \in f[j], t.visibility = "personal"
        PROVE  Mixed(joins)
    <3>1. Inherit(f[i]).visibility \in {"organization", "restricted"}
      BY <1>4, <2>2
    <3>2. Inherit(f[j]).visibility \in {"personal", "restricted"}
      BY <1>4, <2>2
    <3> QED BY <3>1, <3>2 DEF Mixed
  <2> QED BY <2>1, <2>2 DEF Mixed
<1>9. CASE Mixed(all)
  <2> HIDE DEF joins, all
  <2>1. Inherit(joins) = Restricted
    BY <1>3, <1>8, <1>9, InheritIs
  <2>2. Inherit(all) = Restricted
    BY <1>3, <1>9, InheritIs
  <2> QED BY <2>1, <2>2 DEF joins, all
<1>10. CASE ~ Mixed(all)
  <2> DEFINE s == Inherit(joins)
             t == Inherit(all)
  <2>1. \A i \in I : ~ Mixed(f[i])
    BY <1>10 DEF Mixed
  <2>2. /\ s \in ScopeFields /\ t \in ScopeFields
        /\ s.visibility \in Visibility \ {"restricted"}
        /\ t.visibility \in Visibility \ {"restricted"}
        /\ \A v \in {"organization", "personal"} :
              /\ s.visibility = v <=> \E x \in joins : x.visibility = v
              /\ t.visibility = v <=> \E x \in all : x.visibility = v
    <3> HIDE DEF joins, all
    <3> QED BY <1>3, <1>7, <1>10, InheritIs DEF Scopes
  <2>3. ASSUME NEW v \in {"organization", "personal"}
        PROVE  (\E x \in joins : x.visibility = v) <=> \E x \in all : x.visibility = v
    <3>1. ASSUME NEW i \in I, NEW x \in f[i], x.visibility = v
          PROVE  Inherit(f[i]).visibility = v
      BY <1>1, <2>1, <3>1, InheritIs
    <3> QED BY <1>5, <3>1
  <2>4. s.visibility = t.visibility
    <3> HIDE DEF joins, all, s, t
    <3> QED BY <2>2, <2>3 DEF Visibility
  <2>5. s.publication = t.publication
    <3> DEFINE g == [i \in I |-> {x.publication : x \in f[i]}]
    <3>1. g \in [I -> SUBSET Level] /\ \A i \in I : g[i] # {}
      BY <1>1 DEF ScopeFields
    <3>2. \A i \in I : Inherit(f[i]).publication = Strictest(g[i])
      BY <1>1, <2>1, InheritIs
    <3>3. {x.publication : x \in joins} = Tops(g, I)
      BY <3>2 DEF Tops
    <3>4. {x.publication : x \in all} = Joined(g, I)
      BY DEF Joined
    <3>5. /\ s.publication = Strictest({x.publication : x \in joins})
          /\ t.publication = Strictest({x.publication : x \in all})
      <4> HIDE DEF joins, all
      <4> QED BY <1>3, <1>7, <1>10, InheritIs
    <3> HIDE DEF g, joins, all, s, t
    <3> QED BY <3>1, <3>3, <3>4, <3>5, StrictestOfStrictest
  <2>6. s.execution = t.execution
    <3> DEFINE g == [i \in I |-> {x.execution : x \in f[i]}]
    <3>1. g \in [I -> SUBSET Level] /\ \A i \in I : g[i] # {}
      BY <1>1 DEF ScopeFields
    <3>2. \A i \in I : Inherit(f[i]).execution = Strictest(g[i])
      BY <1>1, <2>1, InheritIs
    <3>3. {x.execution : x \in joins} = Tops(g, I)
      BY <3>2 DEF Tops
    <3>4. {x.execution : x \in all} = Joined(g, I)
      BY DEF Joined
    <3>5. /\ s.execution = Strictest({x.execution : x \in joins})
          /\ t.execution = Strictest({x.execution : x \in all})
      <4> HIDE DEF joins, all
      <4> QED BY <1>3, <1>7, <1>10, InheritIs
    <3> HIDE DEF g, joins, all, s, t
    <3> QED BY <3>1, <3>3, <3>4, <3>5, StrictestOfStrictest
  <2>7. s.persistence = t.persistence
    <3> DEFINE g == [i \in I |-> {x.persistence : x \in f[i]}]
    <3>1. g \in [I -> SUBSET Level] /\ \A i \in I : g[i] # {}
      BY <1>1 DEF ScopeFields
    <3>2. \A i \in I : Inherit(f[i]).persistence = Strictest(g[i])
      BY <1>1, <2>1, InheritIs
    <3>3. {x.persistence : x \in joins} = Tops(g, I)
      BY <3>2 DEF Tops
    <3>4. {x.persistence : x \in all} = Joined(g, I)
      BY DEF Joined
    <3>5. /\ s.persistence = Strictest({x.persistence : x \in joins})
          /\ t.persistence = Strictest({x.persistence : x \in all})
      <4> HIDE DEF joins, all
      <4> QED BY <1>3, <1>7, <1>10, InheritIs
    <3> HIDE DEF g, joins, all, s, t
    <3> QED BY <3>1, <3>3, <3>4, <3>5, StrictestOfStrictest
  <2>8. s = t
    <3> HIDE DEF joins, all, s, t
    <3> QED BY <2>2, <2>4, <2>5, <2>6, <2>7 DEF ScopeFields
  <2> QED BY <2>8 DEF s, t
<1> QED BY <1>9, <1>10

(***************************************************************************)
(* What a view is made of.                                                 *)
(***************************************************************************)
\* Records as a session admits them: finitely many, each in a garden it reads, each
\* with a scope.
Sound(session, A) ==
    /\ IsFiniteSet(DOMAIN A)
    /\ \A i \in DOMAIN A : /\ A[i].garden \in SelectedGardens(session)
                           /\ DeclaredScope(session, A[i]) \in Scopes

\* scope[n] joins along n dependencies.
Spreads(scope, k, session, A, ids) ==
    /\ scope \in [0..k -> [ids -> Scopes]]
    /\ scope[0] = [i \in ids |-> DeclaredScope(session, A[i])]
    /\ \A n \in 1..k :
          scope[n] = [i \in ids |-> Inherit({scope[n - 1][j] :
                                               j \in {i} \cup Dependencies(A[i])})]

\* The scopes are spread by as many joins as there are records.
LEMMA EffectiveIs ==
    ASSUME NEW session, NEW A, Sound(session, A), NEW ids, ids \subseteq DOMAIN A, Closed(A, ids)
    PROVE  \E scope :
              /\ Effective(session, A, ids) = scope[Cardinality(ids)]
              /\ Spreads(scope, Cardinality(ids), session, A, ids)
<1> DEFINE k == Cardinality(ids)
           D == [ids -> Scopes]
           base == [i \in ids |-> DeclaredScope(session, A[i])]
           step == [now \in D |-> [i \in ids |-> Inherit({now[j] : j \in {i} \cup Dependencies(A[i])})]]
           F == [n \in 1..k |-> step]
           Is(f) == f = [n \in 0..k |->
                           IF n = 0 THEN [i \in ids |-> DeclaredScope(session, A[i])]
                           ELSE LET now == f[n - 1]
                                IN  [i \in ids |-> Inherit({now[j] : j \in {i} \cup Dependencies(A[i])})]]
           scope == CHOOSE f : Is(f)
<1>1. k \in Nat
  BY FS_CardinalityType, FS_Subset DEF Sound
<1>2. base \in D
  BY DEF Sound
<1>3. step \in [D -> D]
  <2>1. ASSUME NEW now \in D, NEW i \in ids
        PROVE  Inherit({now[j] : j \in {i} \cup Dependencies(A[i])}) \in Scopes
    <3>1. {i} \cup Dependencies(A[i]) \subseteq ids
      BY DEF Closed
    <3>2. \A j \in ids : now[j] \in Scopes
      OBVIOUS
    <3>3. {now[j] : j \in {i} \cup Dependencies(A[i])} \in SUBSET ScopeFields
      BY <3>1, <3>2 DEF Scopes
    <3>4. {now[j] : j \in {i} \cup Dependencies(A[i])} # {}
      OBVIOUS
    <3> QED BY <3>3, <3>4, InheritIs
  <2> QED BY <2>1
<1>4. F \in [1..k -> [D -> D]]
  <2> HIDE DEF step, D
  <2> QED BY <1>3
<1>5. PICK f : Run(f, D, k, base, F)
  <2> HIDE DEF D, F, k, base
  <2> QED BY <1>1, <1>2, <1>4, Running
<1>6. ASSUME NEW n \in 1..k
      PROVE  f[n] = [i \in ids |-> Inherit({f[n - 1][j] : j \in {i} \cup Dependencies(A[i])})]
  <2>1. n - 1 \in 0..k
    BY <1>1
  <2>2. f[n - 1] \in D
    BY <1>5, <2>1 DEF Run
  <2>3. F[n] = step /\ f[n] = F[n][f[n - 1]]
    BY <1>5 DEF Run
  <2> HIDE DEF D
  <2> QED BY <2>2, <2>3
<1>7. Is(f)
  <2>1. DOMAIN f = 0..k /\ f = [n \in 0..k |-> f[n]]
    <3> HIDE DEF D, F, k, base
    <3> QED BY <1>5 DEF Run
  <2>2. f[0] = base
    <3> HIDE DEF D, F, k, base
    <3> QED BY <1>5 DEF Run
  <2>3. \A n \in 0..k : n # 0 => n \in 1..k
    BY <1>1
  <2> HIDE DEF k
  <2> QED BY <1>6, <2>1, <2>2, <2>3
<1>8. Is(scope)
  <2> HIDE DEF Is
  <2> QED BY <1>7
<1>9. Effective(session, A, ids) = scope[k]
  BY DEF Effective
<1>10. scope[0] = base
  <2>1. 0 \in 0..k
    BY <1>1
  <2> HIDE DEF scope, k
  <2> QED BY <1>8, <2>1
<1>11. ASSUME NEW n \in 1..k
       PROVE  scope[n] = [i \in ids |-> Inherit({scope[n - 1][j] : j \in {i} \cup Dependencies(A[i])})]
  <2>1. n \in 0..k /\ n # 0
    BY <1>1
  <2> HIDE DEF scope, k
  <2> QED BY <1>8, <2>1
<1>12. DOMAIN scope = 0..k /\ scope = [n \in 0..k |-> scope[n]]
  <2> HIDE DEF scope, k
  <2> QED BY <1>8
<1>13. \A n \in 0..k : scope[n] \in D
  <2> DEFINE P == {n \in 0..k : scope[n] \in D}
  <2> HIDE DEF scope
  <2>1. 0 \in P
    BY <1>1, <1>2, <1>10
  <2>2. ASSUME NEW n \in 1..k, n - 1 \in P
        PROVE  n \in P
    <3>1. scope[n - 1] \in D /\ n \in 0..k
      BY <1>1, <2>2
    <3>2. scope[n] = step[scope[n - 1]]
      <4> HIDE DEF k, D
      <4> QED BY <1>11, <3>1
    <3> HIDE DEF step, D
    <3> QED BY <1>3, <3>1, <3>2
  <2> HIDE DEF P, k
  <2>3. \A n \in 0..k : n \in P
    BY <1>1, <2>1, <2>2, Upwards
  <2> QED BY <2>3 DEF P
<1> HIDE DEF scope, k, D
<1>14. scope \in [0..k -> D]
  BY <1>12, <1>13
<1>15. Spreads(scope, k, session, A, ids)
  BY <1>10, <1>11, <1>14 DEF D, Spreads
<1> QED BY <1>9, <1>15 DEF k

LEMMA EffectiveType ==
    ASSUME NEW session, NEW A, Sound(session, A), NEW ids, ids \subseteq DOMAIN A, Closed(A, ids)
    PROVE  Effective(session, A, ids) \in [ids -> Scopes]
<1>1. IsFiniteSet(ids)
  BY FS_Subset DEF Sound
<1>2. Cardinality(ids) \in 0..Cardinality(ids)
  BY <1>1, FS_CardinalityType
<1>3. PICK scope :
         /\ Effective(session, A, ids) = scope[Cardinality(ids)]
         /\ Spreads(scope, Cardinality(ids), session, A, ids)
  BY EffectiveIs
<1> QED BY <1>2, <1>3 DEF Spreads

\* What stands of the admitted records when nothing but presence and publication counts.
Base(session, A) == Standing(A, Public(session, A))

LEMMA BaseIs ==
    ASSUME NEW session, NEW A, Sound(session, A)
    PROVE  /\ Base(session, A) \subseteq Public(session, A)
           /\ Base(session, A) \subseteq DOMAIN A
           /\ Closed(A, Base(session, A))
           /\ Effective(session, A, Base(session, A)) \in [Base(session, A) -> Scopes]
<1>1. Public(session, A) \subseteq DOMAIN A
  BY DEF Public
<1>2. IsFiniteSet(Public(session, A))
  BY <1>1, FS_Subset DEF Sound
<1>3. /\ Base(session, A) \subseteq Public(session, A)
      /\ Closed(A, Base(session, A))
  BY <1>2, StandingClosed DEF Base
<1> QED BY <1>1, <1>3, EffectiveType

\* The authorized records: closed, and the joined scope of each is allowed.
LEMMA AuthorizedIs ==
    ASSUME NEW session, NEW A, Sound(session, A)
    PROVE  /\ Authorized(session, A) \subseteq Base(session, A)
           /\ Closed(A, Authorized(session, A))
           /\ \A i \in Authorized(session, A) :
                 AllowsScope(session, Effective(session, A, Base(session, A))[i])
<1> DEFINE effective == Effective(session, A, Base(session, A))
           ids == {i \in DOMAIN effective : AllowsScope(session, effective[i])}
<1>1. effective \in [Base(session, A) -> Scopes] /\ Base(session, A) \subseteq DOMAIN A
  BY BaseIs
<1>2. ids \subseteq Base(session, A) /\ \A i \in ids : AllowsScope(session, effective[i])
  BY <1>1
<1>3. IsFiniteSet(ids)
  <2> HIDE DEF ids
  <2> QED BY <1>1, <1>2, FS_Subset DEF Sound
<1>4. Authorized(session, A) = Standing(A, ids)
  BY DEF Authorized, AuthorizedUnder, Base
<1> HIDE DEF effective, ids
<1>5. Standing(A, ids) \subseteq ids /\ Closed(A, Standing(A, ids))
  BY <1>3, StandingClosed
<1> QED BY <1>2, <1>4, <1>5 DEF effective

\* Everything of a view is authorized.
LEMMA SelectedIs ==
    ASSUME NEW session, NEW A, Sound(session, A)
    PROVE  Selected(session, A, Authorized(session, A)) \subseteq Authorized(session, A)
<1> DEFINE authorized == Authorized(session, A)
           candidates == Candidates(session, A, authorized)
           window == FirstOf(candidates, session.budget)
           left == authorized \ (candidates \ window)
           standing == Standing(A, left)
           roots == window \cap standing
           nodes == roots \cup AssetsOf(session, A, standing, roots)
           carried == nodes \cup FirstOf(SynapsesAmong(A, standing, nodes), session.budget)
<1>1. IsFiniteSet(left) /\ left \subseteq authorized
  <2>1. authorized \subseteq DOMAIN A
    BY AuthorizedIs, BaseIs
  <2> HIDE DEF authorized, candidates, window
  <2> QED BY <2>1, FS_Subset DEF Sound
<1>2. standing \subseteq left /\ Closed(A, standing)
  <2> HIDE DEF left
  <2> QED BY <1>1, StandingClosed
<1>3. IsFiniteSet(standing)
  <2> HIDE DEF left, standing
  <2> QED BY <1>1, <1>2, FS_Subset
<1>4. carried \subseteq standing
  <2> HIDE DEF standing, window
  <2>1. roots \subseteq standing
    OBVIOUS
  <2> HIDE DEF roots
  <2>2. nodes \subseteq standing
    BY <2>1 DEF AssetsOf
  <2> HIDE DEF nodes
  <2> QED BY <2>2 DEF FirstOf, SynapsesAmong
<1>5. Selected(session, A, authorized) = Needed(A, carried, standing)
  BY DEF Selected, WithCandidates, WithWindow, WithRoots, WithCarried
<1> HIDE DEF standing, carried, left, authorized
<1>6. Needed(A, carried, standing) \subseteq standing
  BY <1>2, <1>3, <1>4, NeededWithin
<1> QED BY <1>1, <1>2, <1>5, <1>6 DEF authorized

(***************************************************************************)
(* Tables, and the views of them.                                          *)
(***************************************************************************)
\* What a world promises of the tables and of the session.
Stored ==
    /\ \A g \in Garden, t \in Tree :
          /\ IsFiniteSet(DOMAIN store[g][t])
          /\ DOMAIN store[g][t] \subseteq Nat
          /\ \A i \in DOMAIN store[g][t] : /\ store[g][t][i].garden = g
                                           /\ store[g][t][i].own \in Scopes \cup {NoScope}
                                           /\ {store[g][t][i].score, store[g][t][i].size} \subseteq Nat
    /\ \A g, h \in Garden : \A t, u \in Tree :
          g # h => DOMAIN store[g][t] \cap DOMAIN store[h][u] = {}
    /\ \A g \in Garden : store[g]["gone"] = <<>>
    /\ S.readable \subseteq Garden
    /\ S.scopes \in [Garden -> Scopes]
    /\ S.request \in Scopes
    /\ S.publication \in Level
    /\ S.execution \in Level
    /\ {S.budget, S.depth, S.profile.candidates} \subseteq Nat
    /\ {S.results, S.bytes, S.profile.items, S.profile.bytes} \subseteq Nat
    /\ S.profile.include \in Seq(Nat)

LEMMA TableIs ==
    ASSUME Stored, NEW trees \in [Garden -> Tree]
    PROVE  /\ IsFiniteSet(DOMAIN TableOf(trees))
           /\ \A i \in DOMAIN TableOf(trees) : \E g \in Garden : i \in DOMAIN store[g][trees[g]]
           /\ \A g \in Garden : \A i \in DOMAIN store[g][trees[g]] :
                 /\ i \in DOMAIN TableOf(trees)
                 /\ TableOf(trees)[i] = store[g][trees[g]][i]
                 /\ TableOf(trees)[i].garden = g
                 /\ TableOf(trees)[i].score \in Nat
                 /\ TableOf(trees)[i].size \in Nat
                 /\ i \in Nat
<1> DEFINE here == [g \in Garden |-> store[g][trees[g]]]
           all == UNION {DOMAIN here[g] : g \in Garden}
<1>1. TableOf(trees) = [i \in all |-> here[CHOOSE g \in Garden : i \in DOMAIN here[g]][i]]
  BY DEF TableOf
<1>2. DOMAIN TableOf(trees) = all
  BY <1>1
<1>3. \A g \in Garden : here[g] = store[g][trees[g]] /\ trees[g] \in Tree
  OBVIOUS
<1>4. IsFiniteSet(all)
  <2> DEFINE parts == {DOMAIN here[g] : g \in Garden}
  <2>1. IsFiniteSet(Garden)
    BY SomeGardens, FS_Interval DEF Garden
  <2>2. IsFiniteSet(parts)
    <3> DEFINE place == [g \in Garden |-> DOMAIN here[g]]
    <3>1. place \in Surjection(Garden, parts)
      BY DEF Surjection
    <3> HIDE DEF place, parts
    <3> QED BY <2>1, <3>1, FS_Surjection
  <2>3. \A p \in parts : IsFiniteSet(p)
    BY <1>3 DEF Stored
  <2> HIDE DEF parts
  <2>4. IsFiniteSet(UNION parts)
    BY <2>2, <2>3, FS_UNION
  <2> QED BY <2>4 DEF parts
<1>5. ASSUME NEW g \in Garden, NEW i \in DOMAIN here[g]
      PROVE  /\ i \in all
             /\ TableOf(trees)[i] = here[g][i]
             /\ here[g][i].garden = g
             /\ here[g][i].score \in Nat
             /\ here[g][i].size \in Nat
             /\ i \in Nat
  <2>1. \A h \in Garden : i \in DOMAIN here[h] => h = g
    BY <1>3, <1>5 DEF Stored
  <2>2. (CHOOSE h \in Garden : i \in DOMAIN here[h]) = g
    <3> HIDE DEF here
    <3> QED BY <1>5, <2>1
  <2>3. i \in all
    BY <1>5
  <2>4. /\ here[g][i].garden = g /\ i \in Nat
        /\ here[g][i].score \in Nat /\ here[g][i].size \in Nat
    BY <1>3, <1>5 DEF Stored
  <2> HIDE DEF here, all
  <2> QED BY <1>1, <2>2, <2>3, <2>4
<1>6. \A i \in all : \E g \in Garden : i \in DOMAIN store[g][trees[g]]
  BY <1>3
<1> HIDE DEF here, all
<1> QED BY <1>2, <1>3, <1>4, <1>5, <1>6

LEMMA AdmittedIs ==
    ASSUME Stored, NEW trees \in [Garden -> Tree]
    PROVE  /\ Sound(S, Admitted(S, TableOf(trees)))
           /\ DOMAIN Admitted(S, TableOf(trees)) \subseteq DOMAIN TableOf(trees)
           /\ \A i \in DOMAIN Admitted(S, TableOf(trees)) :
                 Admitted(S, TableOf(trees))[i] = TableOf(trees)[i]
<1> DEFINE R == TableOf(trees)
           A == Admitted(S, R)
<1>1. /\ DOMAIN A = {i \in DOMAIN R : Permitted(S, R[i])}
      /\ \A i \in DOMAIN A : A[i] = R[i]
  BY DEF Admitted, Restrict
<1>2. IsFiniteSet(DOMAIN A)
  BY <1>1, TableIs, FS_Subset
<1>3. ASSUME NEW i \in DOMAIN A
      PROVE  A[i].garden \in SelectedGardens(S) /\ DeclaredScope(S, A[i]) \in Scopes
  <2> DEFINE r == A[i]
             garden == S.scopes[r.garden]
  <2>1. r.garden \in SelectedGardens(S) /\ DeclaredScope(S, r) # NoScope
    BY <1>1, <1>3 DEF Permitted, Allowed
  <2>2. r.own \in Scopes \cup {NoScope}
    <3>0. i \in DOMAIN R /\ A[i] = R[i]
      BY <1>1, <1>3
    <3>1. PICK g \in Garden : i \in DOMAIN store[g][trees[g]]
      BY <3>0, TableIs
    <3>2. r = store[g][trees[g]][i]
      BY <3>0, <3>1, TableIs
    <3>3. trees[g] \in Tree
      OBVIOUS
    <3> QED BY <3>1, <3>2, <3>3 DEF Stored
  <2>3. r.garden \in Garden
    BY <2>1 DEF SelectedGardens, Stored
  <2>4. garden \in Scopes /\ garden \in ScopeFields
    BY <2>3 DEF Stored, Scopes
  <2>5. [garden EXCEPT !.visibility = "public"] \in ScopeFields
    BY <2>4 DEF ScopeFields, Visibility
  <2>6. r.own # NoScope => r.own \in ScopeFields
    BY <2>2 DEF Scopes
  <2> HIDE DEF garden, r
  <2>7. ASSUME NEW own, own # NoScope, own \in ScopeFields, NEW legacy
        PROVE  RecordScope(own, legacy, garden) \in Scopes \cup {NoScope}
    <3>1. Inherit({garden, own}) \in Scopes
      <4>1. {garden, own} \in SUBSET ScopeFields /\ {garden, own} # {}
        BY <2>4, <2>7
      <4> QED BY <4>1, InheritIs
    <3> QED BY <2>7, <3>1 DEF RecordScope
  <2>8. ASSUME NEW legacy
        PROVE  RecordScope(NoScope, legacy, garden) \in Scopes \cup {NoScope}
    <3>1. Inherit({garden, [garden EXCEPT !.visibility = "public"]}) \in Scopes
      <4> DEFINE both == {garden, [garden EXCEPT !.visibility = "public"]}
      <4>1. both \in SUBSET ScopeFields /\ both # {}
        BY <2>4, <2>5
      <4> HIDE DEF both
      <4>2. Inherit(both) \in Scopes
        BY <4>1, InheritIs
      <4> QED BY <4>2 DEF both
    <3>2. Inherit({garden}) \in Scopes
      <4>1. {garden} \in SUBSET ScopeFields /\ {garden} # {}
        BY <2>4
      <4> QED BY <4>1, InheritIs
    <3> QED BY <3>1, <3>2 DEF RecordScope
  <2>9. RecordScope(r.own, r.legacy, garden) \in Scopes \cup {NoScope}
    BY <2>6, <2>7, <2>8
  <2>10. Inherit({garden, IF r.own = NoScope THEN garden ELSE r.own}) \in Scopes
    <3> DEFINE both == {garden, IF r.own = NoScope THEN garden ELSE r.own}
    <3>1. both \in SUBSET ScopeFields /\ both # {}
      BY <2>4, <2>6
    <3> HIDE DEF both
    <3>2. Inherit(both) \in Scopes
      BY <3>1, InheritIs
    <3> QED BY <3>2 DEF both
  <2>11. DeclaredScope(S, r) \in Scopes \cup {NoScope}
    BY <2>9, <2>10 DEF DeclaredScope, garden
  <2> QED BY <2>1, <2>11 DEF r
<1> QED BY <1>1, <1>2, <1>3 DEF Sound

\* What a view that is not broken says.
LEMMA ViewIs ==
    ASSUME Stored, NEW trees \in [Garden -> Tree], NEW view, view = View(S, TableOf(trees)),
           ~ view.broken, NEW A, A = Admitted(S, TableOf(trees))
    PROVE  /\ view = ViewOf(S, A, Selected(S, A, Authorized(S, A)),
                            Effective(S, A, Base(S, A)))
           /\ view.ids \subseteq Authorized(S, A)
           /\ view.ids \subseteq DOMAIN A
           /\ DOMAIN view.scopes = view.ids
           /\ \A i \in view.ids : view.scopes[i] = Effective(S, A, Base(S, A))[i]
           /\ view.retired = Retired(A)
           /\ \A i \in view.ids : A[i].garden \in SelectedGardens(S)
<1>1. view = AdmittedView(S, A)
  BY DEF View
<1>2. ~ ViewBroken(A)
  BY <1>1 DEF AdmittedView
<1>3. view = ViewOf(S, A, Selected(S, A, Authorized(S, A)), Effective(S, A, Base(S, A)))
  BY <1>1, <1>2 DEF AdmittedView, Base
<1>4. Sound(S, A)
  BY AdmittedIs
<1>5. view.ids = Selected(S, A, Authorized(S, A))
  BY <1>3 DEF ViewOf
<1>6. /\ view.ids \subseteq Authorized(S, A)
      /\ Authorized(S, A) \subseteq Base(S, A)
      /\ Base(S, A) \subseteq DOMAIN A
      /\ Effective(S, A, Base(S, A)) \in [Base(S, A) -> Scopes]
  BY <1>4, <1>5, SelectedIs, AuthorizedIs, BaseIs
<1>7. view.scopes = Restrict(Effective(S, A, Base(S, A)), view.ids)
  BY <1>3, <1>5 DEF ViewOf
<1>8. /\ DOMAIN view.scopes = view.ids
      /\ \A i \in view.ids : view.scopes[i] = Effective(S, A, Base(S, A))[i]
  BY <1>7 DEF Restrict
<1>9. view.retired = Retired(A)
  BY <1>3 DEF ViewOf
<1> QED BY <1>3, <1>4, <1>6, <1>8, <1>9 DEF Sound

\* A record as a session sees it: without the links to what it does not.
Seen(r, ids) == [r EXCEPT !.links = @ \cap ids]

LEMMA RevisionIs ==
    ASSUME Stored, NEW trees \in [Garden -> Tree], NEW view, view = View(S, TableOf(trees)),
           ~ view.broken, NEW A, A = Admitted(S, TableOf(trees)),
           NEW g \in SelectedGardens(S)
    PROVE  view.revision[g] =
              {<<i, Seen(A[i], view.ids), view.scopes[i]>> : i \in {j \in view.ids : A[j].garden = g}}
              \cup {<<i, A[i]>> : i \in {j \in DOMAIN A : /\ A[j].garden = g
                                                         /\ A[j].moved # NoMove}}
<1> DEFINE ids == Selected(S, A, Authorized(S, A))
           scopes == Effective(S, A, Base(S, A))
<1>1. view = ViewOf(S, A, ids, scopes) /\ \A i \in view.ids : view.scopes[i] = scopes[i]
  BY ViewIs
<1> HIDE DEF ids, scopes
<1>2. view.ids = ids
  BY <1>1 DEF ViewOf
<1>3. view.revision[g] =
         {<<i, Seen(A[i], ids), scopes[i]>> : i \in {j \in ids : A[j].garden = g}}
         \cup {<<i, A[i]>> : i \in {j \in DOMAIN A : /\ A[j].garden = g
                                                    /\ A[j].moved # NoMove}}
  BY <1>1 DEF ViewOf, Seen
<1>4. {<<i, Seen(A[i], ids), scopes[i]>> : i \in {j \in ids : A[j].garden = g}}
         = {<<i, Seen(A[i], view.ids), view.scopes[i]>> : i \in {j \in view.ids : A[j].garden = g}}
  BY <1>1, <1>2
<1> QED BY <1>3, <1>4

\* What the first view shows, the second shows alike.
ShownAlike(v, w, A, B) ==
    /\ v.ids \subseteq w.ids
    /\ \A i \in v.ids : /\ v.scopes[i] = w.scopes[i]
                        /\ Seen(A[i], v.ids) = Seen(B[i], w.ids)
    /\ v.retired \subseteq w.retired

LEMMA AlikeOneWay ==
    ASSUME Stored, NEW a \in [Garden -> Tree], NEW b \in [Garden -> Tree],
           NEW v, v = View(S, TableOf(a)), NEW w, w = View(S, TableOf(b)),
           ~ v.broken, ~ w.broken, v.revision = w.revision,
           NEW A, A = Admitted(S, TableOf(a)), NEW B, B = Admitted(S, TableOf(b))
    PROVE  ShownAlike(v, w, A, B)
<1>1. ASSUME NEW i \in v.ids
      PROVE  /\ i \in w.ids
             /\ v.scopes[i] = w.scopes[i]
             /\ Seen(A[i], v.ids) = Seen(B[i], w.ids)
  <2> DEFINE g == A[i].garden
             t == <<i, Seen(A[i], v.ids), v.scopes[i]>>
  <2>1. g \in SelectedGardens(S)
    BY ViewIs
  <2>2. t \in v.revision[g]
    <3> HIDE DEF t
    <3> DEFINE here == {<<k, Seen(A[k], v.ids), v.scopes[k]>> : k \in {j \in v.ids : A[j].garden = g}}
    <3>1. t \in here
      BY DEF t
    <3> HIDE DEF here, g
    <3>2. v.revision[g] = here
              \cup {<<k, A[k]>> : k \in {j \in DOMAIN A : /\ A[j].garden = g
                                                         /\ A[j].moved # NoMove}}
      BY <2>1, RevisionIs DEF here
    <3> QED BY <3>1, <3>2
  <2>3. t \in w.revision[g]
    BY <2>2
  <2>4. w.revision[g] =
          {<<k, Seen(B[k], w.ids), w.scopes[k]>> : k \in {j \in w.ids : B[j].garden = g}}
              \cup {<<k, B[k]>> : k \in {j \in DOMAIN B : /\ B[j].garden = g
                                                         /\ B[j].moved # NoMove}}
    <3> HIDE DEF g
    <3> QED BY <2>1, RevisionIs
  <2>5. \A k : t # <<k, B[k]>>
    OBVIOUS
  <2>6. PICK k \in w.ids : t = <<k, Seen(B[k], w.ids), w.scopes[k]>>
    <3> HIDE DEF t, g
    <3> QED BY <2>3, <2>4, <2>5
  <2> QED BY <2>6
<1>2. ASSUME NEW m \in v.retired
      PROVE  m \in w.retired
  <2>1. v.retired = Retired(A) /\ w.retired = Retired(B)
    BY ViewIs
  <2>2. PICK i \in DOMAIN A : A[i].moved # NoMove /\ m = A[i].moved.from
    BY <2>1 DEF Retired, Moves
  <2> DEFINE g == A[i].garden
             t == <<i, A[i]>>
  <2>3. Sound(S, A)
    BY AdmittedIs
  <2>4. g \in SelectedGardens(S)
    BY <2>3 DEF Sound
  <2>5. t \in v.revision[g]
    <3> HIDE DEF t
    <3> DEFINE here == {<<k, A[k]>> : k \in {j \in DOMAIN A : /\ A[j].garden = g
                                                             /\ A[j].moved # NoMove}}
    <3>1. t \in here
      BY <2>2 DEF t
    <3> HIDE DEF here, g
    <3>2. v.revision[g] =
            {<<k, Seen(A[k], v.ids), v.scopes[k]>> : k \in {j \in v.ids : A[j].garden = g}}
              \cup here
      BY <2>4, RevisionIs DEF here
    <3> QED BY <3>1, <3>2
  <2>6. t \in w.revision[g]
    BY <2>5
  <2>7. w.revision[g] =
          {<<k, Seen(B[k], w.ids), w.scopes[k]>> : k \in {j \in w.ids : B[j].garden = g}}
              \cup {<<k, B[k]>> : k \in {j \in DOMAIN B : /\ B[j].garden = g
                                                         /\ B[j].moved # NoMove}}
    <3> HIDE DEF g
    <3> QED BY <2>4, RevisionIs
  <2>8. \A k : t # <<k, Seen(B[k], w.ids), w.scopes[k]>>
    OBVIOUS
  <2>9. PICK k \in DOMAIN B : B[k].moved # NoMove /\ t = <<k, B[k]>>
    <3> HIDE DEF t, g
    <3> QED BY <2>6, <2>7, <2>8
  <2>10. A[i].moved = B[k].moved
    BY <2>9
  <2>11. m = B[k].moved.from /\ B[k].moved \in Moves(B)
    BY <2>2, <2>9, <2>10 DEF Moves
  <2>12. m \in Retired(B)
    BY <2>11 DEF Retired
  <2> QED BY <2>1, <2>12
<1> QED BY <1>1, <1>2 DEF ShownAlike

\* A view has these five fields, and no other.
Whole(v) == /\ v = [broken |-> v.broken, ids |-> v.ids, scopes |-> v.scopes,
                    retired |-> v.retired, revision |-> v.revision]
            /\ v.broken = FALSE

LEMMA WholeView ==
    ASSUME NEW session, NEW A, NEW ids, NEW scopes
    PROVE  Whole(ViewOf(session, A, ids, scopes))
<1> DEFINE revision ==
             [g \in SelectedGardens(session) |->
                {<<i, [A[i] EXCEPT !.links = @ \cap ids], scopes[i]>> :
                    i \in {j \in ids : A[j].garden = g}}
                \cup {<<i, A[i]>> : i \in {j \in DOMAIN A : /\ A[j].garden = g
                                                           /\ A[j].moved # NoMove}}]
<1>1. ViewOf(session, A, ids, scopes)
         = [broken |-> FALSE, ids |-> ids, scopes |-> Restrict(scopes, ids),
            retired |-> Retired(A), revision |-> revision]
  BY DEF ViewOf
<1> HIDE DEF revision
<1> QED BY <1>1 DEF Whole

\* A revision tells a view: two that have the same are the same.
LEMMA SameView ==
    ASSUME Stored, NEW a \in [Garden -> Tree], NEW b \in [Garden -> Tree],
           NEW v, v = View(S, TableOf(a)), NEW w, w = View(S, TableOf(b)),
           ~ v.broken, ~ w.broken, v.revision = w.revision
    PROVE  /\ v = w
           /\ \A i \in v.ids : /\ i \in DOMAIN TableOf(a) /\ i \in DOMAIN TableOf(b)
                               /\ Seen(TableOf(a)[i], v.ids) = Seen(TableOf(b)[i], v.ids)
<1> DEFINE A == Admitted(S, TableOf(a))
           B == Admitted(S, TableOf(b))
<1>1. ShownAlike(v, w, A, B) /\ ShownAlike(w, v, B, A)
  <2> HIDE DEF A, B
  <2>1. A = Admitted(S, TableOf(a)) /\ B = Admitted(S, TableOf(b))
    BY DEF A, B
  <2> QED BY <2>1, AlikeOneWay
<1>2. v.ids = w.ids /\ v.retired = w.retired
  BY <1>1 DEF ShownAlike
<1>3. v.scopes = w.scopes
  <2>1. DOMAIN v.scopes = v.ids /\ DOMAIN w.scopes = w.ids
    BY ViewIs
  <2>2. \A i \in v.ids : v.scopes[i] = w.scopes[i]
    BY <1>1 DEF ShownAlike
  <2>3. v.scopes = [i \in v.ids |-> v.scopes[i]] /\ w.scopes = [i \in w.ids |-> w.scopes[i]]
    <3>1. /\ v = ViewOf(S, A, Selected(S, A, Authorized(S, A)), Effective(S, A, Base(S, A)))
          /\ w = ViewOf(S, B, Selected(S, B, Authorized(S, B)), Effective(S, B, Base(S, B)))
      BY ViewIs
    <3> HIDE DEF A, B
    <3> QED BY <3>1 DEF ViewOf, Restrict
  <2> QED BY <1>2, <2>2, <2>3
<1>4. v = w
  <2>1. /\ v = ViewOf(S, A, Selected(S, A, Authorized(S, A)), Effective(S, A, Base(S, A)))
        /\ w = ViewOf(S, B, Selected(S, B, Authorized(S, B)), Effective(S, B, Base(S, B)))
    BY ViewIs
  <2> HIDE DEF A, B
  <2>2. Whole(v) /\ Whole(w)
    BY <2>1, WholeView
  <2> QED BY <1>2, <1>3, <2>2 DEF Whole
<1>5. ASSUME NEW i \in v.ids
      PROVE  /\ i \in DOMAIN TableOf(a) /\ i \in DOMAIN TableOf(b)
             /\ Seen(TableOf(a)[i], v.ids) = Seen(TableOf(b)[i], v.ids)
  <2>1. i \in DOMAIN A /\ i \in DOMAIN B
    BY <1>2, ViewIs
  <2>2. /\ i \in DOMAIN TableOf(a) /\ A[i] = TableOf(a)[i]
        /\ i \in DOMAIN TableOf(b) /\ B[i] = TableOf(b)[i]
    BY <2>1, AdmittedIs
  <2>3. Seen(A[i], v.ids) = Seen(B[i], v.ids)
    BY <1>1, <1>2 DEF ShownAlike
  <2> QED BY <2>2, <2>3
<1> QED BY <1>4, <1>5

\* The same of the tables that two readings find.
Agree(a, b) ==
    /\ View(S, TableOf(a)) = View(S, TableOf(b))
    /\ \A i \in View(S, TableOf(a)).ids :
          /\ i \in DOMAIN TableOf(a) /\ i \in DOMAIN TableOf(b)
          /\ Seen(TableOf(a)[i], View(S, TableOf(a)).ids)
               = Seen(TableOf(b)[i], View(S, TableOf(a)).ids)

LEMMA SameViews ==
    ASSUME Stored, NEW a \in [Garden -> Tree], NEW b \in [Garden -> Tree],
           ~ View(S, TableOf(a)).broken, ~ View(S, TableOf(b)).broken,
           View(S, TableOf(a)).revision = View(S, TableOf(b)).revision
    PROVE  Agree(a, b)
<1> DEFINE v == View(S, TableOf(a))
           w == View(S, TableOf(b))
<1>1. v = View(S, TableOf(a)) /\ w = View(S, TableOf(b))
  OBVIOUS
<1>2. ~ v.broken /\ ~ w.broken /\ v.revision = w.revision
  OBVIOUS
<1> HIDE DEF v, w
<1>3. /\ v = w
      /\ \A i \in v.ids : /\ i \in DOMAIN TableOf(a) /\ i \in DOMAIN TableOf(b)
                          /\ Seen(TableOf(a)[i], v.ids) = Seen(TableOf(b)[i], v.ids)
  BY <1>1, <1>2, SameView
<1> QED BY <1>1, <1>3 DEF Agree

(***************************************************************************)
(* The query among writes, roll-backs and withdrawals.                     *)
(***************************************************************************)
Stages == {"idle", "viewing", "opening", "checking", "rechecking", "writing", "answered",
           "written", "refused"}

WriterStages == {"idle", "locking", "selecting", "undoing", "unlocking", "done"}

\* The answer is made, or given.
Done == {"writing", "answered", "written"}

Query(q) == q = [pc |-> q.pc, garden |-> q.garden, seen |-> q.seen, opened |-> q.opened,
                 again |-> q.again, checks |-> q.checks, view |-> q.view, answer |-> q.answer]

TypeOK ==
    /\ Query(query)
    /\ query.pc \in Stages
    /\ query.garden \in 0..(Gardens + 1)
    /\ query.seen \in [Garden -> Tree]
    /\ query.opened \in [Garden -> Tree]
    /\ query.again \in [Garden -> Tree]
    /\ query.checks \in 0..Checks
    /\ tree \in [Garden -> Tree]
    /\ writer \in [pc : WriterStages, targets : SUBSET Garden, committed : BOOLEAN]
    /\ withdrawn \in BOOLEAN
    /\ warned \in BOOLEAN
    /\ undone \in BOOLEAN

\* What the session was made for.
Fixed ==
    /\ Stored
    /\ pinned = View(S, TableOf(Original))
    /\ ~ pinned.broken
    /\ due.shown = {i \in DOMAIN Admitted(S, TableOf(Original)) :
                       MayBeShown(S, Admitted(S, TableOf(Original)), i)}
    /\ due.answer = Answer(S, pinned, TableOf(Original), pinned.ids)

LEMMA FixedInit == Init => Fixed
<1> SUFFICES ASSUME Init
             PROVE  Fixed
  OBVIOUS
<1>1. PICK w \in World :
         /\ S = Session(w)
         /\ store = [g \in Garden |-> [t \in Tree |->
                        IF t = "gone" THEN <<>> ELSE Records(w, g, t)]]
  BY DEF Init
<1>2. \A g \in Garden :
         /\ store[g]["gone"] = <<>>
         /\ store[g]["before"] = Records(w, g, "before")
         /\ store[g]["after"] = Records(w, g, "after")
  BY <1>1 DEF Tree
<1>3. DOMAIN <<>> = {} /\ IsFiniteSet({})
  BY FS_EmptySet
<1>4. ASSUME NEW g \in Garden, NEW t \in Tree
      PROVE  /\ IsFiniteSet(DOMAIN store[g][t])
             /\ DOMAIN store[g][t] \subseteq Nat
             /\ \A i \in DOMAIN store[g][t] : /\ store[g][t][i].garden = g
                                              /\ store[g][t][i].own \in Scopes \cup {NoScope}
                                              /\ {store[g][t][i].score, store[g][t][i].size}
                                                    \subseteq Nat
  <2>1. CASE t = "gone"
    BY <1>2, <1>3, <2>1
  <2>2. CASE t \in {"before", "after"}
    <3>1. store[g][t] = Records(w, g, t)
      BY <1>2, <2>2
    <3> QED BY <2>2, <3>1, RecordsAreOwned
  <2> QED BY <2>1, <2>2 DEF Tree
<1>5. ASSUME NEW g \in Garden, NEW h \in Garden, NEW t \in Tree, NEW u \in Tree, g # h
      PROVE  DOMAIN store[g][t] \cap DOMAIN store[h][u] = {}
  <2>1. CASE t = "gone" \/ u = "gone"
    BY <1>2, <1>3, <2>1
  <2>2. CASE t \in {"before", "after"} /\ u \in {"before", "after"}
    <3>1. store[g][t] = Records(w, g, t) /\ store[h][u] = Records(w, h, u)
      BY <1>2, <2>2
    <3> QED BY <1>5, <2>2, <3>1, RecordsAreOwned
  <2> QED BY <2>1, <2>2 DEF Tree
<1>6. /\ S.readable \subseteq Garden
      /\ S.scopes \in [Garden -> Scopes]
      /\ S.request \in Scopes
      /\ S.publication \in Level
      /\ S.execution \in Level
      /\ {S.budget, S.depth, S.profile.candidates} \subseteq Nat
      /\ {S.results, S.bytes, S.profile.items, S.profile.bytes} \subseteq Nat
      /\ S.profile.include \in Seq(Nat)
  BY <1>1, SessionsAreValid
<1>7. Stored
  BY <1>2, <1>4, <1>5, <1>6 DEF Stored
<1>8. /\ pinned = View(S, TableOf(Original))
      /\ ~ pinned.broken
      /\ due = [shown |-> {i \in DOMAIN Admitted(S, TableOf(Original)) :
                              MayBeShown(S, Admitted(S, TableOf(Original)), i)},
                answer |-> Answer(S, pinned, TableOf(Original), pinned.ids)]
  BY DEF Init
<1> QED BY <1>7, <1>8 DEF Fixed

LEMMA FixedStays == Fixed /\ [Next]_vars => UNCHANGED fixed /\ Fixed'
<1> SUFFICES ASSUME Fixed, [Next]_vars
             PROVE  UNCHANGED fixed /\ Fixed'
  OBVIOUS
<1>1. UNCHANGED fixed
  <2>1. CASE QueryStep
    BY <2>1 DEF QueryStep, Open, ReadMetadata, CheckPins, ReadBodies, CheckLive, ReadAgain,
                Conclude, WriteProjection
  <2>2. CASE WriterStep
    BY <2>2 DEF WriterStep, BeginWrite, LockGarden, SelectTree, FailWrite, UndoTree,
                UnlockGarden
  <2>3. CASE Withdraw
    BY <2>3 DEF Withdraw
  <2>4. CASE UNCHANGED vars
    BY <2>4 DEF vars, fixed
  <2> QED BY <2>1, <2>2, <2>3, <2>4 DEF Next
<1>2. store' = store /\ S' = S /\ pinned' = pinned /\ due' = due
  BY <1>1 DEF fixed
<1>3. Stored'
  BY <1>2 DEF Fixed, Stored
<1>4. TableOf(Original)' = TableOf(Original)
  BY <1>2 DEF TableOf, Original
<1>5. View(S, TableOf(Original))' = View(S, TableOf(Original))
  BY <1>2, <1>4
<1>6. Admitted(S, TableOf(Original))' = Admitted(S, TableOf(Original))
  BY <1>2, <1>4
<1>7. Answer(S, pinned, TableOf(Original), pinned.ids)'
        = Answer(S, pinned, TableOf(Original), pinned.ids)
  BY <1>2, <1>4
<1>9. (due.shown = {i \in DOMAIN Admitted(S, TableOf(Original)) :
                       MayBeShown(S, Admitted(S, TableOf(Original)), i)})'
  BY <1>2, <1>6 DEF Fixed
<1>10. (due.answer = Answer(S, pinned, TableOf(Original), pinned.ids))'
  BY <1>2, <1>7 DEF Fixed
<1> QED BY <1>1, <1>2, <1>3, <1>5, <1>9, <1>10 DEF Fixed

(***************************************************************************)
(* What each step of the query makes of it.                                *)
(***************************************************************************)
Becomes(pc, garden, seen, opened, again, checks, view, answer) ==
    query' = [pc |-> pc, garden |-> garden, seen |-> seen, opened |-> opened, again |-> again,
              checks |-> checks, view |-> view, answer |-> answer]

Refused == Becomes("refused", 0, Unread, Unread, Unread, 0, <<>>, <<>>)

LEMMA RefuseIs == Refuse => Refused
BY DEF Refuse, Refused, Becomes, NoQuery

LEMMA OpenIs ==
    ASSUME TypeOK, Open
    PROVE  /\ query.pc = "idle"
           /\ \/ Refused
              \/ /\ ~ withdrawn
                 /\ Becomes("viewing", FirstGarden, query.seen, query.opened, query.again,
                            query.checks, query.view, query.answer)
BY RefuseIs DEF Open, Live, TypeOK, Query, Becomes

LEMMA ReadMetadataIs ==
    ASSUME TypeOK, ReadMetadata
    PROVE  /\ query.pc = "viewing" /\ query.garden \in Garden
           /\ \/ Refused
              \/ /\ tree[query.garden] # "gone"
                 /\ Becomes("viewing", NextGarden(query.garden),
                            [query.seen EXCEPT ![query.garden] = tree[query.garden]],
                            query.opened, query.again, query.checks, query.view, query.answer)
BY RefuseIs DEF ReadMetadata, TypeOK, Query, Becomes

LEMMA CheckPinsIs ==
    ASSUME TypeOK, CheckPins
    PROVE  /\ query.pc = "viewing" /\ query.garden \notin Garden
           /\ \/ Refused
              \/ \E view \in {View(S, TableOf(query.seen))} :
                    /\ ~ view.broken
                    /\ view.revision = pinned.revision
                    /\ Becomes(IF FirstGarden \in Garden THEN "opening" ELSE "checking",
                               FirstGarden, query.seen, query.opened, query.again, Checks, view,
                               query.answer)
<1> DEFINE view == View(S, TableOf(query.seen))
<1>1. IF view.broken \/ view.revision # pinned.revision THEN Refuse
      ELSE query' = [query EXCEPT
                        !.pc = IF FirstGarden \in Garden THEN "opening" ELSE "checking",
                        !.garden = FirstGarden, !.checks = Checks, !.view = view]
  BY DEF CheckPins
<1> HIDE DEF view
<1>2. \/ Refused
      \/ /\ ~ view.broken
         /\ view.revision = pinned.revision
         /\ Becomes(IF FirstGarden \in Garden THEN "opening" ELSE "checking",
                    FirstGarden, query.seen, query.opened, query.again, Checks, view,
                    query.answer)
  BY <1>1, RefuseIs DEF TypeOK, Query, Becomes
<1>3. query.pc = "viewing" /\ query.garden \notin Garden
  BY DEF CheckPins
<1> QED BY <1>2, <1>3 DEF view

LEMMA ReadBodiesIs ==
    ASSUME TypeOK, ReadBodies
    PROVE  /\ query.pc = "opening"
           /\ \/ Refused
              \/ /\ tree[query.garden] # "gone"
                 /\ Becomes(IF NextGarden(query.garden) \in Garden THEN "opening" ELSE "checking",
                            NextGarden(query.garden), query.seen,
                            [query.opened EXCEPT ![query.garden] = tree[query.garden]],
                            query.again, query.checks, query.view, query.answer)
BY RefuseIs DEF ReadBodies, TypeOK, Query, Becomes

LEMMA CheckLiveIs ==
    ASSUME TypeOK, CheckLive
    PROVE  /\ query.pc = "checking"
           /\ \/ Refused
              \/ /\ ~ withdrawn
                 /\ Becomes("rechecking", FirstGarden, query.seen, query.opened, query.again,
                            query.checks, query.view, query.answer)
BY RefuseIs DEF CheckLive, Live, TypeOK, Query, Becomes

LEMMA ReadAgainIs ==
    ASSUME TypeOK, ReadAgain
    PROVE  /\ query.pc = "rechecking" /\ query.garden \in Garden
           /\ \/ Refused
              \/ Becomes("rechecking", NextGarden(query.garden), query.seen, query.opened,
                         [query.again EXCEPT ![query.garden] = tree[query.garden]],
                         query.checks, query.view, query.answer)
BY RefuseIs DEF ReadAgain, TypeOK, Query, Becomes

\* The views were as they were, once more.
AsPinned == \E view \in {View(S, TableOf(query.again))} :
               ~ view.broken /\ view.revision = pinned.revision

\* What is answered.
AnswerNow == Answer(S, query.view, TableOf(query.seen),
                    Held(query.view, TableOf(query.seen), TableOf(query.opened)))

LEMMA ConcludeIs ==
    ASSUME TypeOK, Conclude
    PROVE  /\ query.pc = "rechecking" /\ query.garden \notin Garden
           /\ \/ Refused
              \/ /\ AsPinned
                 /\ query.checks > 1
                 /\ Becomes("checking", query.garden, query.seen, query.opened, Unread,
                            query.checks - 1, query.view, query.answer)
              \/ /\ AsPinned
                 /\ ~ (query.checks > 1)
                 /\ \E end \in {"answered", "writing"} :
                       Becomes(end, query.garden, query.seen, query.opened, Unread, 0,
                               query.view, AnswerNow)
<1> DEFINE again == View(S, TableOf(query.again))
<1>1. query.pc = "rechecking" /\ query.garden \notin Garden
  BY DEF Conclude
<1>2. IF again.broken \/ again.revision # pinned.revision THEN Refuse
      ELSE IF query.checks > 1
      THEN query' = [query EXCEPT !.pc = "checking", !.again = Unread, !.checks = @ - 1]
      ELSE \E end \in {"answered", "writing"} :
             query' = [query EXCEPT !.pc = end, !.again = Unread, !.checks = 0,
                                    !.answer = AnswerNow]
  BY DEF Conclude, AnswerNow
<1>3. ~ (again.broken \/ again.revision # pinned.revision) => AsPinned
  BY DEF AsPinned
<1> HIDE DEF again
<1>4. CASE again.broken \/ again.revision # pinned.revision
  BY <1>1, <1>2, <1>4, RefuseIs
<1>5. CASE ~ (again.broken \/ again.revision # pinned.revision) /\ query.checks > 1
  BY <1>1, <1>2, <1>3, <1>5 DEF TypeOK, Query, Becomes
<1>6. CASE ~ (again.broken \/ again.revision # pinned.revision) /\ ~ (query.checks > 1)
  <2>1. PICK end \in {"answered", "writing"} :
          query' = [query EXCEPT !.pc = end, !.again = Unread, !.checks = 0,
                                 !.answer = AnswerNow]
    BY <1>2, <1>6
  <2>2. Becomes(end, query.garden, query.seen, query.opened, Unread, 0, query.view, AnswerNow)
    BY <2>1 DEF TypeOK, Query, Becomes
  <2> QED BY <1>1, <1>3, <1>6, <2>2
<1> QED BY <1>4, <1>5, <1>6

\* The cache that is written carries what the view and its gardens demand.
Carried == /\ S.writable \in Reading
           /\ Decide("write",
                     {OutputScope(S, {S.scopes[g] : g \in Reading}
                                     \cup {query.view.scopes[i] : i \in query.view.ids})},
                     S.scopes[S.writable], FALSE) = "allow"

LEMMA WriteProjectionIs ==
    ASSUME TypeOK, WriteProjection
    PROVE  /\ query.pc = "writing"
           /\ \/ Refused
              \/ /\ ~ withdrawn
                 /\ Carried
                 /\ Becomes("written", query.garden, query.seen, query.opened, query.again,
                            query.checks, query.view, query.answer)
<1> DEFINE output == OutputScope(S, {S.scopes[g] : g \in Reading}
                                    \cup {query.view.scopes[i] : i \in query.view.ids})
           ready == /\ Live
                    /\ S.writable \in Reading
                    /\ Decide("write", {output}, S.scopes[S.writable], FALSE) = "allow"
<1>1. query.pc = "writing" /\ IF ready THEN query' = [query EXCEPT !.pc = "written"] ELSE Refuse
  BY DEF WriteProjection
<1>2. ready => ~ withdrawn /\ Carried
  BY DEF Live, Carried
<1> HIDE DEF ready, output
<1>3. CASE ~ ready
  BY <1>1, <1>3, RefuseIs
<1>4. CASE ready
  <2>1. Becomes("written", query.garden, query.seen, query.opened, query.again,
                query.checks, query.view, query.answer)
    BY <1>1, <1>4 DEF TypeOK, Query, Becomes
  <2> QED BY <1>1, <1>2, <1>4, <2>1
<1> QED BY <1>3, <1>4

LEMMA ReadingIs == Fixed => Reading \subseteq Garden
BY DEF Fixed, Stored, Reading, SelectedGardens

\* The gardens are read in their order, and none is passed over.
LEMMA NextIs ==
    ASSUME Reading \subseteq Garden, NEW g \in Nat
    PROVE  /\ NextGarden(g) \in 0..(Gardens + 1)
           /\ NextGarden(g) \in Garden => NextGarden(g) \in Reading
           /\ NextGarden(g) \notin Garden => \A h \in Reading : ~ (h > g)
           /\ \A h \in Reading : h > g => NextGarden(g) <= h
<1>1. Gardens \in Nat /\ Reading \subseteq Nat /\ Gardens + 1 \notin Garden
  BY SomeGardens DEF Garden
<1>2. CASE \E h \in Reading : h > g
  <2> DEFINE ahead == {h \in Reading : h > g}
  <2>1. PICK n \in ahead : \A m \in ahead : n <= m
    <3>1. ahead \subseteq Nat /\ ahead # {}
      BY <1>1, <1>2
    <3> HIDE DEF ahead
    <3> QED BY <3>1, Smallest
  <2>2. NextGarden(g) = Min(ahead)
    BY <1>2 DEF NextGarden
  <2>3. Min(ahead) \in ahead /\ \A m \in ahead : Min(ahead) <= m
    <3> HIDE DEF ahead
    <3> QED BY <2>1 DEF Min
  <2>4. NextGarden(g) \in Reading
    BY <2>2, <2>3
  <2>5. NextGarden(g) \in 0..(Gardens + 1)
    <3>1. NextGarden(g) \in Garden
      BY <2>4
    <3>2. \A h \in Garden : h \in 0..(Gardens + 1)
      BY <1>1 DEF Garden
    <3> HIDE DEF NextGarden
    <3> QED BY <3>1, <3>2
  <2>6. NextGarden(g) \in Garden
    BY <2>4
  <2> QED BY <2>2, <2>3, <2>4, <2>5, <2>6
<1>3. CASE ~ \E h \in Reading : h > g
  <2>1. NextGarden(g) = Gardens + 1
    BY <1>3 DEF NextGarden
  <2> QED BY <1>1, <1>3, <2>1
<1> QED BY <1>2, <1>3

(***************************************************************************)
(* The inductive invariant.                                                *)
(***************************************************************************)
\* The second reading opens every garden, after the first and before any other.
Opened ==
    /\ query.pc \in {"idle", "viewing"} => query.opened = Unread
    /\ query.pc = "opening" =>
          /\ query.garden \in Reading
          /\ \A h \in Reading : h < query.garden => query.opened[h] # "gone"
    /\ query.pc \in {"checking", "rechecking"} => \A h \in Reading : query.opened[h] # "gone"
    /\ query.pc \in {"idle", "viewing", "opening", "checking"} => query.again = Unread

\* The query works on the view that its session pins.
Viewed ==
    query.pc \in {"opening", "checking", "rechecking"} \cup Done =>
        /\ query.view = View(S, TableOf(query.seen))
        /\ ~ query.view.broken
        /\ query.view.revision = pinned.revision

\* What has been written stays, and is found again, as long as nothing is rolled back.
Forward ==
    ~ undone =>
        \A g \in Garden :
            /\ "after" \in {query.opened[g], query.again[g]} => tree[g] = "after"
            /\ query.opened[g] = "after" => query.again[g] # "before"

\* Authority that is withdrawn early enough stops the query.
Stopped ==
    warned => /\ withdrawn
              /\ query.pc \notin Done
              /\ query.pc = "rechecking" => query.checks > 1

Complete == query.pc \in Done /\ ~ undone /\ ~ Relinks => query.answer = due.answer

(***************************************************************************)
(* Types.                                                                  *)
(***************************************************************************)
LEMMA UnreadType == Unread \in [Garden -> Tree] /\ Original \in [Garden -> Tree]
BY DEF Unread, Original, Tree

LEMMA TypeStays == TypeOK /\ Fixed /\ Opened /\ [Next]_vars => TypeOK'
<1> SUFFICES ASSUME TypeOK, Fixed, Opened, [Next]_vars
             PROVE  TypeOK'
  OBVIOUS
<1> DEFINE QueryOK == /\ Query(query)
                      /\ query.pc \in Stages
                      /\ query.garden \in 0..(Gardens + 1)
                      /\ query.seen \in [Garden -> Tree]
                      /\ query.opened \in [Garden -> Tree]
                      /\ query.again \in [Garden -> Tree]
                      /\ query.checks \in 0..Checks
           RestOK == /\ tree \in [Garden -> Tree]
                     /\ writer \in [pc : WriterStages, targets : SUBSET Garden, committed : BOOLEAN]
                     /\ withdrawn \in BOOLEAN
                     /\ warned \in BOOLEAN
                     /\ undone \in BOOLEAN
<1>1. QueryOK /\ RestOK
  BY DEF TypeOK
<1>2. /\ Gardens \in Nat /\ Checks \in Nat /\ Checks # 0
      /\ Reading \subseteq Garden
      /\ FirstGarden \in 0..(Gardens + 1)
      /\ \A g \in 0..(Gardens + 1) : NextGarden(g) \in 0..(Gardens + 1)
  <2>1. Gardens \in Nat /\ Checks \in Nat /\ Checks # 0 /\ Reading \subseteq Garden
    BY SomeGardens, SomeChecks, ReadingIs
  <2>2. \A g \in 0..(Gardens + 1) : NextGarden(g) \in 0..(Gardens + 1)
    <3> SUFFICES ASSUME NEW g \in 0..(Gardens + 1)
                 PROVE  NextGarden(g) \in 0..(Gardens + 1)
      OBVIOUS
    <3>1. g \in Nat
      BY <2>1
    <3> QED BY <2>1, <3>1, NextIs
  <2>3. FirstGarden \in 0..(Gardens + 1)
    BY <2>1, NextIs DEF FirstGarden
  <2> QED BY <2>1, <2>2, <2>3
<1>3. ASSUME NEW pc \in Stages, NEW garden \in 0..(Gardens + 1), NEW seen \in [Garden -> Tree],
             NEW opened \in [Garden -> Tree], NEW again \in [Garden -> Tree],
             NEW checks \in 0..Checks, NEW view, NEW answer,
             Becomes(pc, garden, seen, opened, again, checks, view, answer)
      PROVE  QueryOK'
  BY <1>3 DEF Becomes, Query
<1>4. Refused => QueryOK'
  <2>1. "refused" \in Stages /\ 0 \in 0..(Gardens + 1) /\ 0 \in 0..Checks
    BY <1>2 DEF Stages
  <2> HIDE DEF QueryOK
  <2> QED BY <1>3, <2>1, UnreadType DEF Refused
<1>5. CASE QueryStep
  <2>1. RestOK'
    BY <1>1, <1>5 DEF QueryStep, Open, ReadMetadata, CheckPins, ReadBodies, CheckLive,
                      ReadAgain, Conclude, WriteProjection
  <2>2. \A g \in Garden : /\ [query.seen EXCEPT ![g] = tree[g]] \in [Garden -> Tree]
                          /\ [query.opened EXCEPT ![g] = tree[g]] \in [Garden -> Tree]
                          /\ [query.again EXCEPT ![g] = tree[g]] \in [Garden -> Tree]
    BY <1>1
  <2>3. {"idle", "viewing", "opening", "checking", "rechecking", "writing", "answered",
         "written"} \subseteq Stages
    BY DEF Stages
  <2>4. QueryOK'
    <3>1. CASE Open
      <4>1. Becomes("viewing", FirstGarden, query.seen, query.opened, query.again,
                    query.checks, query.view, query.answer) => QueryOK'
        <5> HIDE DEF QueryOK
        <5> QED BY <1>1, <1>2, <1>3, <2>3 DEF QueryOK
      <4> HIDE DEF QueryOK
      <4> QED BY <1>4, <3>1, <4>1, OpenIs
    <3>2. CASE ReadMetadata
      <4>1. query.garden \in Garden =>
              (Becomes("viewing", NextGarden(query.garden),
                            [query.seen EXCEPT ![query.garden] = tree[query.garden]],
                            query.opened, query.again, query.checks, query.view, query.answer)
                 => QueryOK')
        BY <1>1, <1>2, <1>3, <2>2, <2>3
      <4> HIDE DEF QueryOK
      <4> QED BY <1>4, <3>2, <4>1, ReadMetadataIs
    <3>3. CASE CheckPins
      <4>1. \A view :
              Becomes(IF FirstGarden \in Garden THEN "opening" ELSE "checking",
                      FirstGarden, query.seen, query.opened, query.again, Checks, view,
                      query.answer) => QueryOK'
        <5>1. Checks \in 0..Checks
          BY <1>2
        <5>2. (IF FirstGarden \in Garden THEN "opening" ELSE "checking") \in Stages
          BY <2>3
        <5> QED BY <1>1, <1>2, <1>3, <5>1, <5>2
      <4> HIDE DEF QueryOK
      <4> QED BY <1>4, <3>3, <4>1, CheckPinsIs
    <3>4. CASE ReadBodies
      <4>1. query.pc = "opening" => query.garden \in Garden
        BY <1>2 DEF Opened
      <4>2. query.garden \in Garden =>
              (Becomes(IF NextGarden(query.garden) \in Garden THEN "opening" ELSE "checking",
                            NextGarden(query.garden), query.seen,
                            [query.opened EXCEPT ![query.garden] = tree[query.garden]],
                            query.again, query.checks, query.view, query.answer)
                 => QueryOK')
        <5>1. (IF NextGarden(query.garden) \in Garden THEN "opening" ELSE "checking") \in Stages
          BY <2>3
        <5> QED BY <1>1, <1>2, <1>3, <2>2, <5>1
      <4> HIDE DEF QueryOK
      <4> QED BY <1>4, <3>4, <4>1, <4>2, ReadBodiesIs
    <3>5. CASE CheckLive
      <4>1. Becomes("rechecking", FirstGarden, query.seen, query.opened, query.again,
                    query.checks, query.view, query.answer) => QueryOK'
        BY <1>1, <1>2, <1>3, <2>3
      <4> HIDE DEF QueryOK
      <4> QED BY <1>4, <3>5, <4>1, CheckLiveIs
    <3>6. CASE ReadAgain
      <4>1. query.garden \in Garden =>
              (Becomes("rechecking", NextGarden(query.garden), query.seen, query.opened,
                         [query.again EXCEPT ![query.garden] = tree[query.garden]],
                         query.checks, query.view, query.answer)
                 => QueryOK')
        BY <1>1, <1>2, <1>3, <2>2, <2>3
      <4> HIDE DEF QueryOK
      <4> QED BY <1>4, <3>6, <4>1, ReadAgainIs
    <3>7. CASE Conclude
      <4>1. query.checks > 1 =>
              (Becomes("checking", query.garden, query.seen, query.opened, Unread,
                            query.checks - 1, query.view, query.answer) => QueryOK')
        <5>1. query.checks > 1 => query.checks - 1 \in 0..Checks
          BY <1>1, <1>2
        <5> QED BY <1>1, <1>2, <1>3, <2>3, <5>1, UnreadType
      <4>2. \A end \in {"answered", "writing"} :
              Becomes(end, query.garden, query.seen, query.opened, Unread, 0,
                               query.view, AnswerNow) => QueryOK'
        <5>1. 0 \in 0..Checks
          BY <1>2
        <5> QED BY <1>1, <1>2, <1>3, <2>3, <5>1, UnreadType
      <4> HIDE DEF QueryOK
      <4> QED BY <1>4, <3>7, <4>1, <4>2, ConcludeIs
    <3>8. CASE WriteProjection
      <4>1. Becomes("written", query.garden, query.seen, query.opened, query.again,
                            query.checks, query.view, query.answer) => QueryOK'
        BY <1>1, <1>2, <1>3, <2>3
      <4> HIDE DEF QueryOK
      <4> QED BY <1>4, <3>8, <4>1, WriteProjectionIs
    <3> QED BY <1>5, <3>1, <3>2, <3>3, <3>4, <3>5, <3>6, <3>7, <3>8 DEF QueryStep
  <2> QED BY <2>1, <2>4 DEF TypeOK
<1>6. CASE WriterStep
  <2>1. QueryOK'
    BY <1>1, <1>6 DEF WriterStep, BeginWrite, LockGarden, SelectTree, FailWrite, UndoTree,
                      UnlockGarden, Query
  <2>2. RestOK'
    <3>1. CASE \E targets \in Target : BeginWrite(targets)
      <4>1. PICK targets \in Target : BeginWrite(targets)
        BY <3>1
      <4>2. targets \in SUBSET Garden
        BY TargetsAreGardens
      <4> QED BY <1>1, <4>1, <4>2 DEF BeginWrite, WriterStages
    <3>2. CASE LockGarden
      BY <1>1, <3>2 DEF LockGarden, WriterStages
    <3>3. CASE SelectTree
      BY <1>1, <3>3 DEF SelectTree, Tree, WriterStages
    <3>4. CASE FailWrite
      BY <1>1, <3>4 DEF FailWrite, WriterStages
    <3>5. CASE UndoTree
      BY <1>1, <3>5 DEF UndoTree, Tree, WriterStages
    <3>6. CASE UnlockGarden
      BY <1>1, <3>6 DEF UnlockGarden, WriterStages
    <3> QED BY <1>6, <3>1, <3>2, <3>3, <3>4, <3>5, <3>6 DEF WriterStep
  <2> QED BY <2>1, <2>2 DEF TypeOK
<1>7. CASE Withdraw
  BY <1>1, <1>7 DEF Withdraw, TypeOK, Query
<1>8. CASE UNCHANGED vars
  BY <1>1, <1>8 DEF vars, fixed, TypeOK, Query
<1> QED BY <1>5, <1>6, <1>7, <1>8 DEF Next

\* Steps of the writer and of the owner leave the query alone.
LEMMA OthersLeaveQuery ==
    WriterStep \/ Withdraw \/ UNCHANGED vars => query' = query
BY DEF WriterStep, BeginWrite, LockGarden, SelectTree, FailWrite, UndoTree, UnlockGarden,
       Withdraw, vars

LEMMA QueryLeavesOthers ==
    QueryStep => UNCHANGED <<tree, locks, writer, withdrawn, warned, undone>>
BY DEF QueryStep, Open, ReadMetadata, CheckPins, ReadBodies, CheckLive, ReadAgain, Conclude,
       WriteProjection

LEMMA ReadingStays == Fixed /\ [Next]_vars => Reading' = Reading
<1> SUFFICES ASSUME Fixed, [Next]_vars
             PROVE  Reading' = Reading
  OBVIOUS
<1>1. S' = S
  BY FixedStays DEF fixed
<1> QED BY <1>1 DEF Reading

LEMMA OpenedStays == TypeOK /\ Fixed /\ Opened /\ [Next]_vars => Opened'
<1> SUFFICES ASSUME TypeOK, Fixed, Opened, [Next]_vars
             PROVE  Opened'
  OBVIOUS
<1>1. Reading' = Reading /\ Reading \subseteq Garden /\ Reading \subseteq Nat /\ Unread' = Unread
  BY ReadingStays, ReadingIs DEF Garden, Unread
<1>2. CASE QueryStep
  <2>1. CASE Refused
    BY <2>1 DEF Refused, Becomes, Opened
  <2>2. CASE ~ Refused /\ Open
    <3>1. Becomes("viewing", FirstGarden, query.seen, query.opened, query.again,
                  query.checks, query.view, query.answer) /\ query.pc = "idle"
      BY <2>2, OpenIs
    <3> QED BY <1>1, <3>1 DEF Becomes, Opened
  <2>3. CASE ~ Refused /\ ReadMetadata
    <3>1. query'.pc = "viewing" /\ query'.opened = query.opened /\ query'.again = query.again
          /\ query.pc = "viewing"
      BY <2>3, ReadMetadataIs DEF Becomes
    <3> QED BY <1>1, <3>1 DEF Opened
  <2>4. CASE ~ Refused /\ CheckPins
    <3>1. /\ query.pc = "viewing" /\ query'.opened = query.opened /\ query'.again = query.again
          /\ query'.garden = FirstGarden
          /\ query'.pc = IF FirstGarden \in Garden THEN "opening" ELSE "checking"
      BY <2>4, CheckPinsIs DEF Becomes
    <3>2. /\ FirstGarden \in Garden => FirstGarden \in Reading
          /\ \A h \in Reading : FirstGarden <= h
      <4>1. \A h \in Reading : h > 0
        BY <1>1 DEF Garden
      <4> QED BY <1>1, <4>1, NextIs DEF FirstGarden
    <3>3. CASE FirstGarden \in Garden
      <4>1. FirstGarden \in Nat
        BY <3>3 DEF Garden
      <4>2. \A h \in Reading : ~ (h < FirstGarden)
        BY <1>1, <3>2, <4>1
      <4> QED BY <1>1, <3>1, <3>2, <3>3, <4>2 DEF Opened
    <3>4. CASE FirstGarden \notin Garden
      <4>1. Reading = {}
        <5>1. \A h \in Reading : ~ (h > 0)
          BY <1>1, <3>4, NextIs DEF FirstGarden
        <5> QED BY <1>1, <5>1 DEF Garden
      <4> QED BY <1>1, <3>1, <3>4, <4>1 DEF Opened
    <3> QED BY <3>3, <3>4
  <2>5. CASE ~ Refused /\ ReadBodies
    <3> DEFINE g == query.garden
               next == NextGarden(g)
    <3>1. /\ query.pc = "opening" /\ query'.again = query.again
          /\ query'.opened = [query.opened EXCEPT ![g] = tree[g]]
          /\ query'.garden = next
          /\ query'.pc = IF next \in Garden THEN "opening" ELSE "checking"
          /\ tree[g] # "gone"
      BY <2>5, ReadBodiesIs DEF Becomes
    <3>2. g \in Reading /\ g \in Nat /\ query.opened \in [Garden -> Tree] /\ g \in Garden
      BY <1>1, <3>1 DEF Opened, TypeOK
    <3>3. /\ next \in 0..(Gardens + 1)
          /\ next \in Garden => next \in Reading
          /\ next \notin Garden => \A h \in Reading : ~ (h > g)
          /\ \A h \in Reading : h > g => next <= h
      <4> HIDE DEF g
      <4> QED BY <1>1, <3>2, NextIs
    <3>4. \A h \in Reading : h <= g => query'.opened[h] # "gone"
      <4> SUFFICES ASSUME NEW h \in Reading, h <= g
                   PROVE  query'.opened[h] # "gone"
        OBVIOUS
      <4>1. CASE h = g
        BY <3>1, <3>2, <4>1
      <4>2. CASE h # g
        <5>1. h < g /\ h \in Garden
          BY <1>1, <3>2, <4>2
        <5>2. query.opened[h] # "gone"
          BY <3>1, <5>1 DEF Opened
        <5> QED BY <3>1, <3>2, <4>2, <5>1, <5>2
      <4> QED BY <4>1, <4>2
    <3> HIDE DEF next, g
    <3>5. \A h \in Reading : h < next => query'.opened[h] # "gone"
      <4>1. \A h \in Reading : h < next => h <= g
        BY <1>1, <3>2, <3>3
      <4> QED BY <3>4, <4>1
    <3>6. CASE next \in Garden
      BY <1>1, <3>1, <3>3, <3>5, <3>6 DEF Opened
    <3>7. CASE next \notin Garden
      <4>2. \A h \in Reading : h <= g
        <5>1. \A h \in Reading : ~ (h > g)
          BY <3>3, <3>7
        <5> QED BY <1>1, <3>2, <5>1
      <4> QED BY <1>1, <3>1, <3>4, <3>7, <4>2 DEF Opened
    <3> QED BY <3>6, <3>7
  <2>6. CASE ~ Refused /\ CheckLive
    <3>1. query'.pc = "rechecking" /\ query'.opened = query.opened /\ query.pc = "checking"
      BY <2>6, CheckLiveIs DEF Becomes
    <3> QED BY <1>1, <3>1 DEF Opened
  <2>7. CASE ~ Refused /\ ReadAgain
    <3>1. query'.pc = "rechecking" /\ query'.opened = query.opened /\ query.pc = "rechecking"
      BY <2>7, ReadAgainIs DEF Becomes
    <3> QED BY <1>1, <3>1 DEF Opened
  <2>8. CASE ~ Refused /\ Conclude
    <3>1. /\ query'.pc \in {"checking", "answered", "writing"}
          /\ query'.opened = query.opened /\ query.pc = "rechecking"
          /\ query'.again = Unread
      BY <2>8, ConcludeIs DEF Becomes
    <3> QED BY <1>1, <3>1 DEF Opened
  <2>9. CASE ~ Refused /\ WriteProjection
    <3>1. query'.pc = "written"
      BY <2>9, WriteProjectionIs DEF Becomes
    <3> QED BY <3>1 DEF Opened
  <2> QED BY <1>2, <2>1, <2>2, <2>3, <2>4, <2>5, <2>6, <2>7, <2>8, <2>9 DEF QueryStep
<1>3. CASE WriterStep \/ Withdraw \/ UNCHANGED vars
  <2>1. query' = query
    BY <1>3, OthersLeaveQuery
  <2> QED BY <1>1, <2>1 DEF Opened
<1> QED BY <1>2, <1>3 DEF Next

LEMMA ViewedStays == TypeOK /\ Fixed /\ Viewed /\ [Next]_vars => Viewed'
<1> SUFFICES ASSUME TypeOK, Fixed, Viewed, [Next]_vars
             PROVE  Viewed'
  OBVIOUS
<1>1. S' = S /\ store' = store /\ pinned' = pinned
  BY FixedStays DEF fixed
<1>2. \A trees : TableOf(trees)' = TableOf(trees)
  BY <1>1 DEF TableOf
<1>3. ASSUME query'.seen = query.seen, query'.view = query.view,
             query'.pc \in {"opening", "checking", "rechecking"} \cup Done
                => query.pc \in {"opening", "checking", "rechecking"} \cup Done
      PROVE  Viewed'
  <2>1. TableOf(query.seen)' = TableOf(query.seen)
    BY <1>1, <1>3 DEF TableOf
  <2>2. View(S, TableOf(query.seen))' = View(S, TableOf(query.seen))
    BY <1>1, <2>1
  <2> QED BY <1>1, <1>3, <2>2 DEF Viewed, Done
<1>4. ASSUME query'.pc \in {"viewing", "refused"}
      PROVE  Viewed'
  BY <1>4 DEF Viewed, Done
<1>5. CASE QueryStep
  <2>1. CASE Refused
    BY <1>4, <2>1 DEF Refused, Becomes
  <2>2. CASE ~ Refused /\ (Open \/ ReadMetadata)
    BY <1>4, <2>2, OpenIs, ReadMetadataIs DEF Becomes
  <2>3. CASE ~ Refused /\ CheckPins
    <3>1. /\ ~ View(S, TableOf(query.seen)).broken
          /\ View(S, TableOf(query.seen)).revision = pinned.revision
          /\ query'.view = View(S, TableOf(query.seen))
          /\ query'.seen = query.seen
      BY <2>3, CheckPinsIs DEF Becomes
    <3>2. TableOf(query.seen)' = TableOf(query.seen)
      BY <1>1, <3>1 DEF TableOf
    <3>3. View(S, TableOf(query.seen))' = View(S, TableOf(query.seen))
      BY <1>1, <3>2
    <3> QED BY <1>1, <3>1, <3>3 DEF Viewed
  <2>4. CASE ~ Refused /\ (ReadBodies \/ CheckLive \/ ReadAgain \/ Conclude \/ WriteProjection)
    <3>1. /\ query'.seen = query.seen /\ query'.view = query.view
          /\ query.pc \in {"opening", "checking", "rechecking"} \cup Done
      BY <2>4, ReadBodiesIs, CheckLiveIs, ReadAgainIs, ConcludeIs, WriteProjectionIs
         DEF Becomes, Done
    <3> QED BY <1>3, <3>1
  <2> QED BY <1>5, <2>1, <2>2, <2>3, <2>4 DEF QueryStep
<1>6. CASE WriterStep \/ Withdraw \/ UNCHANGED vars
  <2>1. query' = query
    BY <1>6, OthersLeaveQuery
  <2> QED BY <1>3, <2>1
<1> QED BY <1>5, <1>6 DEF Next

LEMMA MinIn ==
    ASSUME NEW T \in SUBSET Garden, T # {}
    PROVE  Min(T) \in T
<1>1. T \subseteq Nat
  BY SomeGardens DEF Garden
<1>2. PICK n \in T : \A m \in T : n <= m
  BY <1>1, Smallest
<1> QED BY <1>2 DEF Min

LEMMA ForwardStays == TypeOK /\ Fixed /\ Opened /\ Forward /\ [Next]_vars => Forward'
<1> SUFFICES ASSUME TypeOK, Fixed, Opened, Forward, [Next]_vars, ~ undone'
             PROVE  \A g \in Garden :
                       /\ "after" \in {query'.opened[g], query'.again[g]} => tree'[g] = "after"
                       /\ query'.opened[g] = "after" => query'.again[g] # "before"
  BY DEF Forward
<1>1. /\ \A g \in Garden : Unread[g] = "gone"
      /\ query.opened \in [Garden -> Tree]
      /\ query.again \in [Garden -> Tree]
      /\ tree \in [Garden -> Tree]
      /\ Reading \subseteq Garden
  BY ReadingIs DEF Unread, TypeOK
<1>2. CASE QueryStep
  <2>1. tree' = tree /\ ~ undone
    BY <1>2, QueryLeavesOthers
  <2>2. \A g \in Garden :
           /\ "after" \in {query.opened[g], query.again[g]} => tree[g] = "after"
           /\ query.opened[g] = "after" => query.again[g] # "before"
    BY <2>1 DEF Forward
  <2>3. CASE Refused
    BY <1>1, <2>3 DEF Refused, Becomes
  <2>4. CASE ~ Refused /\ (Open \/ ReadMetadata \/ CheckPins \/ CheckLive \/ WriteProjection)
    <3>1. query'.opened = query.opened /\ query'.again = query.again
      BY <2>4, OpenIs, ReadMetadataIs, CheckPinsIs, CheckLiveIs, WriteProjectionIs DEF Becomes
    <3> QED BY <2>1, <2>2, <3>1
  <2>5. CASE ~ Refused /\ ReadBodies
    <3>1. /\ query'.again = query.again /\ query.pc = "opening"
          /\ query'.opened = [query.opened EXCEPT ![query.garden] = tree[query.garden]]
      BY <2>5, ReadBodiesIs DEF Becomes
    <3>2. query.again = Unread
      BY <3>1 DEF Opened
    <3> QED BY <1>1, <2>1, <2>2, <3>1, <3>2
  <2>6. CASE ~ Refused /\ ReadAgain
    <3>1. /\ query'.opened = query.opened
          /\ query'.again = [query.again EXCEPT ![query.garden] = tree[query.garden]]
      BY <2>6, ReadAgainIs DEF Becomes
    <3> QED BY <1>1, <2>1, <2>2, <3>1
  <2>7. CASE ~ Refused /\ Conclude
    <3>1. query'.opened = query.opened /\ query'.again = Unread
      BY <2>7, ConcludeIs DEF Becomes
    <3> QED BY <1>1, <2>1, <2>2, <3>1
  <2> QED BY <1>2, <2>3, <2>4, <2>5, <2>6, <2>7 DEF QueryStep
<1>3. CASE WriterStep \/ Withdraw \/ UNCHANGED vars
  <2>1. query' = query
    BY <1>3, OthersLeaveQuery
  <2>2. SUFFICES ASSUME ~ undone
                 PROVE  \A g \in Garden : tree[g] = "after" => tree'[g] = "after"
    <3>1. ~ undone
      BY <1>3 DEF WriterStep, BeginWrite, LockGarden, SelectTree, FailWrite, UndoTree,
                  UnlockGarden, Withdraw, vars
    <3> QED BY <2>1, <2>2, <3>1 DEF Forward
  <2>3. CASE tree' = tree
    BY <2>3
  <2>4. CASE SelectTree
    <3> DEFINE left == {g \in writer.targets : tree[g] # "after"}
    <3>1. left \in SUBSET Garden /\ \A g \in left : tree[g] # "after"
      BY DEF TypeOK
    <3>2. \/ tree' = tree
          \/ /\ left # {}
             /\ tree' = [tree EXCEPT ![Min(left)] =
                            IF tree[Min(left)] = "before" THEN "gone" ELSE "after"]
      BY <2>4 DEF SelectTree
    <3> HIDE DEF left
    <3>3. left # {} => Min(left) \in left
      BY <3>1, MinIn
    <3> QED BY <1>1, <3>1, <3>2, <3>3
  <2>5. CASE UndoTree
    <3> DEFINE left == {g \in writer.targets : tree[g] # "before"}
    <3>1. \/ tree' = tree
          \/ /\ tree[Min(left)] # "after"
             /\ tree' = [tree EXCEPT ![Min(left)] =
                            IF tree[Min(left)] = "after" THEN "gone" ELSE "before"]
      BY <2>5 DEF UndoTree
    <3> HIDE DEF left
    <3> QED BY <1>1, <3>1
  <2> QED BY <1>3, <2>3, <2>4, <2>5 DEF WriterStep, BeginWrite, LockGarden, FailWrite,
             UnlockGarden, Withdraw, vars
<1> QED BY <1>2, <1>3 DEF Next

LEMMA StoppedStays == TypeOK /\ Stopped /\ [Next]_vars => Stopped'
<1> SUFFICES ASSUME TypeOK, Stopped, [Next]_vars, warned'
             PROVE  /\ withdrawn'
                    /\ query'.pc \notin Done
                    /\ query'.pc = "rechecking" => query'.checks > 1
  BY DEF Stopped
<1>1. CASE QueryStep
  <2>1. warned /\ withdrawn /\ withdrawn'
    BY <1>1, QueryLeavesOthers DEF Stopped
  <2>2. query.pc \notin Done /\ (query.pc = "rechecking" => query.checks > 1)
    BY <2>1 DEF Stopped
  <2>3. CASE Refused
    BY <2>1, <2>3 DEF Refused, Becomes, Done
  <2>4. CASE ~ Refused /\ (Open \/ CheckLive \/ WriteProjection)
    BY <2>1, <2>4, OpenIs, CheckLiveIs, WriteProjectionIs
  <2>5. CASE ~ Refused /\ (ReadMetadata \/ CheckPins \/ ReadBodies)
    <3>1. query'.pc \in {"viewing", "opening", "checking"}
      BY <2>5, ReadMetadataIs, CheckPinsIs, ReadBodiesIs DEF Becomes
    <3> QED BY <2>1, <3>1 DEF Done
  <2>6. CASE ~ Refused /\ ReadAgain
    <3>1. query'.pc = "rechecking" /\ query'.checks = query.checks /\ query.pc = "rechecking"
      BY <2>6, ReadAgainIs DEF Becomes
    <3> QED BY <2>1, <2>2, <3>1 DEF Done
  <2>7. CASE ~ Refused /\ Conclude
    <3>1. query.pc = "rechecking" /\ (query.checks > 1 => query'.pc = "checking")
      BY <2>7, ConcludeIs DEF Becomes
    <3> QED BY <2>1, <2>2, <3>1 DEF Done
  <2> QED BY <1>1, <2>3, <2>4, <2>5, <2>6, <2>7 DEF QueryStep
<1>2. CASE Withdraw
  <2>1. query' = query
    BY <1>2, OthersLeaveQuery
  <2> QED BY <1>2, <2>1 DEF Withdraw, Done
<1>3. CASE WriterStep \/ UNCHANGED vars
  <2>1. query' = query
    BY <1>3, OthersLeaveQuery
  <2>2. warned' = warned /\ withdrawn' = withdrawn
    BY <1>3 DEF WriterStep, BeginWrite, LockGarden, SelectTree, FailWrite, UndoTree,
                UnlockGarden, vars
  <2> QED BY <2>1, <2>2 DEF Stopped
<1> QED BY <1>1, <1>2, <1>3 DEF Next

(***************************************************************************)
(* Whole answers.                                                          *)
(***************************************************************************)
\* Trees under which the view is the pinned one show its records as they were, unless
\* hidden links were changed.
LEMMA SameRecords ==
    ASSUME Fixed, ~ Relinks, NEW trees \in [Garden -> Tree],
           ~ View(S, TableOf(trees)).broken,
           View(S, TableOf(trees)).revision = pinned.revision,
           NEW g \in Reading, NEW i \in pinned.ids, i \in DOMAIN store[g]["before"]
    PROVE  /\ trees[g] \in {"before", "after"}
           /\ i \in DOMAIN store[g][trees[g]]
           /\ store[g][trees[g]][i] = store[g]["before"][i]
<1>1. Stored /\ g \in Garden /\ Original[g] = "before" /\ trees[g] \in Tree
      /\ Original \in [Garden -> Tree]
  BY ReadingIs, UnreadType DEF Fixed, Original
<1>2. /\ View(S, TableOf(trees)) = pinned
      /\ i \in DOMAIN TableOf(trees)
      /\ Seen(TableOf(trees)[i], pinned.ids) = Seen(TableOf(Original)[i], pinned.ids)
  <2>1. /\ View(S, TableOf(Original)) = pinned
        /\ ~ View(S, TableOf(Original)).broken
        /\ View(S, TableOf(trees)).revision = View(S, TableOf(Original)).revision
    BY DEF Fixed
  <2>2. Agree(trees, Original)
    BY <1>1, <2>1, SameViews
  <2> QED BY <2>1, <2>2 DEF Agree
<1>3. TableOf(Original)[i] = store[g]["before"][i]
  BY <1>1, TableIs
<1>4. i \in DOMAIN store[g][trees[g]]
  <2>1. PICK h \in Garden : i \in DOMAIN store[h][trees[h]]
    BY <1>1, <1>2, TableIs
  <2>2. "before" \in Tree /\ trees[h] \in Tree
    BY DEF Tree
  <2>3. g = h
    BY <1>1, <2>1, <2>2 DEF Stored
  <2> QED BY <2>1, <2>3
<1>5. TableOf(trees)[i] = store[g][trees[g]][i]
  BY <1>1, <1>4, TableIs
<1>6. trees[g] # "gone"
  BY <1>1, <1>4 DEF Stored
<1>7. trees[g] \in {"before", "after"}
  BY <1>1, <1>6 DEF Tree
<1>8. Seen(store[g][trees[g]][i], pinned.ids) = Seen(store[g]["before"][i], pinned.ids)
  BY <1>2, <1>3, <1>5
<1>9. trees[g] = "after" => store[g]["after"][i] = store[g]["before"][i]
  BY <1>4, <1>8 DEF Relinks, Seen
<1> QED BY <1>4, <1>7, <1>9

LEMMA WholeAnswer ==
    ASSUME TypeOK, Fixed, Opened, Viewed, Forward, query.pc = "rechecking", AsPinned,
           ~ undone, ~ Relinks
    PROVE  AnswerNow = due.answer
<1> DEFINE R == TableOf(Original)
           seen == TableOf(query.seen)
           opened == TableOf(query.opened)
<1>1. Stored /\ Reading \subseteq Garden /\ Original \in [Garden -> Tree]
  BY ReadingIs, UnreadType DEF Fixed
<1>2. /\ query.seen \in [Garden -> Tree]
      /\ query.opened \in [Garden -> Tree]
      /\ query.again \in [Garden -> Tree]
  BY DEF TypeOK
<1>3. /\ query.view = View(S, seen)
      /\ ~ View(S, seen).broken
      /\ View(S, seen).revision = pinned.revision
  BY DEF Viewed
<1>4. /\ ~ View(S, TableOf(query.again)).broken
      /\ View(S, TableOf(query.again)).revision = pinned.revision
  BY DEF AsPinned
<1>5. query.view = pinned
  <2>1. /\ View(S, TableOf(Original)) = pinned
        /\ ~ View(S, TableOf(Original)).broken
        /\ View(S, TableOf(query.seen)).revision = View(S, TableOf(Original)).revision
    BY <1>3 DEF Fixed
  <2>2. Agree(query.seen, Original)
    BY <1>1, <1>2, <1>3, <2>1, SameViews
  <2> QED BY <1>3, <2>1, <2>2 DEF Agree
<1>6. ASSUME NEW i \in pinned.ids
      PROVE  /\ i \in DOMAIN R /\ i \in DOMAIN seen /\ i \in DOMAIN opened
             /\ seen[i] = R[i] /\ opened[i] = R[i]
  <2>1. /\ i \in DOMAIN R
        /\ R[i].garden \in Reading
    <3> DEFINE A == Admitted(S, R)
    <3>1. i \in DOMAIN A /\ A[i].garden \in SelectedGardens(S)
      <4> DEFINE w == View(S, R)
      <4>1. w = View(S, TableOf(Original)) /\ w = pinned /\ A = Admitted(S, TableOf(Original))
            /\ ~ w.broken
        BY DEF Fixed
      <4> HIDE DEF w, A
      <4> QED BY <1>1, <4>1, ViewIs
    <3>2. i \in DOMAIN R /\ A[i] = R[i]
      BY <1>1, <3>1, AdmittedIs
    <3> QED BY <3>1, <3>2 DEF Reading
  <2>2. PICK g \in Garden : i \in DOMAIN store[g][Original[g]]
    BY <1>1, <2>1, TableIs
  <2>3. /\ Original[g] = "before" /\ i \in DOMAIN store[g]["before"]
        /\ R[i] = store[g]["before"][i] /\ R[i].garden = g /\ g \in Reading
    <3>1. Original[g] = "before"
      BY DEF Original
    <3>2. R[i] = store[g][Original[g]][i] /\ R[i].garden = g
      BY <1>1, <2>2, TableIs
    <3> QED BY <2>1, <2>2, <3>1, <3>2
  <2>4. /\ i \in DOMAIN store[g][query.seen[g]]
        /\ store[g][query.seen[g]][i] = store[g]["before"][i]
    BY <1>2, <1>3, <2>3, SameRecords
  <2>5. /\ query.again[g] \in {"before", "after"}
        /\ i \in DOMAIN store[g][query.again[g]]
        /\ store[g][query.again[g]][i] = store[g]["before"][i]
    BY <1>2, <1>4, <2>3, SameRecords
  <2>6. query.opened[g] \in {"before", "after"}
    BY <1>2, <2>3 DEF Opened, Tree
  <2>7. query.opened[g] = "after" => query.again[g] = "after"
    BY <2>5 DEF Forward
  <2>8. /\ i \in DOMAIN store[g][query.opened[g]]
        /\ store[g][query.opened[g]][i] = store[g]["before"][i]
    BY <2>3, <2>5, <2>6, <2>7
  <2>9. i \in DOMAIN seen /\ seen[i] = store[g][query.seen[g]][i]
    BY <1>1, <1>2, <2>4, TableIs
  <2>10. i \in DOMAIN opened /\ opened[i] = store[g][query.opened[g]][i]
    BY <1>1, <1>2, <2>8, TableIs
  <2> QED BY <2>1, <2>3, <2>4, <2>8, <2>9, <2>10
<1> HIDE DEF R, seen, opened
<1>7. Held(pinned, seen, opened) = pinned.ids
  BY <1>6 DEF Held
<1>8. Restrict(seen, pinned.ids) = Restrict(R, pinned.ids)
  BY <1>6 DEF Restrict
<1>9. AnswerNow = Answer(S, pinned, seen, pinned.ids)
  BY <1>5, <1>7 DEF AnswerNow, seen, opened
<1>10. Answer(S, pinned, seen, pinned.ids) = Answer(S, pinned, R, pinned.ids)
  BY <1>8 DEF Answer
<1>11. due.answer = Answer(S, pinned, R, pinned.ids)
  BY DEF Fixed, R
<1> QED BY <1>9, <1>10, <1>11

(***************************************************************************)
(* What a record leads to.                                                 *)
(***************************************************************************)
LEMMA ReachWithin ==
    ASSUME NEW A, NEW T, Closed(A, T), NEW roots, roots \subseteq T, NEW k \in Nat,
           NEW found, Reaches(found, k, A, roots)
    PROVE  \A n \in 0..k : found[n] \subseteq T
<1> DEFINE P == {n \in 0..k : found[n] \subseteq T}
<1>1. 0 \in P
  BY DEF Reaches
<1>2. ASSUME NEW n \in 1..k, n - 1 \in P
      PROVE  n \in P
  <2>1. n \in 0..k
    OBVIOUS
  <2>2. found[n] = found[n - 1] \cup UNION {Dependencies(A[i]) : i \in found[n - 1]}
    BY DEF Reaches
  <2>3. found[n - 1] \subseteq T
    BY <1>2
  <2>4. found[n] \subseteq T
    BY <2>2, <2>3 DEF Closed
  <2> QED BY <2>1, <2>4
<1>3. \A n \in 0..k : n \in P
  <2> HIDE DEF P
  <2> QED BY <1>1, <1>2, Upwards
<1> QED BY <1>3

\* After as many rounds as there are records nothing new is reached: every round but
\* the last adds one at least.
LEMMA ReachStops ==
    ASSUME NEW A, NEW T, IsFiniteSet(T), NEW roots, roots # {},
           NEW k \in Nat, Cardinality(T) <= k, NEW found, Reaches(found, k, A, roots),
           \A n \in 0..k : found[n] \subseteq T
    PROVE  roots \subseteq found[k] /\ found[k] \subseteq T /\ Closed(A, found[k])
<1>1. \A n \in 0..k : found[n] \subseteq T
  OBVIOUS
<1> DEFINE P == {n \in 0..k : /\ roots \subseteq found[n]
                              /\ Closed(A, found[n]) \/ Cardinality(found[n]) >= n + 1}
<1>2. 0 \in P
  <2>1. found[0] = roots
    BY DEF Reaches
  <2>2. IsFiniteSet(roots)
    <3>1. 0 \in 0..k
      OBVIOUS
    <3>2. roots \subseteq T
      BY <1>1, <2>1, <3>1
    <3> QED BY <3>2, FS_Subset
  <2>3. Cardinality(roots) \in Nat /\ Cardinality(roots) # 0
    BY <2>2, FS_CardinalityType, FS_EmptySet
  <2>4. 0 \in 0..k /\ Cardinality(roots) >= 0 + 1
    BY <2>3
  <2> QED BY <2>1, <2>4
<1>3. ASSUME NEW n \in 1..k, n - 1 \in P
      PROVE  n \in P
  <2> DEFINE now == found[n - 1]
             next == found[n]
  <2>1. n \in 0..k /\ n \in Nat /\ n - 1 \in 0..k
    OBVIOUS
  <2>2. next = now \cup UNION {Dependencies(A[i]) : i \in now}
    BY DEF Reaches
  <2>3. roots \subseteq now /\ now \subseteq next /\ next \subseteq T
    BY <1>1, <1>3, <2>1, <2>2
  <2>4. IsFiniteSet(now) /\ IsFiniteSet(next)
    <3> HIDE DEF now, next
    <3> QED BY <2>3, FS_Subset
  <2>5. CASE Closed(A, now)
    <3>1. next = now
      BY <2>2, <2>5 DEF Closed
    <3> QED BY <2>1, <2>3, <2>5, <3>1
  <2>6. CASE ~ Closed(A, now)
    <3>1. next # now
      BY <2>2, <2>6 DEF Closed
    <3>2. Cardinality(now) >= (n - 1) + 1
      BY <1>3, <2>6
    <3>3. /\ Cardinality(next) \in Nat /\ Cardinality(now) \in Nat
          /\ Cardinality(now) <= Cardinality(next)
          /\ Cardinality(now) # Cardinality(next)
      <4> HIDE DEF now, next
      <4> QED BY <2>3, <2>4, <3>1, FS_Subset, FS_CardinalityType
    <3>4. Cardinality(next) >= n + 1
      <4> HIDE DEF now, next
      <4> QED BY <2>1, <3>2, <3>3
    <3> QED BY <2>1, <2>3, <3>4
  <2> QED BY <2>5, <2>6
<1>4. \A n \in 0..k : n \in P
  <2> HIDE DEF P
  <2> QED BY <1>2, <1>3, Upwards
<1>5. k \in 0..k
  OBVIOUS
<1>6. k \in P
  BY <1>4, <1>5
<1>7. found[k] \subseteq T
  BY <1>1, <1>5
<1>8. ~ (Cardinality(found[k]) >= k + 1)
  <2>1. IsFiniteSet(found[k])
    BY <1>7, FS_Subset
  <2>2. /\ Cardinality(found[k]) \in Nat /\ Cardinality(T) \in Nat
        /\ Cardinality(found[k]) <= Cardinality(T)
    BY <1>7, <2>1, FS_Subset, FS_CardinalityType
  <2> QED BY <2>2
<1> QED BY <1>6, <1>7, <1>8

LEMMA ReachClosed ==
    ASSUME NEW A, NEW T, IsFiniteSet(T), Closed(A, T), NEW roots, roots \subseteq T, roots # {},
           NEW k \in Nat, Cardinality(T) <= k, NEW found, Reaches(found, k, A, roots)
    PROVE  roots \subseteq found[k] /\ found[k] \subseteq T /\ Closed(A, found[k])
<1>1. \A n \in 0..k : found[n] \subseteq T
  BY ReachWithin
<1> QED BY <1>1, ReachStops

\* T is what i leads to: closed, and in every closed set with i.
Leads(A, i, T) ==
    /\ i \in T
    /\ Closed(A, T)
    /\ \A U : i \in U /\ Closed(A, U) => T \subseteq U

LEMMA ReachLeads ==
    ASSUME NEW A, NEW T, IsFiniteSet(T), Closed(A, T), NEW i \in T,
           NEW k \in Nat, Cardinality(T) <= k, NEW found, Reaches(found, k, A, {i})
    PROVE  Leads(A, i, found[k])
<1>1. {i} \subseteq T /\ {i} # {} /\ k \in 0..k
  OBVIOUS
<1>2. {i} \subseteq found[k] /\ Closed(A, found[k])
  BY <1>1, ReachClosed
<1>3. ASSUME NEW U, i \in U, Closed(A, U)
      PROVE  found[k] \subseteq U
  <2>1. {i} \subseteq U
    BY <1>3
  <2>2. \A n \in 0..k : found[n] \subseteq U
    BY <1>3, <2>1, ReachWithin
  <2> QED BY <1>1, <2>2
<1> QED BY <1>2, <1>3 DEF Leads

LEMMA LeadsOnce ==
    ASSUME NEW A, NEW i, NEW T, NEW U, Leads(A, i, T), Leads(A, i, U)
    PROVE  T = U
<1>1. T \subseteq U /\ U \subseteq T
  BY DEF Leads
<1> QED BY <1>1

LEMMA AncestryLeads ==
    ASSUME NEW A, IsFiniteSet(DOMAIN A), NEW T, T \subseteq DOMAIN A, Closed(A, T), NEW i \in T
    PROVE  Leads(A, i, Ancestry(A, i)) /\ Ancestry(A, i) \subseteq T
<1> DEFINE k == Cardinality(DOMAIN A)
           D == SUBSET T
           step == [now \in D |-> now \cup UNION {Dependencies(A[j]) : j \in now \cap DOMAIN A}]
           F == [n \in 1..k |-> step]
           Is(f) == f = [n \in 0..k |->
                           IF n = 0 THEN {i}
                           ELSE LET now == f[n - 1]
                                IN  now \cup UNION {Dependencies(A[j]) : j \in now \cap DOMAIN A}]
           found == CHOOSE f : Is(f)
<1>1. k \in Nat /\ IsFiniteSet(T)
  BY FS_CardinalityType, FS_Subset
<1>1a. Cardinality(T) <= k
  BY FS_Subset
<1>2. {i} \in D /\ step \in [D -> D]
  BY DEF Closed
<1>3. F \in [1..k -> [D -> D]]
  BY <1>2
<1>4. PICK f : Run(f, D, k, {i}, F)
  <2> HIDE DEF D, F, k
  <2> QED BY <1>1, <1>2, <1>3, Running
<1>5. ASSUME NEW n \in 1..k
      PROVE  f[n] = f[n - 1] \cup UNION {Dependencies(A[j]) : j \in f[n - 1] \cap DOMAIN A}
  <2>1. n - 1 \in 0..k
    BY <1>1
  <2>2. f[n - 1] \in D
    BY <1>4, <2>1 DEF Run
  <2>3. F[n] = step /\ f[n] = F[n][f[n - 1]]
    BY <1>4 DEF Run
  <2> QED BY <2>2, <2>3
<1>6. Is(f)
  BY <1>4, <1>5 DEF Run
<1>7. Is(found)
  BY <1>6
<1>8. Ancestry(A, i) = found[k]
  BY DEF Ancestry
<1>9. /\ found[0] = {i}
      /\ \A n \in 1..k : found[n] = found[n - 1]
                            \cup UNION {Dependencies(A[j]) : j \in found[n - 1] \cap DOMAIN A}
  <2> HIDE DEF found, k
  <2>1. 0 \in 0..k /\ \A n \in 1..k : n \in 0..k /\ n # 0
    BY <1>1
  <2>2. found[0] = {i}
    BY <1>7, <2>1
  <2>3. ASSUME NEW n \in 1..k
        PROVE  found[n] = found[n - 1]
                            \cup UNION {Dependencies(A[j]) : j \in found[n - 1] \cap DOMAIN A}
    BY <1>7, <2>1
  <2> QED BY <2>2, <2>3
<1> HIDE DEF found, k
<1> DEFINE P == {n \in 0..k : found[n] \subseteq T}
<1>10. 0 \in P
  BY <1>1, <1>9
<1>11. ASSUME NEW n \in 1..k, n - 1 \in P
       PROVE  n \in P
  <2>1. n \in 0..k
    BY <1>1
  <2>2. found[n] = found[n - 1] \cup UNION {Dependencies(A[j]) : j \in found[n - 1] \cap DOMAIN A}
    BY <1>9
  <2>3. found[n - 1] \subseteq T
    BY <1>11
  <2>4. found[n] \subseteq T
    BY <2>2, <2>3 DEF Closed
  <2> QED BY <2>1, <2>4
<1>12. \A n \in 0..k : n \in P
  <2> HIDE DEF P
  <2> QED BY <1>1, <1>10, <1>11, Upwards
<1>13. Reaches(found, k, A, {i})
  <2>1. ASSUME NEW n \in 1..k
        PROVE  found[n] = found[n - 1] \cup UNION {Dependencies(A[j]) : j \in found[n - 1]}
    <3>1. n - 1 \in 0..k
      BY <1>1
    <3>2. found[n - 1] \subseteq T
      BY <1>12, <3>1
    <3>3. found[n - 1] \cap DOMAIN A = found[n - 1]
      BY <3>2
    <3> QED BY <1>9, <3>3
  <2> QED BY <1>9, <2>1 DEF Reaches
<1>14. k \in 0..k
  BY <1>1
<1>15. found[k] \subseteq T
  BY <1>12, <1>14
<1>16. Cardinality(T) <= k
  BY <1>1a
<1>17. Leads(A, i, found[k])
  BY <1>1, <1>13, <1>16, ReachLeads
<1> QED BY <1>8, <1>15, <1>17

\* A scope joined with nothing is itself.
LEMMA InheritOne ==
    ASSUME NEW s \in Scopes
    PROVE  Inherit({s}) = s
<1>1. s \in ScopeFields /\ {s} \in SUBSET ScopeFields /\ {s} # {}
  BY DEF Scopes
<1>2. CASE s.visibility = "restricted"
  <2>1. Mixed({s})
    BY <1>2 DEF Mixed
  <2>2. Inherit({s}) = Restricted
    BY <1>1, <2>1, InheritIs
  <2> QED BY <1>2, <2>2 DEF Scopes
<1>3. CASE s.visibility # "restricted"
  <2>1. ~ Mixed({s})
    BY <1>3 DEF Mixed
  <2> DEFINE t == Inherit({s})
  <2>2. /\ t \in Scopes
        /\ t.visibility \in Visibility \ {"restricted"}
        /\ \A v \in {"organization", "personal"} : t.visibility = v <=> s.visibility = v
        /\ t.publication = Strictest({x.publication : x \in {s}})
        /\ t.execution = Strictest({x.execution : x \in {s}})
        /\ t.persistence = Strictest({x.persistence : x \in {s}})
    <3>1. \A v : (\E x \in {s} : x.visibility = v) <=> s.visibility = v
      OBVIOUS
    <3> QED BY <1>1, <2>1, <3>1, InheritIs
  <2>3. /\ {x.publication : x \in {s}} = {s.publication}
        /\ {x.execution : x \in {s}} = {s.execution}
        /\ {x.persistence : x \in {s}} = {s.persistence}
    OBVIOUS
  <2>4. \A l \in Level : Strictest({l}) = l
    BY StrictestUnique DEF Level
  <2>5. /\ t.publication = s.publication
        /\ t.execution = s.execution
        /\ t.persistence = s.persistence
    <3> HIDE DEF t
    <3>1. s.publication \in Level /\ s.execution \in Level /\ s.persistence \in Level
      BY <1>1 DEF ScopeFields
    <3> QED BY <2>2, <2>3, <2>4, <3>1
  <2>6. t.visibility = s.visibility
    <3> HIDE DEF t
    <3> QED BY <1>1, <1>3, <2>2 DEF ScopeFields, Visibility
  <2> HIDE DEF t
  <2>7. t = s
    BY <1>1, <2>2, <2>5, <2>6 DEF Scopes, ScopeFields
  <2> QED BY <2>7 DEF t
<1> QED BY <1>2, <1>3

\* front[n][i] is what i leads to in n rounds.
Fronts(front, k, A, ids) ==
    /\ front \in [0..k -> [ids -> SUBSET ids]]
    /\ \A i \in ids : front[0][i] = {i}
    /\ \A n \in 1..k : \A i \in ids :
          front[n][i] = front[n - 1][i] \cup UNION {Dependencies(A[j]) : j \in front[n - 1][i]}

LEMMA FrontsExist ==
    ASSUME NEW A, NEW ids, Closed(A, ids), NEW k \in Nat
    PROVE  \E front : Fronts(front, k, A, ids)
<1> DEFINE D == [ids -> SUBSET ids]
           base == [i \in ids |-> {i}]
           step == [now \in D |->
                      [i \in ids |-> now[i] \cup UNION {Dependencies(A[j]) : j \in now[i]}]]
           F == [n \in 1..k |-> step]
<1>1. base \in D
  OBVIOUS
<1>2. step \in [D -> D]
  <2>1. ASSUME NEW now \in D, NEW i \in ids
        PROVE  now[i] \cup UNION {Dependencies(A[j]) : j \in now[i]} \in SUBSET ids
    BY DEF Closed
  <2> QED BY <2>1
<1>3. F \in [1..k -> [D -> D]]
  <2> HIDE DEF step, D
  <2> QED BY <1>2
<1>4. PICK front : Run(front, D, k, base, F)
  <2> HIDE DEF D, F, base
  <2> QED BY <1>1, <1>3, Running
<1>5. front \in [0..k -> D] /\ front[0] = base
  <2> HIDE DEF D, F, base
  <2> QED BY <1>4 DEF Run
<1>6. ASSUME NEW n \in 1..k, NEW i \in ids
      PROVE  front[n][i] = front[n - 1][i] \cup UNION {Dependencies(A[j]) : j \in front[n - 1][i]}
  <2>1. n - 1 \in 0..k
    OBVIOUS
  <2>2. front[n - 1] \in D
    <3> HIDE DEF D
    <3> QED BY <1>5, <2>1
  <2>3. F[n] = step /\ front[n] = F[n][front[n - 1]]
    <3> HIDE DEF D, step
    <3> QED BY <1>4 DEF Run
  <2>4. front[n] = step[front[n - 1]]
    <3> HIDE DEF D, step, F
    <3> QED BY <2>3
  <2> HIDE DEF F
  <2> QED BY <2>2, <2>4
<1> QED BY <1>5, <1>6 DEF Fronts

\* The first step may as well come first as last.
LEMMA FrontsTurn ==
    ASSUME NEW A, NEW ids, Closed(A, ids), NEW k \in Nat, NEW front, Fronts(front, k, A, ids)
    PROVE  \A n \in 1..k : \A i \in ids :
              front[n][i] = UNION {front[n - 1][j] : j \in {i} \cup Dependencies(A[i])}
<1> DEFINE P == {n \in 0..k : n # 0 => \A i \in ids :
                    front[n][i] = UNION {front[n - 1][j] : j \in {i} \cup Dependencies(A[i])}}
<1>1. 0 \in P
  OBVIOUS
<1>2. ASSUME NEW n \in 1..k, n - 1 \in P
      PROVE  n \in P
  <2>1. n \in 0..k /\ n - 1 \in 0..k /\ n \in Nat
    OBVIOUS
  <2>2. \A i \in ids : {i} \cup Dependencies(A[i]) \subseteq ids
    BY DEF Closed
  <2>3. \A i \in ids :
           front[n][i] = front[n - 1][i] \cup UNION {Dependencies(A[j]) : j \in front[n - 1][i]}
    BY DEF Fronts
  <2>4. CASE n = 1
    <3>1. \A i \in ids : front[n - 1][i] = {i}
      BY <2>4 DEF Fronts
    <3>2. ASSUME NEW i \in ids
          PROVE  front[n][i] = UNION {front[n - 1][j] : j \in {i} \cup Dependencies(A[i])}
      <4>1. front[n][i] = {i} \cup Dependencies(A[i])
        BY <2>3, <3>1
      <4>2. \A j \in {i} \cup Dependencies(A[i]) : front[n - 1][j] = {j}
        BY <2>2, <3>1
      <4> QED BY <4>1, <4>2
    <3> QED BY <2>1, <3>2
  <2>5. CASE n # 1
    <3>1. n - 1 \in 1..k /\ n - 1 # 0
      BY <2>1, <2>5
    <3>2. \A i \in ids :
             front[n - 1][i] = UNION {front[(n - 1) - 1][j] : j \in {i} \cup Dependencies(A[i])}
      BY <1>2, <3>1
    <3>3. \A i \in ids :
             front[n - 1][i] = front[(n - 1) - 1][i]
                                 \cup UNION {Dependencies(A[j]) : j \in front[(n - 1) - 1][i]}
      BY <3>1 DEF Fronts
    <3>4. ASSUME NEW i \in ids
          PROVE  front[n][i] = UNION {front[n - 1][j] : j \in {i} \cup Dependencies(A[i])}
      <4> DEFINE near == {i} \cup Dependencies(A[i])
                 m == (n - 1) - 1
      <4>1. near \subseteq ids /\ front[n - 1][i] = UNION {front[m][j] : j \in near}
        BY <2>2, <3>2
      <4>2. \A j \in near :
               front[n - 1][j] = front[m][j] \cup UNION {Dependencies(A[x]) : x \in front[m][j]}
        BY <3>3, <4>1
      <4>3. front[n][i] = front[n - 1][i]
                            \cup UNION {Dependencies(A[j]) : j \in front[n - 1][i]}
        BY <2>3
      <4> HIDE DEF near, m
      <4>4. ASSUME NEW x \in front[n][i]
            PROVE  \E j \in near : x \in front[n - 1][j]
        <5>1. CASE x \in front[n - 1][i]
          BY <4>1, <4>2, <5>1
        <5>2. CASE \E y \in front[n - 1][i] : x \in Dependencies(A[y])
          BY <4>1, <4>2, <5>2
        <5> QED BY <4>3, <4>4, <5>1, <5>2
      <4>5. ASSUME NEW j \in near, NEW x \in front[n - 1][j]
            PROVE  x \in front[n][i]
        <5>1. CASE x \in front[m][j]
          BY <4>1, <4>3, <5>1
        <5>2. CASE \E y \in front[m][j] : x \in Dependencies(A[y])
          BY <4>1, <4>3, <5>2
        <5> QED BY <4>2, <4>5, <5>1, <5>2
      <4> QED BY <4>4, <4>5 DEF near
    <3> QED BY <2>1, <3>4
  <2> QED BY <2>4, <2>5
<1>3. \A n \in 0..k : n \in P
  <2> HIDE DEF P
  <2> QED BY <1>1, <1>2, Upwards
<1>4. \A n \in 1..k : n \in 0..k /\ n # 0
  OBVIOUS
<1>5. \A n \in 1..k : n \in P /\ n # 0
  BY <1>3, <1>4
<1> QED BY <1>5

\* The scope of a record is the join of the scopes of everything it leads to, cycles
\* included.
LEMMA EffectiveJoins ==
    ASSUME NEW session, NEW A, Sound(session, A), NEW ids, ids \subseteq DOMAIN A, Closed(A, ids),
           NEW i \in ids
    PROVE  Effective(session, A, ids)[i]
              = Inherit({DeclaredScope(session, A[j]) : j \in Ancestry(A, i)})
<1> DEFINE k == Cardinality(ids)
           declared == [j \in ids |-> DeclaredScope(session, A[j])]
           of(T) == {declared[j] : j \in T}
<1>1. k \in Nat /\ IsFiniteSet(ids) /\ IsFiniteSet(DOMAIN A)
  BY FS_CardinalityType, FS_Subset DEF Sound
<1>2. PICK scope : /\ Effective(session, A, ids) = scope[k]
                   /\ Spreads(scope, k, session, A, ids)
  BY EffectiveIs
<1> HIDE DEF k
<1>3. PICK front : Fronts(front, k, A, ids)
  BY <1>1, FrontsExist
<1>4. \A n \in 1..k : \A j \in ids :
         front[n][j] = UNION {front[n - 1][x] : x \in {j} \cup Dependencies(A[j])}
  BY <1>1, <1>3, FrontsTurn
<1>5. declared \in [ids -> Scopes]
  BY DEF Sound
<1> DEFINE P == {n \in 0..k : \A j \in ids : /\ j \in front[n][j]
                                             /\ scope[n][j] = Inherit(of(front[n][j]))}
<1>6. 0 \in P
  <2>1. 0 \in 0..k
    BY <1>1
  <2>2. ASSUME NEW j \in ids
        PROVE  j \in front[0][j] /\ scope[0][j] = Inherit(of(front[0][j]))
    <3>1. front[0][j] = {j}
      BY <1>3 DEF Fronts
    <3>2. scope[0][j] = declared[j]
      BY <1>2 DEF Spreads
    <3>3. of(front[0][j]) = {declared[j]}
      BY <3>1
    <3>4. Inherit({declared[j]}) = declared[j]
      <4>1. declared[j] \in Scopes
        BY <1>5
      <4> HIDE DEF declared
      <4> QED BY <4>1, InheritOne
    <3> QED BY <3>1, <3>2, <3>3, <3>4
  <2> QED BY <2>1, <2>2
<1>7. ASSUME NEW n \in 1..k, n - 1 \in P
      PROVE  n \in P
  <2>1. n \in 0..k /\ n - 1 \in 0..k
    BY <1>1
  <2>2. \A j \in ids : /\ j \in front[n - 1][j]
                       /\ front[n - 1][j] \subseteq ids
                       /\ scope[n - 1][j] = Inherit(of(front[n - 1][j]))
    <3>1. \A j \in ids : front[n - 1][j] \subseteq ids
      BY <1>3, <2>1 DEF Fronts
    <3>2. \A j \in ids : /\ j \in front[n - 1][j]
                         /\ scope[n - 1][j] = Inherit(of(front[n - 1][j]))
      <4> HIDE DEF of
      <4> QED BY <1>7
    <3> HIDE DEF of, P
    <3> QED BY <3>1, <3>2
  <2>3. ASSUME NEW j \in ids
        PROVE  j \in front[n][j] /\ scope[n][j] = Inherit(of(front[n][j]))
    <3> DEFINE near == {j} \cup Dependencies(A[j])
               g == [x \in near |-> of(front[n - 1][x])]
    <3>1. near \subseteq ids /\ near # {}
      BY DEF Closed
    <3>2. front[n][j] = UNION {front[n - 1][x] : x \in near}
      BY <1>4
    <3>3. j \in front[n][j]
      BY <2>2, <3>2
    <3>4. scope[n][j] = Inherit({scope[n - 1][x] : x \in near})
      BY <1>2 DEF Spreads
    <3>5. \A x \in near : g[x] \in SUBSET ScopeFields /\ g[x] # {}
      <4> SUFFICES ASSUME NEW x \in near
                   PROVE  g[x] \in SUBSET ScopeFields /\ g[x] # {}
        OBVIOUS
      <4>1. x \in front[n - 1][x] /\ front[n - 1][x] \subseteq ids
        BY <2>2, <3>1
      <4>2. g[x] = {declared[y] : y \in front[n - 1][x]}
        OBVIOUS
      <4> HIDE DEF g, declared
      <4> QED BY <1>5, <4>1, <4>2 DEF Scopes
    <3>6. {scope[n - 1][x] : x \in near} = Joins(g, near)
      <4>1. \A x \in near : scope[n - 1][x] = Inherit(g[x])
        BY <2>2, <3>1
      <4> HIDE DEF g, near
      <4> QED BY <4>1 DEF Joins
    <3>7. of(front[n][j]) = Joined(g, near)
      <4>1. \A x \in near : g[x] = {declared[y] : y \in front[n - 1][x]}
        OBVIOUS
      <4> HIDE DEF g, near, declared
      <4> QED BY <3>2, <4>1 DEF Joined
    <3>8. Inherit(Joins(g, near)) = Inherit(Joined(g, near))
      <4>1. g \in [near -> SUBSET ScopeFields]
        BY <3>5
      <4> HIDE DEF g, near
      <4> QED BY <3>1, <3>5, <4>1, JoinOfJoins
    <3> QED BY <3>3, <3>4, <3>6, <3>7, <3>8
  <2> QED BY <2>1, <2>3
<1>8. \A n \in 0..k : n \in P
  <2> HIDE DEF P
  <2> QED BY <1>1, <1>6, <1>7, Upwards
<1>9. k \in 0..k
  BY <1>1
<1>10. scope[k][i] = Inherit(of(front[k][i]))
  BY <1>8, <1>9
<1>11. front[k][i] = Ancestry(A, i)
  <2> DEFINE found == [n \in 0..k |-> front[n][i]]
  <2>1. Reaches(found, k, A, {i})
    <3>1. found[0] = {i}
      BY <1>1, <1>3 DEF Fronts
    <3>2. ASSUME NEW n \in 1..k
          PROVE  found[n] = found[n - 1] \cup UNION {Dependencies(A[j]) : j \in found[n - 1]}
      <4>1. n \in 0..k /\ n - 1 \in 0..k
        BY <1>1
      <4> QED BY <1>3, <4>1 DEF Fronts
    <3> HIDE DEF found
    <3> QED BY <3>1, <3>2 DEF Reaches
  <2>2. found[k] = front[k][i]
    BY <1>9
  <2>3. Cardinality(ids) <= k
    BY <1>1 DEF k
  <2> HIDE DEF found
  <2>4. Leads(A, i, found[k])
    BY <1>1, <2>1, <2>3, ReachLeads
  <2>5. Leads(A, i, Ancestry(A, i))
    BY <1>1, AncestryLeads
  <2> QED BY <2>2, <2>4, <2>5, LeadsOnce
<1>12. Ancestry(A, i) \subseteq ids
  BY <1>1, AncestryLeads
<1>13. of(Ancestry(A, i)) = {DeclaredScope(session, A[j]) : j \in Ancestry(A, i)}
  BY <1>12
<1> HIDE DEF of, declared
<1> QED BY <1>2, <1>10, <1>11, <1>13

(***************************************************************************)
(* What a view shows, and how strict its scopes are.                       *)
(***************************************************************************)
LEMMA ViewShown ==
    ASSUME Stored, NEW trees \in [Garden -> Tree], ~ View(S, TableOf(trees)).broken,
           NEW i \in View(S, TableOf(trees)).ids
    PROVE  /\ i \in DOMAIN Admitted(S, TableOf(trees))
           /\ MayBeShown(S, Admitted(S, TableOf(trees)), i)
<1> DEFINE A == Admitted(S, TableOf(trees))
           view == View(S, TableOf(trees))
<1>1. Sound(S, A)
  BY AdmittedIs
<1>2. view.ids \subseteq Authorized(S, A) /\ view.ids \subseteq DOMAIN A
  <2>1. view = View(S, TableOf(trees)) /\ A = Admitted(S, TableOf(trees)) /\ ~ view.broken
    OBVIOUS
  <2> HIDE DEF view, A
  <2> QED BY <2>1, ViewIs
<1>3. i \in Authorized(S, A) /\ i \in DOMAIN A
  BY <1>2
<1> HIDE DEF A, view
<1>4. /\ i \in Base(S, A)
      /\ AllowsScope(S, Effective(S, A, Base(S, A))[i])
      /\ Base(S, A) \subseteq Public(S, A)
      /\ Base(S, A) \subseteq DOMAIN A
      /\ Closed(A, Base(S, A))
  BY <1>1, <1>3, AuthorizedIs, BaseIs
<1>5. Ancestry(A, i) \subseteq Base(S, A)
  BY <1>1, <1>4, AncestryLeads DEF Sound
<1>6. Effective(S, A, Base(S, A))[i]
        = Inherit({DeclaredScope(S, A[j]) : j \in Ancestry(A, i)})
  BY <1>1, <1>4, EffectiveJoins
<1>7. MayBeShown(S, A, i)
  BY <1>4, <1>5, <1>6 DEF MayBeShown
<1> QED BY <1>3, <1>7 DEF A

\* The scope a view gives a record is at least as strict as that of all it leads to.
LEMMA ViewDominates ==
    ASSUME Stored, NEW trees \in [Garden -> Tree], ~ View(S, TableOf(trees)).broken,
           NEW i \in View(S, TableOf(trees)).ids
    PROVE  /\ View(S, TableOf(trees)).scopes[i] \in Scopes
           /\ i \in Ancestry(TableOf(trees), i)
           /\ \A j \in Ancestry(TableOf(trees), i) :
                 /\ DeclaredScope(S, TableOf(trees)[j]) \in Scopes
                 /\ AtLeast(View(S, TableOf(trees)).scopes[i],
                            DeclaredScope(S, TableOf(trees)[j]))
<1> DEFINE R == TableOf(trees)
           A == Admitted(S, R)
           view == View(S, R)
<1>1. Sound(S, A) /\ DOMAIN A \subseteq DOMAIN R /\ \A j \in DOMAIN A : A[j] = R[j]
  BY AdmittedIs
<1>2. IsFiniteSet(DOMAIN R)
  BY TableIs
<1>3. /\ view.ids \subseteq Authorized(S, A)
      /\ \A j \in view.ids : view.scopes[j] = Effective(S, A, Base(S, A))[j]
  <2>1. view = View(S, TableOf(trees)) /\ A = Admitted(S, TableOf(trees)) /\ ~ view.broken
    OBVIOUS
  <2> HIDE DEF view, A
  <2> QED BY <2>1, ViewIs
<1>4. i \in view.ids
  OBVIOUS
<1>5. SUFFICES /\ view.scopes[i] \in Scopes
               /\ i \in Ancestry(R, i)
               /\ \A j \in Ancestry(R, i) : /\ DeclaredScope(S, R[j]) \in Scopes
                                            /\ AtLeast(view.scopes[i], DeclaredScope(S, R[j]))
  OBVIOUS
<1> HIDE DEF A, view, R
<1>6. /\ i \in Base(S, A)
      /\ Base(S, A) \subseteq DOMAIN A
      /\ Closed(A, Base(S, A))
      /\ Effective(S, A, Base(S, A)) \in [Base(S, A) -> Scopes]
  BY <1>1, <1>3, <1>4, AuthorizedIs, BaseIs
<1>7. Leads(A, i, Ancestry(A, i)) /\ Ancestry(A, i) \subseteq Base(S, A)
  BY <1>1, <1>6, AncestryLeads DEF Sound
<1>8. Leads(R, i, Ancestry(R, i))
  <2>1. Closed(R, Base(S, A)) /\ Base(S, A) \subseteq DOMAIN R
    BY <1>1, <1>6 DEF Closed
  <2> QED BY <1>2, <1>6, <2>1, AncestryLeads
<1>9. Ancestry(R, i) \subseteq Ancestry(A, i)
  <2>1. Closed(R, Ancestry(A, i)) /\ i \in Ancestry(A, i)
    BY <1>1, <1>6, <1>7 DEF Leads, Closed
  <2> QED BY <1>8, <2>1 DEF Leads
<1>10. view.scopes[i] = Inherit({DeclaredScope(S, A[j]) : j \in Ancestry(A, i)})
  BY <1>1, <1>3, <1>4, <1>6, EffectiveJoins
<1>11. view.scopes[i] \in Scopes
  BY <1>3, <1>4, <1>6
<1>12. ASSUME NEW j \in Ancestry(R, i)
       PROVE  DeclaredScope(S, R[j]) \in Scopes /\ AtLeast(view.scopes[i], DeclaredScope(S, R[j]))
  <2> DEFINE scopes == {DeclaredScope(S, A[x]) : x \in Ancestry(A, i)}
  <2>1. \A x \in Ancestry(A, i) : DeclaredScope(S, A[x]) \in Scopes
    BY <1>1, <1>6, <1>7 DEF Sound
  <2>2. scopes \in SUBSET ScopeFields
    BY <2>1 DEF Scopes
  <2>3. A[j] = R[j] /\ DeclaredScope(S, A[j]) \in scopes /\ DeclaredScope(S, A[j]) \in Scopes
    BY <1>1, <1>6, <1>7, <1>9, <2>1
  <2> HIDE DEF scopes
  <2>4. AtLeast(Inherit(scopes), DeclaredScope(S, A[j]))
    BY <2>2, <2>3, InheritBounds
  <2> QED BY <1>10, <2>3, <2>4 DEF scopes
<1>13. i \in Ancestry(R, i)
  BY <1>8 DEF Leads
<1> QED BY <1>11, <1>12, <1>13

(***************************************************************************)
(* Ranking.                                                                *)
(***************************************************************************)
Below(rel, T, i) == {j \in T : <<j, i>> \in rel}

Ordered(rel, T) ==
    /\ IsFiniteSet(T)
    /\ \A i \in T : <<i, i>> \notin rel
    /\ \A i, j, l \in T : <<i, j>> \in rel /\ <<j, l>> \in rel => <<i, l>> \in rel
    /\ \A i, j \in T : i # j => <<i, j>> \in rel \/ <<j, i>> \in rel

Taken(rel, T, n) == \E i \in T : Cardinality(Below(rel, T, i)) = n

\* In a finite strict order every place is taken.
LEMMA Places ==
    ASSUME NEW T, NEW rel, Ordered(rel, T), NEW n \in Nat, n < Cardinality(T)
    PROVE  Taken(rel, T, n)
<1>a. /\ IsFiniteSet(T)
      /\ \A i \in T : <<i, i>> \notin rel
      /\ \A i, j, l \in T : <<i, j>> \in rel /\ <<j, l>> \in rel => <<i, l>> \in rel
      /\ \A i, j \in T : i # j => <<i, j>> \in rel \/ <<j, i>> \in rel
  BY DEF Ordered
<1> DEFINE c == Cardinality(T)
           place == [i \in T |-> Cardinality(Below(rel, T, i))]
<1>1. c \in Nat
  BY <1>a, FS_CardinalityType
<1>2. ASSUME NEW i \in T
      PROVE  /\ IsFiniteSet(Below(rel, T, i))
             /\ place[i] \in 0..(c - 1)
  <2>1. Below(rel, T, i) \subseteq T /\ Below(rel, T, i) # T
    BY <1>a DEF Below
  <2>2. IsFiniteSet(Below(rel, T, i))
    BY <1>a, <2>1, FS_Subset
  <2>3. /\ Cardinality(Below(rel, T, i)) \in Nat
        /\ Cardinality(Below(rel, T, i)) <= c
        /\ Cardinality(Below(rel, T, i)) # c
    BY <1>a, <2>1, <2>2, FS_Subset, FS_CardinalityType
  <2> HIDE DEF c
  <2> QED BY <1>1, <2>2, <2>3
<1>3. ASSUME NEW i \in T, NEW l \in T, <<i, l>> \in rel
      PROVE  place[i] # place[l]
  <2>1. Below(rel, T, i) \subseteq Below(rel, T, l)
    BY <1>a, <1>3 DEF Below
  <2>2. i \in Below(rel, T, l) /\ i \notin Below(rel, T, i)
    BY <1>a, <1>3 DEF Below
  <2>3. Below(rel, T, i) # Below(rel, T, l)
    BY <2>2
  <2>4. Cardinality(Below(rel, T, i)) # Cardinality(Below(rel, T, l))
    BY <1>2, <2>1, <2>3, FS_Subset
  <2> QED BY <2>4
<1>4. place \in Injection(T, 0..(c - 1))
  <2>1. place \in [T -> 0..(c - 1)]
    BY <1>2
  <2>2. \A i, l \in T : i # l => place[i] # place[l]
    BY <1>a, <1>3
  <2> HIDE DEF place, c
  <2> QED BY <2>1, <2>2 DEF Injection, IsInjective
<1>5. IsFiniteSet(0..(c - 1)) /\ Cardinality(0..(c - 1)) = c
  <2> HIDE DEF c
  <2>1. IsFiniteSet(0..(c - 1)) /\ Cardinality(0..(c - 1)) = IF 0 > c - 1 THEN 0 ELSE (c - 1) - 0 + 1
    BY <1>1, FS_Interval
  <2> QED BY <1>1, <2>1
<1>6. place \in Surjection(T, 0..(c - 1))
  <2> HIDE DEF place
  <2> QED BY <1>a, <1>4, <1>5, FS_Injection DEF c
<1>7. n \in 0..(c - 1)
  BY <1>1
<1>8. \E i \in T : place[i] = n
  <2> HIDE DEF place, c
  <2> QED BY <1>6, <1>7 DEF Surjection
<1> QED BY <1>8 DEF Taken

LEMMA MinOf ==
    ASSUME NEW T \in SUBSET Nat, T # {}
    PROVE  Min(T) \in T /\ \A n \in T : Min(T) <= n
<1>1. PICK n \in T : \A m \in T : n <= m
  BY Smallest
<1> QED BY <1>1 DEF Min

\* A table whose records can be ranked.
Ranked(R, entries) ==
    /\ IsFiniteSet(entries)
    /\ entries \subseteq Nat
    /\ \A i \in entries : R[i].score \in Nat

\* In a strict order no two have the same place.
LEMMA PlacesDiffer ==
    ASSUME NEW T, NEW rel, Ordered(rel, T), NEW i \in T, NEW l \in T,
           Cardinality(Below(rel, T, i)) = Cardinality(Below(rel, T, l))
    PROVE  i = l
<1>a. /\ IsFiniteSet(T)
      /\ \A x \in T : <<x, x>> \notin rel
      /\ \A x, y, z \in T : <<x, y>> \in rel /\ <<y, z>> \in rel => <<x, z>> \in rel
      /\ \A x, y \in T : x # y => <<x, y>> \in rel \/ <<y, x>> \in rel
  BY DEF Ordered
<1>1. ASSUME NEW x \in T, NEW y \in T, <<x, y>> \in rel
      PROVE  Cardinality(Below(rel, T, x)) # Cardinality(Below(rel, T, y))
  <2>1. Below(rel, T, x) \subseteq Below(rel, T, y) /\ Below(rel, T, y) \subseteq T
    BY <1>a, <1>1 DEF Below
  <2>2. x \in Below(rel, T, y) /\ x \notin Below(rel, T, x)
    BY <1>a, <1>1 DEF Below
  <2>3. Below(rel, T, x) # Below(rel, T, y)
    BY <2>2
  <2>4. IsFiniteSet(Below(rel, T, y))
    BY <1>a, <2>1, FS_Subset
  <2> QED BY <2>1, <2>3, <2>4, FS_Subset
<1> QED BY <1>a, <1>1

\* The candidates of a profile and the order they are considered in.
Wanted(P, R, entries) == (entries \cap ToSet(P.include)) \cup Scored(R, entries)

Listed(P, i) == Min({k \in DOMAIN P.include : P.include[k] = i})

Before(P, R, entries) ==
    {p \in Wanted(P, R, entries) \X Wanted(P, R, entries) :
        LET included == entries \cap ToSet(P.include)
        IN  \/ p[1] \in included /\ p[2] \in included /\ Listed(P, p[1]) < Listed(P, p[2])
            \/ p[1] \in included /\ p[2] \notin included
            \/ p[1] \notin included /\ p[2] \notin included /\ Ahead(R, p[1], p[2])}

PlacedAt(P, R, entries, n, i) ==
    /\ i \in Wanted(P, R, entries)
    /\ Cardinality(Below(Before(P, R, entries), Wanted(P, R, entries), i)) = n - 1

Budget(session, P, R, entries) ==
    Min({P.candidates, session.budget, Cardinality(Wanted(P, R, entries))})

\* As many candidates as the budget allows are considered, each at its place.
LEMMA ConsideredPlaces ==
    ASSUME NEW session, session.budget \in Nat, NEW P, P.candidates \in Nat,
           P.include \in Seq(Nat), NEW R, NEW entries, Ranked(R, entries)
    PROVE  /\ Ordered(Before(P, R, entries), Wanted(P, R, entries))
           /\ Budget(session, P, R, entries) \in Nat
           /\ Considered(session, P, R, entries)
                \in [1..Budget(session, P, R, entries) -> entries]
           /\ \A n \in 1..Budget(session, P, R, entries) :
                 PlacedAt(P, R, entries, n, Considered(session, P, R, entries)[n])
<1> DEFINE included == entries \cap ToSet(P.include)
           place(i) == Min({k \in DOMAIN P.include : P.include[k] = i})
           first(a, b) == \/ a \in included /\ b \in included /\ place(a) < place(b)
                          \/ a \in included /\ b \notin included
                          \/ a \notin included /\ b \notin included /\ Ahead(R, a, b)
           all == included \cup Scored(R, entries)
           m == Min({P.candidates, session.budget, Cardinality(all)})
           at(n) == CHOOSE i \in all : Cardinality({j \in all : first(j, i)}) = n - 1
           rel == {p \in all \X all : first(p[1], p[2])}
<1>1. all \subseteq entries /\ IsFiniteSet(all)
  <2>1. all \subseteq entries
    BY DEF Scored
  <2> HIDE DEF all
  <2> QED BY <2>1, FS_Subset DEF Ranked
<1>2. m \in Nat /\ m <= Cardinality(all)
  <2>1. Cardinality(all) \in Nat
    BY <1>1, FS_CardinalityType
  <2> HIDE DEF all
  <2> DEFINE three == {P.candidates, session.budget, Cardinality(all)}
  <2>2. three \in SUBSET Nat /\ three # {} /\ Cardinality(all) \in three
    BY <2>1
  <2> HIDE DEF three
  <2>3. Min(three) \in three /\ Min(three) <= Cardinality(all)
    BY <2>2, MinOf
  <2>4. Min(three) \in Nat
    BY <2>2, <2>3
  <2> QED BY <2>3, <2>4 DEF three
<1>3. ASSUME NEW i \in included
      PROVE  /\ place(i) \in Nat
             /\ P.include[place(i)] = i
  <2> DEFINE where == {k \in DOMAIN P.include : P.include[k] = i}
  <2>1. DOMAIN P.include = 1..Len(P.include) /\ Len(P.include) \in Nat
    BY LenProperties
  <2>2. where \in SUBSET Nat
    BY <2>1
  <2>3. where # {}
    BY DEF ToSet
  <2>4. Min(where) \in where
    <3> HIDE DEF where
    <3> QED BY <2>2, <2>3, MinOf
  <2> QED BY <2>2, <2>4
<1>4. \A i, l \in included : place(i) = place(l) => i = l
  <2> HIDE DEF place, included
  <2> QED BY <1>3
<1>5. \A i \in included : place(i) \in Nat
  BY <1>3
<1>6. \A i \in all : i \in Nat /\ R[i].score \in Nat
  BY <1>1 DEF Ranked
<1>7. /\ \A i \in all : ~ first(i, i)
      /\ \A i, j, l \in all : first(i, j) /\ first(j, l) => first(i, l)
      /\ \A i, j \in all : i # j => first(i, j) \/ first(j, i)
  <2> HIDE DEF place, included, all
  <2>1. ASSUME NEW i \in all
        PROVE  ~ first(i, i)
    BY <1>5, <1>6 DEF Ahead
  <2>2. ASSUME NEW i \in all, NEW j \in all, NEW l \in all, first(i, j), first(j, l)
        PROVE  first(i, l)
    <3>1. CASE i \in included /\ j \in included /\ l \in included
      BY <1>5, <2>2, <3>1
    <3>2. CASE l \notin included /\ i \in included
      BY <3>2
    <3>3. CASE i \notin included
      <4>1. j \notin included /\ l \notin included /\ Ahead(R, i, j) /\ Ahead(R, j, l)
        BY <2>2, <3>3
      <4>2. Ahead(R, i, l)
        BY <1>6, <4>1 DEF Ahead
      <4> QED BY <3>3, <4>1, <4>2
    <3> QED BY <2>2, <3>1, <3>2, <3>3
  <2>3. ASSUME NEW i \in all, NEW j \in all, i # j
        PROVE  first(i, j) \/ first(j, i)
    <3>1. CASE i \in included /\ j \in included
      <4>1. place(i) \in Nat /\ place(j) \in Nat /\ place(i) # place(j)
        BY <1>4, <1>5, <2>3, <3>1
      <4> QED BY <3>1, <4>1
    <3>2. CASE i \notin included /\ j \notin included
      <4>1. Ahead(R, i, j) \/ Ahead(R, j, i)
        BY <1>6, <2>3 DEF Ahead
      <4> QED BY <3>2, <4>1
    <3> QED BY <3>1, <3>2
  <2> HIDE DEF first
  <2> QED BY <2>1, <2>2, <2>3
<1>8. /\ all = Wanted(P, R, entries)
      /\ rel = Before(P, R, entries)
      /\ m = Budget(session, P, R, entries)
  BY DEF Wanted, Before, Budget, Listed
<1>9. \A i, j \in all : <<i, j>> \in rel <=> first(i, j)
  <2> HIDE DEF first, all
  <2> QED OBVIOUS
<1>10. Ordered(rel, all)
  <2> HIDE DEF first, all, rel
  <2> QED BY <1>1, <1>7, <1>9 DEF Ordered
<1> HIDE DEF rel, all, m, first
<1>11. ASSUME NEW i \in all
      PROVE  Below(rel, all, i) = {j \in all : first(j, i)}
  BY <1>9 DEF Below
<1>12. ASSUME NEW n \in 1..m
      PROVE  at(n) \in all /\ Cardinality({j \in all : first(j, at(n))}) = n - 1
  <2>1. n - 1 \in Nat /\ n - 1 < Cardinality(all)
    <3>1. Cardinality(all) \in Nat
      BY <1>1, FS_CardinalityType
    <3> QED BY <1>2, <3>1
  <2>4. PICK i \in all : Cardinality(Below(rel, all, i)) = n - 1
    <3>1. PICK k \in Nat : k = n - 1
      BY <2>1
    <3>2. k < Cardinality(all)
      BY <2>1, <3>1
    <3>4. Taken(rel, all, k)
      BY <1>10, <3>2, Places
    <3> QED BY <3>1, <3>4 DEF Taken
  <2>6. \E l \in all : Cardinality({j \in all : first(j, l)}) = n - 1
    BY <1>11, <2>4
  <2> QED BY <2>6
<1>13. Considered(session, P, R, entries) = [n \in 1..m |-> at(n)]
  BY DEF Considered, all, m, first
<1>14. ASSUME NEW n \in 1..m
       PROVE  at(n) \in entries /\ PlacedAt(P, R, entries, n, at(n))
  <2> HIDE DEF at
  <2>1. PICK i : i = at(n)
    OBVIOUS
  <2>2. i \in all /\ Cardinality({j \in all : first(j, i)}) = n - 1
    BY <1>12, <2>1
  <2>3. Cardinality(Below(rel, all, i)) = n - 1
    BY <1>11, <2>2
  <2> QED BY <1>1, <1>8, <2>1, <2>2, <2>3 DEF PlacedAt
<1> HIDE DEF at
<1>15. [n \in 1..m |-> at(n)] \in [1..m -> entries]
  BY <1>14
<1>16. \A n \in 1..m : PlacedAt(P, R, entries, n, [l \in 1..m |-> at(l)][n])
  BY <1>14
<1> QED BY <1>2, <1>13, <1>15, <1>16, <1>8, <1>10

\* The candidates are entries.
LEMMA ConsideredIs ==
    ASSUME NEW session, session.budget \in Nat, NEW P, P.candidates \in Nat,
           P.include \in Seq(Nat), NEW R, NEW entries, Ranked(R, entries)
    PROVE  Considered(session, P, R, entries) \in Seq(entries)
<1>1. PICK m : m = Budget(session, P, R, entries)
  OBVIOUS
<1>2. m \in Nat /\ Considered(session, P, R, entries) \in [1..m -> entries]
  BY <1>1, ConsideredPlaces
<1> QED BY <1>2, SeqDef

\* Records with the same scores are considered in the same order.
LEMMA ConsideredAlike ==
    ASSUME NEW session, session.budget \in Nat, NEW P, P.candidates \in Nat,
           P.include \in Seq(Nat), NEW R, NEW entries, Ranked(R, entries),
           NEW T, \A i \in entries : T[i].score = R[i].score
    PROVE  Considered(session, P, T, entries) = Considered(session, P, R, entries)
<1>1. Ranked(T, entries)
  BY DEF Ranked
<1>2. Wanted(P, T, entries) = Wanted(P, R, entries)
  BY DEF Wanted, Scored
<1>3. Wanted(P, R, entries) \subseteq entries
  BY DEF Wanted, Scored
<1>4. Before(P, T, entries) = Before(P, R, entries)
  <2> DEFINE C == Wanted(P, R, entries)
  <2>1. \A a, b \in C : Ahead(T, a, b) <=> Ahead(R, a, b)
    BY <1>3 DEF Ahead
  <2>2. \A p \in C \X C : Ahead(T, p[1], p[2]) <=> Ahead(R, p[1], p[2])
    <3> HIDE DEF C
    <3> QED BY <2>1
  <2> HIDE DEF C
  <2>3. Wanted(P, T, entries) = C /\ Wanted(P, R, entries) = C
    BY <1>2 DEF C
  <2> QED BY <2>2, <2>3 DEF Before
<1>5. Budget(session, P, T, entries) = Budget(session, P, R, entries)
  BY <1>2 DEF Budget
<1>6. PICK m, f, h : /\ m = Budget(session, P, R, entries)
                     /\ f = Considered(session, P, R, entries)
                     /\ h = Considered(session, P, T, entries)
  OBVIOUS
<1>7. /\ m \in Nat /\ f \in [1..m -> entries]
      /\ \A n \in 1..m : PlacedAt(P, R, entries, n, f[n])
      /\ Ordered(Before(P, R, entries), Wanted(P, R, entries))
  BY <1>6, ConsideredPlaces
<1>8. /\ h \in [1..m -> entries]
      /\ \A n \in 1..m : PlacedAt(P, T, entries, n, h[n])
  BY <1>1, <1>5, <1>6, ConsideredPlaces
<1>9. ASSUME NEW n \in 1..m
      PROVE  f[n] = h[n]
  <2>1. PlacedAt(P, R, entries, n, f[n]) /\ PlacedAt(P, R, entries, n, h[n])
    <3>1. PlacedAt(P, T, entries, n, h[n])
      BY <1>8
    <3> QED BY <1>2, <1>4, <1>7, <3>1 DEF PlacedAt
  <2>2. PICK rel, C : rel = Before(P, R, entries) /\ C = Wanted(P, R, entries)
    OBVIOUS
  <2>3. /\ f[n] \in C /\ h[n] \in C
        /\ Cardinality(Below(rel, C, f[n])) = Cardinality(Below(rel, C, h[n]))
    BY <2>1, <2>2 DEF PlacedAt
  <2> QED BY <1>7, <2>2, <2>3, PlacesDiffer
<1>10. f = h
  BY <1>7, <1>8, <1>9
<1> QED BY <1>6, <1>10

Ledger(R, ordered, n) == PackSize(R, Reserved(SubSeq(ordered, 1, n)))

\* The ledger of n candidates fits, if that of none does, and that of one more does not.
CutAt(R, ordered, bytes, n) ==
    /\ Ledger(R, ordered, 0) <= bytes => Ledger(R, ordered, n) <= bytes
    /\ n < Len(ordered) => ~ (Ledger(R, ordered, n + 1) <= bytes)

\* The bisection ends, at a length whose ledger fits and that of one more does not.
LEMMA PrefixCut ==
    ASSUME NEW R, NEW entries, NEW ordered \in Seq(entries), NEW bytes
    PROVE  \E n \in 0..Len(ordered) : /\ FittingPrefix(R, ordered, bytes) = SubSeq(ordered, 1, n)
                                      /\ CutAt(R, ordered, bytes, n)
<1> DEFINE k == Len(ordered)
           D == [low : 0..k, high : 0..k]
           fits(n) == PackSize(R, Reserved(SubSeq(ordered, 1, n))) <= bytes
           middle(now) == (now.low + now.high + 1) \div 2
           step == [now \in D |->
                      IF now.low >= now.high THEN now
                      ELSE IF fits(middle(now)) THEN [now EXCEPT !.low = middle(now)]
                      ELSE [now EXCEPT !.high = middle(now) - 1]]
           base == [low |-> 0, high |-> k]
           F == [n \in 1..k |-> step]
           Is(f) == f = [n \in 0..k |->
                           IF n = 0 THEN [low |-> 0, high |-> k]
                           ELSE LET now == f[n - 1]
                                    mid == (now.low + now.high + 1) \div 2
                                IN  IF now.low >= now.high THEN now
                                    ELSE IF fits(mid) THEN [now EXCEPT !.low = mid]
                                    ELSE [now EXCEPT !.high = mid - 1]]
           range == CHOOSE f : Is(f)
<1>1. k \in Nat /\ base \in D
  BY LenProperties
<1>2. step \in [D -> D]
  <2>1. ASSUME NEW now \in D, ~ (now.low >= now.high)
        PROVE  /\ [now EXCEPT !.low = middle(now)] \in D
               /\ [now EXCEPT !.high = middle(now) - 1] \in D
    <3>1. now.low \in 0..k /\ now.high \in 0..k
      OBVIOUS
    <3> HIDE DEF k
    <3>2. middle(now) \in 1..now.high
      BY <1>1, <2>1, <3>1
    <3>3. middle(now) \in 0..k /\ middle(now) - 1 \in 0..k
      <4> HIDE DEF middle
      <4> QED BY <1>1, <3>1, <3>2
    <3> HIDE DEF middle
    <3> QED BY <3>3
  <2> HIDE DEF fits, middle, D
  <2> QED BY <2>1
<1>3. F \in [1..k -> [D -> D]]
  <2> HIDE DEF step, D
  <2> QED BY <1>2
<1>4. PICK f : Run(f, D, k, base, F)
  <2> HIDE DEF D, F, base, k
  <2> QED BY <1>1, <1>3, Running
<1>5. f \in [0..k -> D] /\ f[0] = base
  <2> HIDE DEF D, F, base, k
  <2> QED BY <1>4 DEF Run
<1>6. ASSUME NEW n \in 1..k
      PROVE  f[n] = step[f[n - 1]] /\ f[n - 1] \in D
  <2> HIDE DEF D, step, base, k
  <2>1. n - 1 \in 0..k
    BY <1>1
  <2> QED BY <1>4, <1>5, <2>1 DEF Run
<1>7. Is(f)
  <2>1. \A n \in 0..k : n # 0 => n \in 1..k
    BY <1>1
  <2>2. \A n \in 1..k : f[n] =
           LET now == f[n - 1]
               mid == (now.low + now.high + 1) \div 2
           IN  IF now.low >= now.high THEN now
               ELSE IF fits(mid) THEN [now EXCEPT !.low = mid]
               ELSE [now EXCEPT !.high = mid - 1]
    <3> HIDE DEF fits, D, k
    <3> QED BY <1>6
  <2>3. f = [n \in 0..k |-> f[n]]
    <3> HIDE DEF D, k
    <3> QED BY <1>5
  <2> HIDE DEF fits, k
  <2> QED BY <1>5, <2>1, <2>2, <2>3
<1>8. Is(range)
  <2> HIDE DEF Is
  <2> QED BY <1>7
<1>9. FittingPrefix(R, ordered, bytes) = SubSeq(ordered, 1, range[k].low)
  BY DEF FittingPrefix
<1> DEFINE narrow(now, n) == /\ now \in D
                             /\ now.low <= now.high
                             /\ fits(0) => fits(now.low)
                             /\ now.high < k => ~ fits(now.high + 1)
                             /\ now.high - now.low <= k - n
           Q == {n \in 0..k : narrow(range[n], n)}
<1>10. ASSUME NEW n \in 1..k, NEW now, narrow(now, n - 1)
       PROVE  narrow(step[now], n)
  <2>1. PICK low \in 0..k, high \in 0..k : now = [low |-> low, high |-> high]
    <3> HIDE DEF k, fits, step, middle
    <3> QED BY <1>10
  <2>2. /\ low <= high /\ (fits(0) => fits(low)) /\ (high < k => ~ fits(high + 1))
        /\ high - low <= k - (n - 1)
    <3> HIDE DEF k, fits, step, middle
    <3> QED BY <1>10, <2>1
  <2> DEFINE mid == (low + high + 1) \div 2
  <2>3. middle(now) = mid
    BY <2>1
  <2>4. step[now] = IF low >= high THEN now
                    ELSE IF fits(mid) THEN [low |-> mid, high |-> high]
                    ELSE [low |-> low, high |-> mid - 1]
    <3>1. now \in D
      BY <2>1
    <3>2. step[now] = IF now.low >= now.high THEN now
                      ELSE IF fits(mid) THEN [now EXCEPT !.low = mid]
                      ELSE [now EXCEPT !.high = mid - 1]
      <4> HIDE DEF fits, D, mid, middle
      <4> QED BY <2>3, <3>1
    <3> HIDE DEF fits, mid, step, k
    <3> QED BY <2>1, <3>2
  <2> HIDE DEF step, middle
  <2>5. n \in Nat /\ low \in Nat /\ high \in Nat /\ n <= k /\ high <= k
    <3> HIDE DEF k
    <3> QED BY <1>1
  <2>6. CASE low >= high
    <3>1. step[now] = now /\ high - low <= k - n
      <4> HIDE DEF fits, k, mid
      <4> QED BY <1>1, <2>2, <2>4, <2>5, <2>6
    <3> HIDE DEF fits, k, mid
    <3> QED BY <2>1, <2>2, <3>1
  <2>7. CASE low < high
    <3>1. mid \in (low + 1)..high
      BY <2>5, <2>7
    <3>2. mid \in 0..k /\ mid - 1 \in 0..k /\ mid <= high /\ low <= mid - 1
          /\ high - mid <= k - n /\ (mid - 1) - low <= k - n /\ (mid - 1) + 1 = mid
      <4> HIDE DEF mid, k
      <4> QED BY <1>1, <2>2, <2>5, <3>1
    <3> HIDE DEF mid
    <3>3. CASE fits(mid)
      <4>1. step[now] = [low |-> mid, high |-> high]
        <5> HIDE DEF fits
        <5> QED BY <2>4, <2>5, <2>7, <3>3
      <4> HIDE DEF fits, k
      <4> QED BY <2>2, <3>2, <3>3, <4>1
    <3>4. CASE ~ fits(mid)
      <4>1. step[now] = [low |-> low, high |-> mid - 1]
        <5> HIDE DEF fits
        <5> QED BY <2>4, <2>5, <2>7, <3>4
      <4> HIDE DEF fits, k
      <4> QED BY <2>2, <3>2, <3>4, <4>1
    <3> QED BY <3>3, <3>4
  <2> QED BY <2>5, <2>6, <2>7
<1>11. \A n \in 0..k : n \in Q
  <2>1. 0 \in Q
    <3>1. 0 \in 0..k
      BY <1>1
    <3>2. range[0] = base
      <4> HIDE DEF fits, range, k
      <4> QED BY <1>8, <3>1
    <3>3. narrow(base, 0)
      <4> HIDE DEF fits, range, k
      <4> QED BY <1>1
    <3> HIDE DEF narrow, range, base, k
    <3> QED BY <3>1, <3>2, <3>3
  <2> HIDE DEF range, k
  <2>2. ASSUME NEW n \in 1..k, n - 1 \in Q
        PROVE  n \in Q
    <3>1. n \in 0..k /\ n # 0 /\ narrow(range[n - 1], n - 1)
      <4> HIDE DEF narrow
      <4> QED BY <1>1, <2>2
    <3>2. range[n] = step[range[n - 1]]
      <4>1. range[n - 1] \in D
        BY <3>1
      <4> HIDE DEF fits, D
      <4> QED BY <1>8, <3>1, <4>1
    <3> HIDE DEF step, D, narrow
    <3> QED BY <1>10, <3>1, <3>2
  <2> HIDE DEF Q
  <2> QED BY <1>1, <2>1, <2>2, Upwards
<1>12. narrow(range[k], k)
  <2>1. k \in 0..k
    BY <1>1
  <2> HIDE DEF range, k, narrow
  <2> QED BY <1>11, <2>1
<1> HIDE DEF range
<1>13. PICK n \in 0..k : n = range[k].low
  <2> HIDE DEF fits, k
  <2> QED BY <1>12
<1>14. (fits(0) => fits(n)) /\ (n < k => ~ fits(n + 1))
  <2> HIDE DEF fits, k
  <2>1. range[k].high \in 0..k /\ range[k].high - n <= k - k /\ n <= range[k].high
    BY <1>12, <1>13
  <2>2. range[k].high = n
    BY <1>1, <1>13, <2>1
  <2> QED BY <1>12, <1>13, <2>2
<1>15. CutAt(R, ordered, bytes, n)
  BY <1>14 DEF CutAt, Ledger
<1> QED BY <1>9, <1>13, <1>15

\* The beginning of a sequence is one of the same things.
LEMMA BeginningIs ==
    ASSUME NEW entries, NEW ordered \in Seq(entries), NEW n \in 0..Len(ordered)
    PROVE  SubSeq(ordered, 1, n) \in Seq(entries)
<1>1. Len(ordered) \in Nat /\ \A m \in 1..Len(ordered) : ordered[m] \in entries
  BY LenProperties, ElementOfSeq
<1>2. n \in Int /\ 1 \in Int /\ \A m \in 1..n : ordered[m] \in entries
  BY <1>1
<1> QED BY <1>2, SubSeqProperties

\* What is kept is a prefix.
LEMMA PrefixIs ==
    ASSUME NEW R, NEW entries, NEW ordered \in Seq(entries), NEW bytes
    PROVE  FittingPrefix(R, ordered, bytes) \in Seq(entries)
<1>1. PICK n \in 0..Len(ordered) : FittingPrefix(R, ordered, bytes) = SubSeq(ordered, 1, n)
  BY PrefixCut
<1> QED BY <1>1, BeginningIs

\* Why a candidate is not selected.
Reasons == {"not-selected-candidate", "explicit-exclusion", "revision-mismatch", "kind-filter",
            "item-budget", "byte-budget"}

\* Every candidate of the cut ledger in turn.
PackRun(session, P, R, bytes, ordered, f) ==
    /\ f[0] = Reserved(ordered)
    /\ \A n \in 1..Len(ordered) : f[n] = PackOne(session, P, R, bytes, f[n - 1], ordered[n])

Packing(session, P, R, entries, ordered, f) ==
    /\ ordered = FittingPrefix(R, Considered(session, P, R, entries), Bytes(session, P))
    /\ PackRun(session, P, R, Bytes(session, P), ordered, f)
    /\ \A n \in 0..Len(ordered) : f[n].selected \subseteq entries
    /\ Pack(session, P, R, entries) =
          IF Bytes(session, P) < 1 THEN Reserved(<<>>) ELSE f[Len(ordered)]

\* A pack is the end of such a run, and what is selected on the way is among the entries.
LEMMA PackRuns ==
    ASSUME NEW session, session.budget \in Nat, NEW P, P.candidates \in Nat,
           P.include \in Seq(Nat), NEW R, NEW entries, Ranked(R, entries)
    PROVE  \E ordered \in Seq(entries) : \E f : Packing(session, P, R, entries, ordered, f)
<1> DEFINE bytes == Bytes(session, P)
           ordered == FittingPrefix(R, Considered(session, P, R, entries), bytes)
           k == Len(ordered)
           D == [selected : SUBSET entries, reason : UNION {[T -> Reasons] : T \in SUBSET entries}]
           F == [n \in 1..k |-> [now \in D |-> PackOne(session, P, R, bytes, now, ordered[n])]]
           base == Reserved(ordered)
           Is(f) == f = [n \in 0..k |-> IF n = 0 THEN Reserved(ordered)
                                        ELSE PackOne(session, P, R, bytes, f[n - 1], ordered[n])]
           packed == CHOOSE f : Is(f)
<1>1. ordered \in Seq(entries)
  <2>1. Considered(session, P, R, entries) \in Seq(entries)
    BY ConsideredIs
  <2> QED BY <2>1, PrefixIs
<1> HIDE DEF ordered, bytes
<1>2. k \in Nat /\ DOMAIN ordered = 1..k /\ \A n \in 1..k : ordered[n] \in entries
  BY <1>1, LenProperties, ElementOfSeq
<1> HIDE DEF k
<1>3. base \in D
  <2>1. ToSet(ordered) \subseteq entries
    BY <1>2 DEF ToSet
  <2>2. [i \in ToSet(ordered) |-> "not-selected-candidate"] \in [ToSet(ordered) -> Reasons]
    BY DEF Reasons
  <2> QED BY <2>1, <2>2 DEF Reserved
<1>4. ASSUME NEW now \in D, NEW i \in entries
      PROVE  PackOne(session, P, R, bytes, now, i) \in D
  <2> DEFINE refuse(reason) == [now EXCEPT !.reason[i] = reason]
             taken == [selected |-> now.selected \cup {i},
                       reason |-> Restrict(now.reason, DOMAIN now.reason \ {i})]
  <2>1. PICK T \in SUBSET entries : now.reason \in [T -> Reasons]
    OBVIOUS
  <2>2. now.selected \in SUBSET entries
    OBVIOUS
  <2>3. \A reason \in Reasons : refuse(reason) \in D
    <3> SUFFICES ASSUME NEW reason \in Reasons
                 PROVE  refuse(reason) \in D
      OBVIOUS
    <3>1. [now.reason EXCEPT ![i] = reason] \in [T -> Reasons]
      BY <2>1
    <3>2. refuse(reason) = [selected |-> now.selected, reason |-> [now.reason EXCEPT ![i] = reason]]
      OBVIOUS
    <3> QED BY <2>2, <3>1, <3>2
  <2>4. taken \in D
    <3>1. Restrict(now.reason, DOMAIN now.reason \ {i}) \in [T \ {i} -> Reasons]
      BY <2>1 DEF Restrict
    <3> QED BY <2>2, <3>1
  <2>5. PackOne(session, P, R, bytes, now, i)
          \in {taken} \cup {refuse(reason) : reason \in Reasons}
    <3> HIDE DEF D
    <3>1. /\ refuse("explicit-exclusion") \in {refuse(reason) : reason \in Reasons}
          /\ refuse("revision-mismatch") \in {refuse(reason) : reason \in Reasons}
          /\ refuse("kind-filter") \in {refuse(reason) : reason \in Reasons}
          /\ refuse("item-budget") \in {refuse(reason) : reason \in Reasons}
          /\ refuse("byte-budget") \in {refuse(reason) : reason \in Reasons}
      BY DEF Reasons
    <3> DEFINE refusals == {refuse(reason) : reason \in Reasons}
    <3>2. CASE i \in P.exclude
      <4>1. PackOne(session, P, R, bytes, now, i) = refuse("explicit-exclusion")
        BY <3>2 DEF PackOne
      <4> HIDE DEF refuse, taken
      <4> QED BY <3>1, <4>1
    <3>3. CASE i \notin P.exclude /\ i \in P.stale
      <4>1. PackOne(session, P, R, bytes, now, i) = refuse("revision-mismatch")
        BY <3>3 DEF PackOne
      <4> HIDE DEF refuse, taken
      <4> QED BY <3>1, <4>1
    <3>4. CASE i \notin P.exclude \cup P.stale /\ P.kinds # {} /\ R[i].kind \notin P.kinds
      <4>1. PackOne(session, P, R, bytes, now, i) = refuse("kind-filter")
        BY <3>4 DEF PackOne
      <4> HIDE DEF refuse, taken
      <4> QED BY <3>1, <4>1
    <3>5. CASE ~ (i \in P.exclude) /\ ~ (i \notin P.exclude /\ i \in P.stale)
                 /\ ~ (i \notin P.exclude \cup P.stale /\ P.kinds # {} /\ R[i].kind \notin P.kinds)
      <4>1. PackOne(session, P, R, bytes, now, i)
              \in {refuse("item-budget"), taken, refuse("byte-budget")}
        BY <3>5 DEF PackOne
      <4> HIDE DEF refuse, taken
      <4> QED BY <3>1, <4>1
    <3> QED BY <3>2, <3>3, <3>4, <3>5
  <2> HIDE DEF D, taken, refuse
  <2> QED BY <2>3, <2>4, <2>5
<1>5. F \in [1..k -> [D -> D]]
  <2>1. \A n \in 1..k : \A now \in D : PackOne(session, P, R, bytes, now, ordered[n]) \in D
    <3> HIDE DEF D
    <3> QED BY <1>2, <1>4
  <2> HIDE DEF D
  <2> QED BY <2>1
<1>6. PICK f : Run(f, D, k, base, F)
  <2> HIDE DEF D, F, base
  <2> QED BY <1>2, <1>3, <1>5, Running
<1>7. f \in [0..k -> D] /\ f[0] = base
  <2> HIDE DEF D, F, base
  <2> QED BY <1>6 DEF Run
<1>8. ASSUME NEW n \in 1..k
      PROVE  f[n] = PackOne(session, P, R, bytes, f[n - 1], ordered[n])
  <2> HIDE DEF D, base
  <2>1. n - 1 \in 0..k
    BY <1>2
  <2>2. f[n - 1] \in D /\ f[n] = F[n][f[n - 1]]
    <3> HIDE DEF F
    <3> QED BY <1>6, <1>7, <2>1 DEF Run
  <2> QED BY <2>2
<1>9. Is(f)
  <2>1. \A n \in 0..k : n # 0 => n \in 1..k
    BY <1>2
  <2>2. f = [n \in 0..k |-> f[n]]
    <3> HIDE DEF D
    <3> QED BY <1>7
  <2> QED BY <1>7, <1>8, <2>1, <2>2
<1>10. Is(packed)
  <2> HIDE DEF Is
  <2> QED BY <1>9
<1> DEFINE Q == {n \in 0..k : packed[n] \in D}
<1>11. \A n \in 0..k : n \in Q
  <2> HIDE DEF packed, D
  <2>1. 0 \in Q
    <3>1. 0 \in 0..k
      BY <1>2
    <3>2. packed[0] = base
      BY <1>10, <3>1
    <3> QED BY <1>3, <3>1, <3>2
  <2>2. ASSUME NEW n \in 1..k, n - 1 \in Q
        PROVE  n \in Q
    <3>1. n \in 0..k /\ n # 0 /\ packed[n - 1] \in D
      BY <1>2, <2>2
    <3>2. packed[n] = PackOne(session, P, R, bytes, packed[n - 1], ordered[n])
      BY <1>10, <3>1
    <3> QED BY <1>2, <1>4, <3>1, <3>2
  <2> HIDE DEF Q
  <2> QED BY <1>2, <2>1, <2>2, Upwards
<1>12. \A n \in 0..k : packed[n].selected \subseteq entries
  <2>1. \A n \in 0..k : packed[n] \in D
    BY <1>11
  <2> HIDE DEF packed
  <2> QED BY <2>1
<1>13. Pack(session, P, R, entries) = IF bytes < 1 THEN Reserved(<<>>) ELSE packed[k]
  BY DEF Pack, ordered, bytes, k
<1>14. /\ packed[0] = Reserved(ordered)
       /\ \A n \in 1..k : packed[n] = PackOne(session, P, R, bytes, packed[n - 1], ordered[n])
  <2>1. 0 \in 0..k /\ \A n \in 1..k : n \in 0..k /\ n # 0
    BY <1>2
  <2> HIDE DEF packed
  <2> QED BY <1>10, <2>1
<1> HIDE DEF packed
<1>15. PackRun(session, P, R, bytes, ordered, packed)
  BY <1>14 DEF PackRun, k
<1>16. Packing(session, P, R, entries, ordered, packed)
  BY <1>12, <1>13, <1>15 DEF Packing, bytes, ordered, k
<1> QED BY <1>1, <1>16

\* What a pack selects is among the entries.
LEMMA PackIs ==
    ASSUME NEW session, session.budget \in Nat, NEW P, P.candidates \in Nat,
           P.include \in Seq(Nat), NEW R, NEW entries, Ranked(R, entries)
    PROVE  Pack(session, P, R, entries).selected \subseteq entries
<1>1. PICK ordered \in Seq(entries) : \E f : Packing(session, P, R, entries, ordered, f)
  BY PackRuns
<1>2. PICK f : Packing(session, P, R, entries, ordered, f)
  BY <1>1
<1>3. Len(ordered) \in 0..Len(ordered)
  BY LenProperties
<1>4. Reserved(<<>>).selected \subseteq entries
  BY DEF Reserved
<1> QED BY <1>2, <1>3, <1>4 DEF Packing

(***************************************************************************)
(* Byte ceilings.                                                          *)
(***************************************************************************)
\* Entries of a table with a size.
Sized(R, entries) ==
    /\ IsFiniteSet(entries)
    /\ entries \subseteq DOMAIN R
    /\ \A i \in entries : R[i].size \in Nat

Lines(reason) == SumFunctionOnSet([i \in DOMAIN reason |-> LineSize(reason[i])], DOMAIN reason)

Bodies(R, ids) == SumFunctionOnSet([i \in DOMAIN R |-> R[i].size], ids)

\* The lines of a ledger are numbers.
LEMMA LinesAre ==
    ASSUME NEW T, IsFiniteSet(T), NEW reason, DOMAIN reason = T
    PROVE  /\ Lines(reason) \in Nat
           /\ T = {} => Lines(reason) = 0
           /\ Counts([i \in T |-> LineSize(reason[i])], T)
<1>1. PICK f : f = [i \in T |-> LineSize(reason[i])]
  OBVIOUS
<1>2. \A i \in T : f[i] = LineSize(reason[i])
  BY <1>1
<1>3. Counts(f, T)
  BY <1>2 DEF Counts, LineSize
<1>4. Lines(reason) = SumFunctionOnSet(f, T)
  BY <1>1 DEF Lines
<1> QED BY <1>1, <1>3, <1>4, SumAdds

\* The sizes of entries are numbers.
LEMMA BodiesAre ==
    ASSUME NEW entries, NEW R, Sized(R, entries), NEW ids \in SUBSET entries
    PROVE  /\ Bodies(R, ids) \in Nat
           /\ Bodies(R, {}) = 0
           /\ Counts([i \in DOMAIN R |-> R[i].size], ids)
           /\ IsFiniteSet(ids)
<1>1. PICK f : f = [i \in DOMAIN R |-> R[i].size]
  OBVIOUS
<1>2. \A i \in ids : f[i] = R[i].size /\ R[i].size \in Nat
  BY <1>1 DEF Sized
<1>3. Counts(f, ids)
  BY <1>2 DEF Counts
<1>4. IsFiniteSet(ids)
  BY FS_Subset DEF Sized
<1> QED BY <1>1, <1>3, <1>4, SumAdds DEF Bodies

\* The size of a pack is a number.
LEMMA PackSizeIs ==
    ASSUME NEW entries, NEW R, Sized(R, entries), NEW selected \in SUBSET entries, NEW reason,
           IsFiniteSet(DOMAIN reason)
    PROVE  /\ PackSize(R, [selected |-> selected, reason |-> reason])
                = 1 + Bodies(R, selected) + Lines(reason)
           /\ PackSize(R, [selected |-> selected, reason |-> reason]) \in Nat
<1>1. PackSize(R, [selected |-> selected, reason |-> reason])
        = 1 + Bodies(R, selected) + Lines(reason)
  BY DEF PackSize, Bodies, Lines
<1>2. Bodies(R, selected) \in Nat
  BY BodiesAre
<1>3. Lines(reason) \in Nat
  BY LinesAre
<1> QED BY <1>1, <1>2, <1>3

\* The ledger of no candidate is the metadata alone.
LEMMA NoLines ==
    ASSUME NEW entries, NEW R, Sized(R, entries)
    PROVE  /\ PackSize(R, [selected |-> {}, reason |-> <<>>]) = 1
           /\ PackSize(R, Reserved(<<>>)) = 1
           /\ \A ordered : Ledger(R, ordered, 0) = 1
<1>1. ASSUME NEW reason, DOMAIN reason = {}
      PROVE  PackSize(R, [selected |-> {}, reason |-> reason]) = 1
  <2>1. IsFiniteSet({})
    BY FS_EmptySet
  <2>2. Lines(reason) = 0
    BY <1>1, <2>1, LinesAre
  <2>3. Bodies(R, {}) = 0
    BY BodiesAre
  <2>4. PackSize(R, [selected |-> {}, reason |-> reason]) = 1 + Bodies(R, {}) + Lines(reason)
    <3>1. {} \in SUBSET entries /\ IsFiniteSet(DOMAIN reason)
      BY <1>1, <2>1
    <3> QED BY <3>1, PackSizeIs
  <2> QED BY <2>2, <2>3, <2>4
<1>2. ASSUME NEW s, DOMAIN s = {}
      PROVE  PackSize(R, Reserved(s)) = 1
  <2>1. ToSet(s) = {}
    BY <1>2 DEF ToSet
  <2>2. PICK reason : reason = [i \in ToSet(s) |-> "not-selected-candidate"]
    OBVIOUS
  <2>3. DOMAIN reason = {} /\ Reserved(s) = [selected |-> {}, reason |-> reason]
    BY <2>1, <2>2 DEF Reserved
  <2> QED BY <1>1, <2>3
<1>3. DOMAIN <<>> = {}
  OBVIOUS
<1>4. ASSUME NEW ordered
      PROVE  Ledger(R, ordered, 0) = 1
  <2>1. SubSeq(ordered, 1, 0) = <<>>
    <3>1. 1 \in Int /\ 0 \in Int /\ 0 < 1
      OBVIOUS
    <3> QED BY <3>1, SubSeqEmpty
  <2> QED BY <1>2, <1>3, <2>1 DEF Ledger
<1> QED BY <1>1, <1>2, <1>3, <1>4

\* The line of a refused candidate is the shortest there is.
LEMMA RefusalShorter ==
    ASSUME NEW T, IsFiniteSet(T), NEW reason \in [T -> Reasons], NEW i,
           NEW why, LineSize(why) = 1
    PROVE  Lines([reason EXCEPT ![i] = why]) <= Lines(reason)
<1>1. PICK turned : turned = [reason EXCEPT ![i] = why]
  OBVIOUS
<1>2. DOMAIN turned = T /\ DOMAIN reason = T /\ \A j \in T : turned[j] = IF j = i THEN why ELSE reason[j]
  BY <1>1
<1>3. PICK f : f = [j \in T |-> LineSize(reason[j])]
  OBVIOUS
<1>4. PICK h : h = [j \in T |-> LineSize(turned[j])]
  OBVIOUS
<1>5. Lines(reason) = SumFunctionOnSet(f, T) /\ Lines(turned) = SumFunctionOnSet(h, T)
  BY <1>2, <1>3, <1>4 DEF Lines
<1>6. Counts(f, T) /\ Counts(h, T)
  BY <1>2, <1>3, <1>4, LinesAre
<1>7. CASE i \notin T
  <2>1. SameOn(f, h, T)
    BY <1>2, <1>3, <1>4, <1>7 DEF SameOn
  <2>2. SumFunctionOnSet(f, T) = SumFunctionOnSet(h, T) /\ SumFunctionOnSet(f, T) \in Nat
    BY <1>6, <2>1, SumAgrees, SumAdds
  <2> QED BY <1>1, <1>5, <2>2
<1>8. CASE i \in T
  <2>1. PICK rest : rest = T \ {i}
    OBVIOUS
  <2>2. IsFiniteSet(rest)
    BY <2>1, FS_Subset
  <2>3. Counts(f, rest) /\ SameOn(f, h, rest)
    BY <1>2, <1>3, <1>4, <1>6, <2>1 DEF Counts, SameOn
  <2>4. SumFunctionOnSet(f, rest) = SumFunctionOnSet(h, rest) /\ SumFunctionOnSet(f, rest) \in Nat
    BY <2>2, <2>3, SumAgrees, SumAdds
  <2>5. /\ SumFunctionOnSet(f, T) = f[i] + SumFunctionOnSet(f, rest)
        /\ SumFunctionOnSet(h, T) = h[i] + SumFunctionOnSet(h, rest)
    BY <1>6, <1>8, <2>1, SumAdds
  <2>6. h[i] = 1 /\ f[i] \in Nat /\ f[i] >= 1
    <3>1. h[i] = LineSize(why) /\ f[i] = LineSize(reason[i])
      BY <1>2, <1>3, <1>4, <1>8
    <3> QED BY <3>1 DEF LineSize
  <2> QED BY <1>1, <1>5, <2>4, <2>5, <2>6
<1> QED BY <1>7, <1>8

\* A pack within its budgets that accounts once for each of the identities.
Fitting(R, P, items, bytes, entries, ids, pack) ==
    \E selected \in SUBSET entries : \E T \in SUBSET entries : \E reason \in [T -> Reasons] :
        /\ pack = [selected |-> selected, reason |-> reason]
        /\ selected \cup T = ids
        /\ selected \cap T = {}
        /\ selected \cap P.exclude = {}
        /\ Cardinality(selected) <= items
        /\ PackSize(R, pack) <= bytes

Items(session, P) == IF P.items < session.results THEN P.items ELSE session.results

\* One candidate more leaves it so.
LEMMA PackOneFits ==
    ASSUME NEW session, session.results \in Nat, NEW P, P.items \in Nat, NEW R, NEW entries,
           Sized(R, entries), NEW bytes \in Nat, NEW ids, NEW i \in ids, NEW pack,
           Fitting(R, P, Items(session, P), bytes, entries, ids, pack)
    PROVE  Fitting(R, P, Items(session, P), bytes, entries, ids,
                   PackOne(session, P, R, bytes, pack, i))
<1> DEFINE items == Items(session, P)
<1>0. items \in Nat
  BY DEF Items
<1>1. PICK selected \in SUBSET entries : \E T \in SUBSET entries : \E reason \in [T -> Reasons] :
        /\ pack = [selected |-> selected, reason |-> reason]
        /\ selected \cup T = ids
        /\ selected \cap T = {}
        /\ selected \cap P.exclude = {}
        /\ Cardinality(selected) <= items
        /\ PackSize(R, pack) <= bytes
  BY DEF Fitting
<1>2. PICK T \in SUBSET entries : \E reason \in [T -> Reasons] :
        /\ pack = [selected |-> selected, reason |-> reason]
        /\ selected \cup T = ids
        /\ selected \cap T = {}
        /\ selected \cap P.exclude = {}
        /\ Cardinality(selected) <= items
        /\ PackSize(R, pack) <= bytes
  BY <1>1
<1>3. PICK reason \in [T -> Reasons] :
        /\ pack = [selected |-> selected, reason |-> reason]
        /\ selected \cup T = ids
        /\ selected \cap T = {}
        /\ selected \cap P.exclude = {}
        /\ Cardinality(selected) <= items
        /\ PackSize(R, pack) <= bytes
  BY <1>2
<1> HIDE DEF items
<1>4. IsFiniteSet(selected) /\ IsFiniteSet(T) /\ DOMAIN reason = T
  BY FS_Subset DEF Sized
<1> DEFINE refuse(why) == [pack EXCEPT !.reason[i] = why]
           taken == [selected |-> pack.selected \cup {i},
                     reason |-> Restrict(pack.reason, DOMAIN pack.reason \ {i})]
<1>5. ASSUME NEW why \in Reasons, LineSize(why) = 1
      PROVE  Fitting(R, P, items, bytes, entries, ids, refuse(why))
  <2>1. PICK turned : turned = [reason EXCEPT ![i] = why]
    OBVIOUS
  <2>2. turned \in [T -> Reasons]
    BY <2>1
  <2>3. refuse(why) = [selected |-> selected, reason |-> turned]
    BY <1>3, <2>1
  <2> HIDE DEF refuse
  <2>4. Lines(turned) <= Lines(reason)
    BY <1>4, <1>5, <2>1, RefusalShorter
  <2>5. /\ PackSize(R, [selected |-> selected, reason |-> turned])
              = 1 + Bodies(R, selected) + Lines(turned)
        /\ PackSize(R, [selected |-> selected, reason |-> reason])
              = 1 + Bodies(R, selected) + Lines(reason)
    BY <1>4, <2>2, PackSizeIs
  <2>6. Bodies(R, selected) \in Nat /\ Lines(turned) \in Nat /\ Lines(reason) \in Nat
    <3>1. Bodies(R, selected) \in Nat
      BY BodiesAre
    <3>2. Lines(turned) \in Nat /\ Lines(reason) \in Nat
      BY <1>4, <2>2, LinesAre
    <3> QED BY <3>1, <3>2
  <2>7. PackSize(R, refuse(why)) <= bytes
    BY <1>3, <2>3, <2>4, <2>5, <2>6
  <2> QED BY <1>3, <2>2, <2>3, <2>7 DEF Fitting
<1>6. ASSUME i \notin P.exclude, ~ (Cardinality(pack.selected) >= items), PackSize(R, taken) <= bytes
      PROVE  Fitting(R, P, items, bytes, entries, ids, taken)
  <2>1. PICK left : left = Restrict(reason, T \ {i})
    OBVIOUS
  <2>2. left \in [T \ {i} -> Reasons]
    BY <2>1 DEF Restrict
  <2>3. taken = [selected |-> selected \cup {i}, reason |-> left]
    BY <1>3, <1>4, <2>1
  <2> HIDE DEF taken
  <2>4. Cardinality(selected \cup {i}) <= items
    <3>1. Cardinality(selected) \in Nat
      BY <1>4, FS_CardinalityType
    <3>2. Cardinality(selected \cup {i}) \in {Cardinality(selected), Cardinality(selected) + 1}
      BY <1>4, FS_AddElement
    <3>3. Cardinality(pack.selected) = Cardinality(selected)
      BY <1>3
    <3> QED BY <1>0, <1>3, <1>6, <3>1, <3>2, <3>3
  <2>5. selected \cup {i} \in SUBSET entries /\ T \ {i} \in SUBSET entries
    BY <1>3
  <2>6. /\ (selected \cup {i}) \cup (T \ {i}) = ids
        /\ (selected \cup {i}) \cap (T \ {i}) = {}
        /\ (selected \cup {i}) \cap P.exclude = {}
    BY <1>3, <1>6
  <2> QED BY <1>6, <2>2, <2>3, <2>4, <2>5, <2>6 DEF Fitting
<1>7. /\ LineSize("explicit-exclusion") = 1 /\ LineSize("revision-mismatch") = 1
      /\ LineSize("kind-filter") = 1 /\ LineSize("item-budget") = 1 /\ LineSize("byte-budget") = 1
  BY DEF LineSize
<1>8. /\ Fitting(R, P, items, bytes, entries, ids, refuse("explicit-exclusion"))
      /\ Fitting(R, P, items, bytes, entries, ids, refuse("revision-mismatch"))
      /\ Fitting(R, P, items, bytes, entries, ids, refuse("kind-filter"))
      /\ Fitting(R, P, items, bytes, entries, ids, refuse("item-budget"))
      /\ Fitting(R, P, items, bytes, entries, ids, refuse("byte-budget"))
  <2> HIDE DEF refuse
  <2> QED BY <1>5, <1>7 DEF Reasons
<1> DEFINE one == PackOne(session, P, R, bytes, pack, i)
<1>9. \/ one = refuse("explicit-exclusion")
      \/ one = refuse("revision-mismatch")
      \/ one = refuse("kind-filter")
      \/ one = refuse("item-budget")
      \/ one = refuse("byte-budget")
      \/ /\ i \notin P.exclude
         /\ ~ (Cardinality(pack.selected) >= items)
         /\ PackSize(R, taken) <= bytes
         /\ one = taken
  <2>1. CASE i \in P.exclude
    BY <2>1 DEF PackOne
  <2>2. CASE i \notin P.exclude /\ i \in P.stale
    BY <2>2 DEF PackOne
  <2>3. CASE i \notin P.exclude \cup P.stale /\ P.kinds # {} /\ R[i].kind \notin P.kinds
    BY <2>3 DEF PackOne
  <2>4. CASE ~ (i \in P.exclude) /\ ~ (i \notin P.exclude /\ i \in P.stale)
             /\ ~ (i \notin P.exclude \cup P.stale /\ P.kinds # {} /\ R[i].kind \notin P.kinds)
    <3>1. one = IF Cardinality(pack.selected) >= items THEN refuse("item-budget")
                ELSE IF PackSize(R, taken) <= bytes THEN taken
                ELSE refuse("byte-budget")
      BY <2>4 DEF PackOne, items, Items
    <3> HIDE DEF one, taken, refuse
    <3> QED BY <2>4, <3>1
  <2> QED BY <2>1, <2>2, <2>3, <2>4
<1> HIDE DEF refuse, taken
<1> QED BY <1>6, <1>8, <1>9 DEF items

\* A pack and what it was made of, as PacksFit has it.
PackKeeps(session, P, R, entries, pack) ==
    LET ordered == Considered(session, P, R, entries)
    IN  /\ PackSize(R, pack) <= Bytes(session, P)
        /\ pack.selected \cap (DOMAIN pack.reason \cup P.exclude) = {}
        /\ Cardinality(pack.selected) <= session.results
        /\ \E n \in 0..Len(ordered) :
              /\ PackSize(R, Reserved(SubSeq(ordered, 1, n))) <= Bytes(session, P)
              /\ pack.selected \cup DOMAIN pack.reason = ToSet(SubSeq(ordered, 1, n))
              /\ n < Len(ordered) =>
                    PackSize(R, Reserved(SubSeq(ordered, 1, n + 1))) > Bytes(session, P)

\* The ledger of entries is a pack.
LEMMA LedgerIs ==
    ASSUME NEW entries, NEW R, Sized(R, entries), NEW ordered \in Seq(entries),
           NEW n \in 0..Len(ordered)
    PROVE  /\ SubSeq(ordered, 1, n) \in Seq(entries)
           /\ ToSet(SubSeq(ordered, 1, n)) \subseteq entries
           /\ Ledger(R, ordered, n) \in Nat
<1>1. PICK s : s = SubSeq(ordered, 1, n)
  OBVIOUS
<1>2. s \in Seq(entries)
  BY <1>1, BeginningIs
<1>3. DOMAIN s = 1..Len(s) /\ \A m \in 1..Len(s) : s[m] \in entries
  BY <1>2, LenProperties, ElementOfSeq
<1>4. ToSet(s) \subseteq entries
  BY <1>3 DEF ToSet
<1>5. PICK reason : reason = [i \in ToSet(s) |-> "not-selected-candidate"]
  OBVIOUS
<1>6. {} \in SUBSET entries /\ IsFiniteSet(DOMAIN reason)
  <2>1. IsFiniteSet(ToSet(s))
    BY <1>4, FS_Subset DEF Sized
  <2> QED BY <1>5, <2>1
<1>7. PackSize(R, [selected |-> {}, reason |-> reason]) \in Nat
  BY <1>6, PackSizeIs
<1>8. Ledger(R, ordered, n) = PackSize(R, [selected |-> {}, reason |-> reason])
  BY <1>1, <1>5 DEF Ledger, Reserved
<1> QED BY <1>1, <1>2, <1>4, <1>7, <1>8

\* A pack keeps its budgets and its account.
LEMMA PackFits ==
    ASSUME NEW session, session.budget \in Nat, session.results \in Nat, NEW P,
           P.candidates \in Nat, P.items \in Nat, P.include \in Seq(Nat), NEW R, NEW entries,
           Ranked(R, entries), Sized(R, entries), Bytes(session, P) \in Nat \ {0}
    PROVE  PackKeeps(session, P, R, entries, Pack(session, P, R, entries))
<1>1. PICK bytes \in Nat \ {0} : bytes = Bytes(session, P)
  OBVIOUS
<1>2. PICK all \in Seq(entries) : all = Considered(session, P, R, entries)
  BY ConsideredIs
<1>3. PICK ordered \in Seq(entries) : \E f : Packing(session, P, R, entries, ordered, f)
  BY PackRuns
<1>4. PICK f : Packing(session, P, R, entries, ordered, f)
  BY <1>3
<1>5. PICK n \in 0..Len(all) : /\ FittingPrefix(R, all, bytes) = SubSeq(all, 1, n)
                               /\ CutAt(R, all, bytes, n)
  BY PrefixCut
<1>6. ordered = SubSeq(all, 1, n)
  BY <1>1, <1>2, <1>4, <1>5 DEF Packing
<1>7. Len(all) \in Nat /\ Len(ordered) \in Nat /\ DOMAIN ordered = 1..Len(ordered)
  BY LenProperties
<1>8. Ledger(R, all, n) <= bytes
  <2>1. Ledger(R, all, 0) = 1
    BY NoLines
  <2>2. Ledger(R, all, 0) <= bytes
    BY <2>1
  <2> QED BY <1>5, <2>2 DEF CutAt
<1>9. n < Len(all) => Ledger(R, all, n + 1) > bytes
  <2> SUFFICES ASSUME n < Len(all)
               PROVE  Ledger(R, all, n + 1) > bytes
    OBVIOUS
  <2>1. PICK m \in 0..Len(all) : m = n + 1
    BY <1>7
  <2>2. Ledger(R, all, m) \in Nat
    BY LedgerIs
  <2>3. ~ (Ledger(R, all, m) <= bytes)
    BY <1>5, <2>1 DEF CutAt
  <2> QED BY <2>1, <2>2, <2>3
<1> DEFINE items == Items(session, P)
           ids == ToSet(ordered)
           fit(pack) == Fitting(R, P, items, bytes, entries, ids, pack)
           k == Len(ordered)
           Q == {m \in 0..k : fit(f[m])}
<1>10. ids \subseteq entries
  BY <1>6, LedgerIs
<1>11. /\ f[0] = Reserved(ordered)
       /\ \A m \in 1..k : f[m] = PackOne(session, P, R, bytes, f[m - 1], ordered[m])
  BY <1>1, <1>4 DEF Packing, PackRun
<1>12. fit(f[0])
  <2>1. PICK reason : reason = [i \in ids |-> "not-selected-candidate"]
    OBVIOUS
  <2>2. reason \in [ids -> Reasons]
    BY <2>1 DEF Reasons
  <2>3. f[0] = [selected |-> {}, reason |-> reason]
    BY <1>11, <2>1 DEF Reserved
  <2>4. PackSize(R, f[0]) <= bytes
    BY <1>6, <1>8, <1>11 DEF Ledger
  <2>5. Cardinality({}) <= items
    <3>1. items \in Nat
      BY DEF Items
    <3>2. Cardinality({}) = 0
      BY FS_EmptySet
    <3> QED BY <3>1, <3>2
  <2> HIDE DEF ids, items
  <2>6. /\ {} \cup ids = ids /\ {} \cap ids = {} /\ {} \cap P.exclude = {}
        /\ {} \in SUBSET entries /\ ids \in SUBSET entries
    BY <1>10
  <2> QED BY <2>2, <2>3, <2>4, <2>5, <2>6 DEF Fitting
<1>13. ASSUME NEW m \in 1..k, fit(f[m - 1])
       PROVE  fit(f[m])
  <2>1. ordered[m] \in ids
    BY <1>7 DEF ToSet
  <2>2. f[m] = PackOne(session, P, R, bytes, f[m - 1], ordered[m])
    BY <1>11
  <2> HIDE DEF ids
  <2>3. PICK i \in ids : i = ordered[m]
    BY <2>1
  <2>4. PICK pack : pack = f[m - 1]
    OBVIOUS
  <2>5. Fitting(R, P, Items(session, P), bytes, entries, ids, pack)
    BY <1>13, <2>4
  <2>6. bytes \in Nat
    OBVIOUS
  <2>7. Fitting(R, P, Items(session, P), bytes, entries, ids, PackOne(session, P, R, bytes, pack, i))
    BY <2>5, <2>6, PackOneFits
  <2> QED BY <2>2, <2>3, <2>4, <2>7
<1>14. fit(f[k])
  <2> HIDE DEF fit
  <2>1. 0 \in Q
    BY <1>7, <1>12
  <2>2. ASSUME NEW m \in 1..k, m - 1 \in Q
        PROVE  m \in Q
    BY <1>7, <1>13, <2>2
  <2>3. \A m \in 0..k : m \in Q
    <3> HIDE DEF Q, k
    <3> QED BY <1>7, <2>1, <2>2, Upwards DEF k
  <2>4. k \in 0..k
    BY <1>7
  <2> QED BY <2>3, <2>4
<1>15. PICK pack : pack = Pack(session, P, R, entries)
  OBVIOUS
<1>16. pack = f[k]
  BY <1>1, <1>4, <1>15 DEF Packing
<1>17. PICK selected \in SUBSET entries, T \in SUBSET entries : \E reason \in [T -> Reasons] :
        /\ pack = [selected |-> selected, reason |-> reason]
        /\ selected \cup T = ids
        /\ selected \cap T = {}
        /\ selected \cap P.exclude = {}
        /\ Cardinality(selected) <= items
        /\ PackSize(R, pack) <= bytes
  <2> HIDE DEF ids, items, k
  <2> QED BY <1>14, <1>16 DEF Fitting
<1>18. /\ pack.selected = selected /\ DOMAIN pack.reason = T
       /\ selected \cup T = ids
       /\ selected \cap T = {}
       /\ selected \cap P.exclude = {}
       /\ Cardinality(selected) <= items
       /\ PackSize(R, pack) <= bytes
  <2> HIDE DEF ids, items, k
  <2> QED BY <1>17
<1>19. Cardinality(selected) <= session.results
  <2>1. items \in Nat /\ items <= session.results
    BY DEF Items
  <2>2. Cardinality(selected) \in Nat
    BY FS_Subset, FS_CardinalityType DEF Sized
  <2> HIDE DEF items
  <2> QED BY <1>18, <2>1, <2>2
<1>20. pack.selected \cap (DOMAIN pack.reason \cup P.exclude) = {}
  BY <1>18
<1>21. pack.selected \cup DOMAIN pack.reason = ToSet(SubSeq(all, 1, n))
  BY <1>6, <1>18
<1> HIDE DEF ids, items, k
<1> QED BY <1>1, <1>2, <1>8, <1>9, <1>15, <1>18, <1>19, <1>20, <1>21 DEF PackKeeps, Ledger

\* Tables that say the same of the entries, as far as a pack goes.
Twins(R, T, entries) ==
    /\ entries \subseteq DOMAIN R
    /\ entries \subseteq DOMAIN T
    /\ \A i \in entries : T[i].score = R[i].score /\ T[i].size = R[i].size

\* A pack is as large by one as by the other.
LEMMA PackSizeAlike ==
    ASSUME NEW entries, NEW R, Sized(R, entries), NEW T, Twins(R, T, entries), NEW pack,
           pack.selected \in SUBSET entries
    PROVE  PackSize(T, pack) = PackSize(R, pack)
<1>1. PICK f, h, ids : /\ f = [i \in DOMAIN R |-> R[i].size]
                       /\ h = [i \in DOMAIN T |-> T[i].size]
                       /\ ids = pack.selected
  OBVIOUS
<1>2. Counts(f, ids) /\ IsFiniteSet(ids)
  BY <1>1, BodiesAre
<1>3. SameOn(f, h, ids)
  BY <1>1 DEF SameOn, Twins
<1>4. SumFunctionOnSet(f, ids) = SumFunctionOnSet(h, ids)
  BY <1>2, <1>3, SumAgrees
<1>5. PackSize(R, pack) = 1 + SumFunctionOnSet(f, ids) + Lines(pack.reason)
  BY <1>1 DEF PackSize, Lines
<1>6. PackSize(T, pack) = 1 + SumFunctionOnSet(h, ids) + Lines(pack.reason)
  BY <1>1 DEF PackSize, Lines
<1> QED BY <1>4, <1>5, <1>6

\* A pack of one keeps the budgets by the other.
LEMMA KeepsAlike ==
    ASSUME NEW session, session.budget \in Nat, NEW P, P.candidates \in Nat,
           P.include \in Seq(Nat), NEW R, NEW entries, Ranked(R, entries), Sized(R, entries),
           NEW T, Twins(R, T, entries), NEW pack, pack.selected \in SUBSET entries,
           PackKeeps(session, P, R, entries, pack)
    PROVE  PackKeeps(session, P, T, entries, pack)
<1>1. PICK ordered : ordered = Considered(session, P, R, entries)
  OBVIOUS
<1>2. ordered = Considered(session, P, T, entries)
  BY <1>1, ConsideredAlike DEF Twins
<1>3. PackSize(T, pack) = PackSize(R, pack)
  BY PackSizeAlike
<1>4. ASSUME NEW s
      PROVE  PackSize(T, Reserved(s)) = PackSize(R, Reserved(s))
  <2>1. PICK p : p = Reserved(s)
    OBVIOUS
  <2>2. p.selected \in SUBSET entries
    BY <2>1 DEF Reserved
  <2> QED BY <2>1, <2>2, PackSizeAlike
<1> QED BY <1>1, <1>2, <1>3, <1>4 DEF PackKeeps

\* A bounded set of natural numbers has a largest member.
LEMMA MaxOf ==
    ASSUME NEW b \in Nat, NEW T \in SUBSET (0..b), T # {}
    PROVE  Max(T) \in T
<1> DEFINE U == {b - x : x \in T}
<1>1. U \in SUBSET Nat /\ U # {}
  <2>1. \A x \in T : b - x \in Nat
    OBVIOUS
  <2> QED BY <2>1
<1>2. PICK u \in U : \A v \in U : u <= v
  <2> HIDE DEF U
  <2> QED BY <1>1, Smallest
<1>3. PICK x \in T : u = b - x
  OBVIOUS
<1>4. \A y \in T : x >= y
  BY <1>2, <1>3
<1> QED BY <1>4 DEF Max

\* An entry point is as long as fits.
LEMMA EntrypointFits ==
    ASSUME NEW session, session.results \in Nat, session.bytes \in Nat \ {0},
           NEW R, NEW entries, Sized(R, entries)
    PROVE  /\ Entrypoint(session, R, entries) \in SUBSET entries
           /\ PackSize(R, [selected |-> Entrypoint(session, R, entries), reason |-> <<>>])
                <= session.bytes
<1> DEFINE size(n) == PackSize(R, [selected |-> FirstOf(entries, n), reason |-> <<>>])
           prefix == {n \in 0..session.results : size(n) <= session.bytes}
<1>1. FirstOf(entries, 0) = {}
  <2>1. ASSUME NEW i \in entries
        PROVE  ~ (Cardinality({j \in entries : j < i}) < 0)
    <3>1. IsFiniteSet({j \in entries : j < i})
      BY FS_Subset DEF Sized
    <3>2. Cardinality({j \in entries : j < i}) \in Nat
      BY <3>1, FS_CardinalityType
    <3> QED BY <3>2
  <2> QED BY <2>1 DEF FirstOf
<1>2. 0 \in prefix
  <2>1. size(0) = 1
    BY <1>1, NoLines
  <2> HIDE DEF size
  <2> QED BY <2>1
<1>3. prefix \cup {0} = prefix /\ prefix \in SUBSET (0..session.results)
  <2> HIDE DEF size
  <2> QED BY <1>2
<1>4. Max(prefix \cup {0}) \in prefix
  <2> HIDE DEF prefix
  <2> QED BY <1>2, <1>3, MaxOf
<1>5. PICK n \in prefix : n = Max(prefix \cup {0})
  BY <1>4
<1>6. Entrypoint(session, R, entries) = FirstOf(entries, n)
  BY <1>5 DEF Entrypoint
<1>7. size(n) <= session.bytes
  <2> HIDE DEF size
  <2> QED OBVIOUS
<1>8. FirstOf(entries, n) \in SUBSET entries
  BY DEF FirstOf
<1> QED BY <1>6, <1>7, <1>8

(***************************************************************************)
(* Everything an answer gives was held open, and it is as strict as that.  *)
(***************************************************************************)
\* An edge between entries, with a scope.
Edge(e, entries) ==
    /\ e = [from |-> e.from, to |-> e.to, directed |-> e.directed, scope |-> e.scope]
    /\ e.from \in entries
    /\ e.to \in entries
    /\ e.scope \in Scopes

LEMMA NeighboursIs ==
    ASSUME NEW edges, NEW entries, \A e \in edges : Edge(e, entries), NEW i
    PROVE  Neighbours(edges, i) \subseteq entries
BY DEF Neighbours, Edge

LEMMA TurnedIs ==
    ASSUME NEW e, NEW entries, Edge(e, entries), NEW x, x = [e EXCEPT !.from = e.to, !.to = e.from]
    PROVE  Edge(x, entries)
<1>1. e = [from |-> e.from, to |-> e.to, directed |-> e.directed, scope |-> e.scope]
  BY DEF Edge
<1>2. x = [from |-> e.to, to |-> e.from, directed |-> e.directed, scope |-> e.scope]
  BY <1>1
<1> QED BY <1>2 DEF Edge

LEMMA ReversedIs ==
    ASSUME NEW edges, NEW entries, \A e \in edges : Edge(e, entries)
    PROVE  \A x \in {[e EXCEPT !.from = e.to, !.to = e.from] : e \in edges} : Edge(x, entries)
BY TurnedIs

\* Traversal stays among the entries.
LEMMA TraverseIs ==
    ASSUME NEW session, NEW edges, NEW entries, \A e \in edges : Edge(e, entries), NEW start,
           NEW depth \in Nat
    PROVE  Traverse(session, entries, edges, start, depth) \subseteq entries
<1> DEFINE D == [seen : SUBSET entries, frontier : SUBSET entries]
           first == {start} \cap entries
           base == [seen |-> first, frontier |-> first]
           near(before) == UNION {Neighbours(edges, i) : i \in before.frontier}
           new(before) == FirstOf(near(before) \ before.seen,
                                  session.results - Cardinality(before.seen))
           after(before) == [seen |-> before.seen \cup new(before), frontier |-> new(before)]
           step == [before \in D |-> after(before)]
           F == [n \in 1..depth |-> step]
           Is(f) == f = [n \in 0..depth |-> IF n = 0 THEN [seen |-> first, frontier |-> first]
                                            ELSE LET before == f[n - 1] IN after(before)]
           level == CHOOSE f : Is(f)
<1>1. base \in D
  OBVIOUS
<1>2. \A before \in D : after(before) \in D
  <2> SUFFICES ASSUME NEW before \in D
               PROVE  after(before) \in D
    OBVIOUS
  <2>1. near(before) \subseteq entries
    BY NeighboursIs
  <2>2. new(before) \subseteq entries
    BY <2>1 DEF FirstOf
  <2> HIDE DEF new
  <2> QED BY <2>2
<1>3. step \in [D -> D]
  <2> HIDE DEF D, after
  <2> QED BY <1>2
<1>4. F \in [1..depth -> [D -> D]]
  <2> HIDE DEF D, step
  <2> QED BY <1>3
<1>5. PICK f : Run(f, D, depth, base, F)
  <2> HIDE DEF D, F, base
  <2> QED BY <1>1, <1>4, Running
<1>6. f \in [0..depth -> D] /\ f[0] = base
  <2> HIDE DEF D, F, base
  <2> QED BY <1>5 DEF Run
<1>7. \A n \in 1..depth : f[n] = after(f[n - 1])
  <2> SUFFICES ASSUME NEW n \in 1..depth
               PROVE  f[n] = after(f[n - 1])
    OBVIOUS
  <2> HIDE DEF D, after, base
  <2>1. n - 1 \in 0..depth
    OBVIOUS
  <2>2. f[n - 1] \in D /\ f[n] = F[n][f[n - 1]]
    <3> HIDE DEF F
    <3> QED BY <1>5, <1>6, <2>1 DEF Run
  <2> QED BY <2>2
<1>8. Is(f)
  <2> HIDE DEF D, after, first
  <2>1. \A n \in 0..depth : n # 0 => n \in 1..depth
    OBVIOUS
  <2>2. f = [n \in 0..depth |-> f[n]]
    BY <1>6
  <2> QED BY <1>6, <1>7, <2>1, <2>2
<1>9. Is(level)
  <2> HIDE DEF Is
  <2> QED BY <1>8
<1> DEFINE Q == {n \in 0..depth : level[n] \in D}
<1>10. \A n \in 0..depth : n \in Q
  <2> HIDE DEF level, D, after
  <2>1. 0 \in Q
    <3>1. level[0] = base
      BY <1>9
    <3> QED BY <1>1, <3>1
  <2>2. ASSUME NEW n \in 1..depth, n - 1 \in Q
        PROVE  n \in Q
    <3>1. n \in 0..depth /\ n # 0 /\ level[n - 1] \in D
      BY <2>2
    <3>2. level[n] = after(level[n - 1])
      BY <1>9, <3>1
    <3> QED BY <1>2, <3>1, <3>2
  <2> HIDE DEF Q
  <2> QED BY <2>1, <2>2, Upwards
<1>11. Traverse(session, entries, edges, start, depth) = level[depth].seen
  BY DEF Traverse
<1>12. level[depth] \in D
  <2> HIDE DEF level, D
  <2>1. depth \in 0..depth
    OBVIOUS
  <2> QED BY <1>10, <2>1
<1> HIDE DEF level
<1> QED BY <1>11, <1>12

\* What was opened: numbered, scored and scoped.
Fit(view, R, held) ==
    /\ IsFiniteSet(held)
    /\ held \subseteq Nat
    /\ \A i \in held : R[i].score \in Nat /\ view.scopes[i] \in Scopes

LEMMA EntriesIs ==
    ASSUME NEW session, NEW view, NEW R, NEW held, NEW unreviewed
    PROVE  /\ Entries(session, view, R, held, unreviewed) \subseteq held
           /\ \A i \in Entries(session, view, R, held, unreviewed) : Citations(R, i) \subseteq held
BY DEF Entries

\* The scope of an entry is as strict as that of what it cites.
LEMMA EntryScopeIs ==
    ASSUME NEW view, NEW R, NEW held, Fit(view, R, held), NEW i \in held,
           Citations(R, i) \subseteq held
    PROVE  /\ EntryScope(view, R, i) \in Scopes
           /\ \A j \in {i} \cup Citations(R, i) : AtLeast(EntryScope(view, R, i), view.scopes[j])
<1> DEFINE joined == {view.scopes[j] : j \in {i} \cup Citations(R, i)}
<1>1. joined \in SUBSET ScopeFields /\ joined # {}
  <2>1. \A j \in {i} \cup Citations(R, i) : view.scopes[j] \in ScopeFields
    BY DEF Fit, Scopes
  <2> QED BY <2>1
<1>2. \A j \in {i} \cup Citations(R, i) : view.scopes[j] \in joined
  OBVIOUS
<1>3. EntryScope(view, R, i) = Inherit(joined)
  BY DEF EntryScope
<1> HIDE DEF joined
<1>4. Inherit(joined) \in Scopes
  BY <1>1, InheritIs
<1>5. \A j \in {i} \cup Citations(R, i) : AtLeast(Inherit(joined), view.scopes[j])
  BY <1>1, <1>2, InheritBounds
<1> QED BY <1>3, <1>4, <1>5

LEMMA EdgesAre ==
    ASSUME NEW session, NEW view, NEW R, NEW held, Fit(view, R, held),
           NEW entries \in SUBSET held, \A i \in entries : Citations(R, i) \subseteq held
    PROVE  \A e \in Edges(session, view, R, held, entries) : Edge(e, entries)
<1> DEFINE synapses == {i \in held : /\ R[i].kind = "synapse"
                                     /\ Allowed(session, R[i], TRUE)
                                     /\ Current(R[i], FALSE)
                                     /\ {R[i].ends[1], R[i].ends[2]} \subseteq entries}
           edge(a, b, directed, scopes) ==
               [from |-> a, to |-> b, directed |-> directed, scope |-> Inherit(scopes)]
<1>1. \A i \in entries : EntryScope(view, R, i) \in Scopes
  BY EntryScopeIs
<1>2. ASSUME NEW i \in synapses
      PROVE  Edge(edge(R[i].ends[1], R[i].ends[2], R[i].directed,
                       {view.scopes[i], EntryScope(view, R, R[i].ends[1]),
                        EntryScope(view, R, R[i].ends[2])}), entries)
  <2> DEFINE three == {view.scopes[i], EntryScope(view, R, R[i].ends[1]),
                       EntryScope(view, R, R[i].ends[2])}
  <2>1. three \in SUBSET ScopeFields /\ three # {}
    BY <1>1 DEF Fit, Scopes
  <2> HIDE DEF three
  <2>2. Inherit(three) \in Scopes
    BY <2>1, InheritIs
  <2>3. R[i].ends[1] \in entries /\ R[i].ends[2] \in entries
    OBVIOUS
  <2>4. Edge(edge(R[i].ends[1], R[i].ends[2], R[i].directed, three), entries)
    BY <2>2, <2>3 DEF Edge
  <2> QED BY <2>4 DEF three
<1>3. ASSUME NEW i \in entries, NEW j \in R[i].links \cap entries
      PROVE  Edge(edge(i, j, TRUE, {EntryScope(view, R, i), EntryScope(view, R, j)}), entries)
  <2> DEFINE two == {EntryScope(view, R, i), EntryScope(view, R, j)}
  <2>1. two \in SUBSET ScopeFields /\ two # {}
    BY <1>1 DEF Scopes
  <2> HIDE DEF two
  <2>2. Inherit(two) \in Scopes
    BY <2>1, InheritIs
  <2>3. Edge(edge(i, j, TRUE, two), entries)
    BY <2>2 DEF Edge
  <2> QED BY <2>3 DEF two
<1>4. \A e \in EdgesOf(view, R, synapses, entries) : Edge(e, entries)
  <2> SUFFICES ASSUME NEW e \in EdgesOf(view, R, synapses, entries)
               PROVE  Edge(e, entries)
    OBVIOUS
  <2> HIDE DEF synapses
  <2>1. CASE \E i \in synapses :
                e = edge(R[i].ends[1], R[i].ends[2], R[i].directed,
                         {view.scopes[i], EntryScope(view, R, R[i].ends[1]),
                          EntryScope(view, R, R[i].ends[2])})
    BY <1>2, <2>1
  <2>2. CASE \E i \in entries : \E j \in R[i].links \cap entries :
                e = edge(i, j, TRUE, {EntryScope(view, R, i), EntryScope(view, R, j)})
    BY <1>3, <2>2
  <2> QED BY <2>1, <2>2 DEF EdgesOf
<1>5. Edges(session, view, R, held, entries)
        = {e \in EdgesOf(view, R, synapses, entries) : e.scope.visibility \in session.allowed}
  BY DEF Edges
<1> QED BY <1>4, <1>5

\* A session whose budgets and scopes are valid.
Bounded(session) ==
    /\ session.request \in Scopes
    /\ session.publication \in Level
    /\ session.execution \in Level
    /\ {session.budget, session.depth, session.profile.candidates} \subseteq Nat
    /\ session.profile.include \in Seq(Nat)

LEMMA OutputIs ==
    ASSUME NEW session, Bounded(session), NEW contributing \in SUBSET ScopeFields
    PROVE  /\ OutputScope(session, contributing) \in Scopes
           /\ \A s \in contributing \cup {session.request} :
                 AtLeast(OutputScope(session, contributing), s)
<1> DEFINE authority == [session.request EXCEPT !.publication = session.publication,
                                                !.execution = session.execution]
           joined == {session.request, authority} \cup contributing
<1>1. authority \in ScopeFields /\ session.request \in ScopeFields
  <2>1. session.request \in ScopeFields
    BY DEF Bounded, Scopes
  <2> QED BY <2>1 DEF Bounded, ScopeFields
<1>2. joined \in SUBSET ScopeFields /\ joined # {}
  <2> HIDE DEF authority
  <2> QED BY <1>1
<1>3. OutputScope(session, contributing) = Inherit(joined)
  BY DEF OutputScope
<1>4. contributing \cup {session.request} \subseteq joined
  OBVIOUS
<1> HIDE DEF joined
<1>5. Inherit(joined) \in Scopes
  BY <1>2, InheritIs
<1>6. \A s \in joined : AtLeast(Inherit(joined), s)
  BY <1>2, InheritBounds
<1> QED BY <1>3, <1>4, <1>5, <1>6

\* What is given is held, and the answer's scope is as strict as that of all of it.
Sane(a, view, held) ==
    /\ a.held = held
    /\ a.cited \subseteq held
    /\ \A op \in Operation : a.ids[op] \subseteq held
    /\ \A i \in a.cited \cup UNION {a.ids[op] : op \in Operation} :
          AtLeast(a.scope, view.scopes[i])

LEMMA AnswerIs ==
    ASSUME NEW session, Bounded(session), NEW view, NEW R, NEW held, Fit(view, R, held)
    PROVE  Sane(AnswerWith(session, view, R, held, Entries(session, view, R, held, FALSE)),
                view, held)
<1> DEFINE entries == Entries(session, view, R, held, FALSE)
           wider == Entries(session, view, R, held, TRUE)
           both == entries \cup wider
           edges == Edges(session, view, R, held, entries)
           reversed == {[e EXCEPT !.from = e.to, !.to = e.from] : e \in edges}
           scopes == {EntryScope(view, R, i) : i \in both} \cup {e.scope : e \in edges}
           answer == AnswerOf(session, view, R, held, entries, wider, edges)
           scope == OutputScope(session, scopes)
<1>1. /\ both \subseteq held
      /\ \A i \in both : Citations(R, i) \subseteq held
  BY EntriesIs
<1>2. entries \subseteq both /\ wider \subseteq both
  OBVIOUS
<1> HIDE DEF entries, wider
<1>3. \A e \in edges : Edge(e, entries)
  BY <1>1, EdgesAre
<1> HIDE DEF edges
<1>4. \A e \in reversed : Edge(e, entries)
  BY <1>3, ReversedIs
<1> HIDE DEF reversed
<1>5. \A op \in Operation : answer.ids[op] \subseteq both
  <2> DEFINE best == IF session.limit < session.results THEN session.limit ELSE session.results
  <2> SUFFICES ASSUME NEW op \in Operation
               PROVE  answer.ids[op] \subseteq both
    OBVIOUS
  <2>1. CASE op = "index"
    BY <2>1 DEF AnswerOf
  <2>2. CASE op = "search"
    <3>1. answer.ids[op] = FirstRanked(R, entries, best)
      BY <2>2 DEF AnswerOf
    <3> QED BY <3>1 DEF FirstRanked, Scored
  <2>3. CASE op = "unreviewed"
    <3>1. answer.ids[op] = FirstRanked(R, wider, best)
      BY <2>3 DEF AnswerOf
    <3> QED BY <3>1 DEF FirstRanked, Scored
  <2>4. CASE op = "graph"
    <3>1. answer.ids[op] = Traverse(session, entries, edges, session.start, session.depth)
      BY <2>4 DEF AnswerOf
    <3>2. session.depth \in Nat
      BY DEF Bounded
    <3> HIDE DEF answer
    <3>3. answer.ids[op] \subseteq entries
      BY <1>3, <3>1, <3>2, TraverseIs
    <3> QED BY <1>2, <3>3
  <2>5. CASE op = "backlinks"
    <3>1. answer.ids[op] = FirstOf(Neighbours(reversed, session.start), session.results)
      BY <2>5 DEF AnswerOf, reversed
    <3> HIDE DEF answer
    <3>2. Neighbours(reversed, session.start) \subseteq entries
      BY <1>4, NeighboursIs
    <3> QED BY <1>2, <3>1, <3>2 DEF FirstOf
  <2>6. CASE op = "outbound"
    <3>1. answer.ids[op] = FirstOf(Neighbours(edges, session.start), session.results)
      BY <2>6 DEF AnswerOf
    <3> HIDE DEF answer
    <3>2. Neighbours(edges, session.start) \subseteq entries
      BY <1>3, NeighboursIs
    <3> QED BY <1>2, <3>1, <3>2 DEF FirstOf
  <2>7. CASE op = "context"
    <3>1. answer.ids[op] = Pack(session, session.profile, R, entries).selected
      BY <2>7 DEF AnswerOf
    <3> HIDE DEF answer
    <3>2. entries \subseteq held
      BY <1>1, <1>2
    <3>3. Ranked(R, entries)
      <4>1. IsFiniteSet(entries)
        BY <3>2, FS_Subset DEF Fit
      <4> QED BY <3>2, <4>1 DEF Ranked, Fit
    <3>4. /\ session.budget \in Nat
          /\ session.profile.candidates \in Nat
          /\ session.profile.include \in Seq(Nat)
      BY DEF Bounded
    <3>5. Pack(session, session.profile, R, entries).selected \subseteq entries
      BY <3>3, <3>4, PackIs
    <3> QED BY <1>2, <3>1, <3>5
  <2>8. CASE op = "llms"
    <3>1. answer.ids[op] = Entrypoint(session, R, entries)
      BY <2>8 DEF AnswerOf
    <3> QED BY <3>1 DEF Entrypoint, FirstOf
  <2>9. CASE op = "evidence"
    <3>1. answer.ids[op] = Citing(R, entries, session.source)
      BY <2>9 DEF AnswerOf
    <3> QED BY <3>1 DEF Citing
  <2> HIDE DEF answer, both
  <2> QED BY <2>1, <2>2, <2>3, <2>4, <2>5, <2>6, <2>7, <2>8, <2>9, ProjectionsAreKnown
<1>6. answer.cited = UNION {Citations(R, i) : i \in UNION {answer.ids[op] : op \in Operation}}
  BY DEF AnswerOf
<1>7. answer.held = held /\ answer.scope = scope
  BY DEF AnswerOf
<1> HIDE DEF answer
<1>8. \A i \in both : /\ EntryScope(view, R, i) \in Scopes
                      /\ \A j \in {i} \cup Citations(R, i) :
                            AtLeast(EntryScope(view, R, i), view.scopes[j])
  BY <1>1, EntryScopeIs
<1> HIDE DEF both
<1>9. scopes \in SUBSET ScopeFields
  BY <1>3, <1>8 DEF Edge, Scopes
<1>10. \A i \in both : EntryScope(view, R, i) \in scopes
  OBVIOUS
<1> HIDE DEF scopes
<1>11. scope \in Scopes /\ \A i \in both : AtLeast(scope, EntryScope(view, R, i))
  BY <1>9, <1>10, OutputIs
<1> HIDE DEF scope
<1>12. ASSUME NEW i \in both, NEW j \in {i} \cup Citations(R, i)
       PROVE  AtLeast(scope, view.scopes[j])
  <2>1. j \in held
    BY <1>1, <1>12
  <2>2. /\ scope \in ScopeFields
        /\ EntryScope(view, R, i) \in ScopeFields
        /\ view.scopes[j] \in ScopeFields
    BY <1>8, <1>11, <2>1 DEF Fit, Scopes
  <2>3. AtLeast(scope, EntryScope(view, R, i)) /\ AtLeast(EntryScope(view, R, i), view.scopes[j])
    BY <1>8, <1>11
  <2> QED BY <2>2, <2>3, AtLeastTransitive
<1>13. \A i \in answer.cited \cup UNION {answer.ids[op] : op \in Operation} :
          AtLeast(scope, view.scopes[i])
  BY <1>5, <1>6, <1>12
<1>14. answer.cited \subseteq held
  BY <1>1, <1>5, <1>6
<1>15. \A op \in Operation : answer.ids[op] \subseteq held
  BY <1>1, <1>5
<1>16. Sane(answer, view, held)
  BY <1>7, <1>13, <1>14, <1>15 DEF Sane
<1>17. AnswerWith(session, view, R, held, Entries(session, view, R, held, FALSE)) = answer
  BY DEF AnswerWith, answer, edges, wider, entries
<1> QED BY <1>16, <1>17

\* The records that answers are made of: those of the pinned view.
Known == Restrict(TableOf(query.seen), query.view.ids)

HeldNow == Held(query.view, TableOf(query.seen), TableOf(query.opened))

LEMMA HeldFits ==
    ASSUME TypeOK, Fixed, Viewed, query.pc = "rechecking"
    PROVE  /\ HeldNow \subseteq query.view.ids
           /\ query.view.ids \subseteq DOMAIN TableOf(query.seen)
           /\ Fit(query.view, Known, HeldNow)
           /\ AnswerNow = AnswerWith(S, query.view, Known, HeldNow,
                                     Entries(S, query.view, Known, HeldNow, FALSE))
<1> DEFINE view == View(S, TableOf(query.seen))
           known == Restrict(TableOf(query.seen), view.ids)
           held == Held(view, TableOf(query.seen), TableOf(query.opened))
           entries == Entries(S, view, known, held, FALSE)
<1>1. /\ Stored
      /\ query.seen \in [Garden -> Tree]
      /\ query.view = view
      /\ ~ view.broken
      /\ view.revision = View(S, TableOf(Original)).revision
      /\ ~ View(S, TableOf(Original)).broken
  BY DEF Fixed, TypeOK, Viewed
<1>2. AnswerNow = AnswerWith(S, view, known, held, entries)
  BY <1>1 DEF AnswerNow, Answer
<1>3. held \subseteq view.ids
  BY DEF Held
<1>4. view.ids \subseteq DOMAIN TableOf(query.seen)
  <2>1. \A trees \in [Garden -> Tree] : ~ View(S, TableOf(trees)).broken =>
           View(S, TableOf(trees)).ids \subseteq DOMAIN TableOf(trees)
    <3> SUFFICES ASSUME NEW trees \in [Garden -> Tree], ~ View(S, TableOf(trees)).broken
                 PROVE  View(S, TableOf(trees)).ids \subseteq DOMAIN TableOf(trees)
      OBVIOUS
    <3>1. View(S, TableOf(trees)).ids \subseteq DOMAIN Admitted(S, TableOf(trees))
      BY <1>1, ViewIs
    <3> QED BY <1>1, <3>1, AdmittedIs
  <2> QED BY <1>1, <2>1
<1>5. Fit(view, known, held)
  <2>1. IsFiniteSet(DOMAIN TableOf(query.seen))
    BY <1>1, TableIs
  <2>2. IsFiniteSet(held)
    <3> HIDE DEF held, view
    <3>1. held \subseteq DOMAIN TableOf(query.seen)
      BY <1>3, <1>4
    <3> QED BY <2>1, <3>1, FS_Subset
  <2>3. ASSUME NEW i \in held
        PROVE  i \in Nat /\ known[i].score \in Nat /\ view.scopes[i] \in Scopes
    <3> HIDE DEF held
    <3>1. i \in view.ids /\ i \in DOMAIN TableOf(query.seen)
      BY <1>3, <1>4, <2>3
    <3>2. PICK g \in Garden : i \in DOMAIN store[g][query.seen[g]]
      BY <1>1, <3>1, TableIs
    <3>3. i \in Nat /\ TableOf(query.seen)[i].score \in Nat
      BY <1>1, <3>2, TableIs
    <3>4. known[i] = TableOf(query.seen)[i]
      <4> HIDE DEF view
      <4> QED BY <3>1 DEF Restrict
    <3>5. view.scopes[i] \in Scopes
      BY <1>1, <3>1, ViewDominates
    <3> QED BY <3>3, <3>4, <3>5
  <2> HIDE DEF held, view, known
  <2> QED BY <2>2, <2>3 DEF Fit
<1>6. known = Known /\ held = HeldNow
  BY <1>1 DEF Known, HeldNow
<1> HIDE DEF known, held, view
<1> QED BY <1>1, <1>2, <1>3, <1>4, <1>5, <1>6

LEMMA AnswerNowIs ==
    ASSUME TypeOK, Fixed, Viewed, query.pc = "rechecking"
    PROVE  /\ Sane(AnswerNow, query.view, AnswerNow.held)
           /\ AnswerNow.held \subseteq due.shown
<1> DEFINE view == View(S, TableOf(query.seen))
<1>1. /\ Stored
      /\ query.seen \in [Garden -> Tree]
      /\ query.view = view
      /\ ~ view.broken
      /\ view.revision = View(S, TableOf(Original)).revision
      /\ ~ View(S, TableOf(Original)).broken
  BY DEF Fixed, TypeOK, Viewed
<1>2. Bounded(S)
  BY <1>1 DEF Stored, Bounded
<1>3. Sane(AnswerNow, query.view, HeldNow)
  BY <1>2, HeldFits, AnswerIs
<1>4. AnswerNow.held = HeldNow
  BY <1>3 DEF Sane
<1>5. view.ids \subseteq due.shown
  <2>1. Original \in [Garden -> Tree]
    BY UnreadType
  <2>2. Agree(query.seen, Original)
    BY <1>1, <2>1, SameViews
  <2>3. view = View(S, TableOf(Original))
    BY <2>2 DEF Agree
  <2>4. \A i \in View(S, TableOf(Original)).ids :
           /\ i \in DOMAIN Admitted(S, TableOf(Original))
           /\ MayBeShown(S, Admitted(S, TableOf(Original)), i)
    BY <1>1, <2>1, ViewShown
  <2> HIDE DEF view
  <2> QED BY <2>3, <2>4 DEF Fixed
<1>6. HeldNow \subseteq query.view.ids
  BY HeldFits
<1> HIDE DEF view
<1> QED BY <1>1, <1>3, <1>4, <1>5, <1>6

\* An answer gives what it held, and held what the session may see.
Given ==
    query.pc \in Done =>
        /\ Sane(query.answer, query.view, query.answer.held)
        /\ query.answer.held \subseteq due.shown

\* A projection is written where its restrictions are carried.
Homed == query.pc = "written" => Carried

\* The answer, once made, is not touched.
LEMMA AnswerStays ==
    ASSUME TypeOK, Fixed, [Next]_vars, query'.pc \in Done
    PROVE  \/ /\ query.pc \in Done
              /\ query'.answer = query.answer
              /\ query'.view = query.view
           \/ /\ query.pc = "rechecking"
              /\ query'.pc \in {"answered", "writing"}
              /\ AsPinned
              /\ query'.answer = AnswerNow
              /\ query'.view = query.view
              /\ undone' = undone
<1>1. CASE QueryStep
  <2>1. ~ Refused
    BY DEF Refused, Becomes, Done
  <2>2. ~ (Open \/ ReadMetadata \/ CheckPins \/ ReadBodies \/ CheckLive \/ ReadAgain)
    <3>1. Open \/ ReadMetadata \/ CheckPins \/ ReadBodies \/ CheckLive \/ ReadAgain =>
             query'.pc \in {"viewing", "opening", "checking", "rechecking"}
      BY <2>1, OpenIs, ReadMetadataIs, CheckPinsIs, ReadBodiesIs, CheckLiveIs, ReadAgainIs
         DEF Becomes
    <3> QED BY <3>1 DEF Done
  <2>3. CASE Conclude
    <3>1. undone' = undone
      BY <2>3 DEF Conclude
    <3> QED BY <2>1, <2>3, <3>1, ConcludeIs DEF Becomes, Done
  <2>4. CASE WriteProjection
    BY <2>1, <2>4, WriteProjectionIs DEF Becomes, Done
  <2> QED BY <1>1, <2>2, <2>3, <2>4 DEF QueryStep
<1>2. CASE WriterStep \/ Withdraw \/ UNCHANGED vars
  <2>1. query' = query
    BY <1>2, OthersLeaveQuery
  <2> QED BY <2>1
<1> QED BY <1>1, <1>2 DEF Next

LEMMA GivenStays == TypeOK /\ Fixed /\ Viewed /\ Given /\ [Next]_vars => Given'
<1> SUFFICES ASSUME TypeOK, Fixed, Viewed, Given, [Next]_vars, query'.pc \in Done
             PROVE  /\ Sane(query'.answer, query'.view, query'.answer.held)
                    /\ query'.answer.held \subseteq due'.shown
  BY DEF Given
<1>1. due' = due
  BY FixedStays DEF fixed
<1>2. CASE query.pc \in Done /\ query'.answer = query.answer /\ query'.view = query.view
  BY <1>1, <1>2 DEF Given
<1>3. CASE query.pc = "rechecking" /\ query'.answer = AnswerNow /\ query'.view = query.view
  BY <1>1, <1>3, AnswerNowIs
<1> QED BY <1>2, <1>3, AnswerStays

LEMMA HomedStays == TypeOK /\ Fixed /\ Homed /\ [Next]_vars => Homed'
<1> SUFFICES ASSUME TypeOK, Fixed, Homed, [Next]_vars, query'.pc = "written"
             PROVE  Carried'
  BY DEF Homed
<1>1. S' = S /\ Reading' = Reading
  BY FixedStays, ReadingStays DEF fixed
<1>2. query'.view = query.view => Carried' = Carried
  BY <1>1 DEF Carried
<1>3. CASE QueryStep
  <2>1. CASE WriteProjection
    BY <1>2, <2>1, WriteProjectionIs DEF Refused, Becomes
  <2>2. CASE ~ WriteProjection
    <3>1. query'.pc \in {"refused", "viewing", "opening", "checking", "rechecking", "answered",
                         "writing"}
      BY <1>3, <2>2, OpenIs, ReadMetadataIs, CheckPinsIs, ReadBodiesIs, CheckLiveIs, ReadAgainIs,
         ConcludeIs DEF QueryStep, Refused, Becomes
    <3> QED BY <3>1
  <2> QED BY <2>1, <2>2
<1>4. CASE WriterStep \/ Withdraw \/ UNCHANGED vars
  <2>1. query' = query
    BY <1>4, OthersLeaveQuery
  <2> QED BY <1>2, <2>1 DEF Homed
<1> QED BY <1>3, <1>4 DEF Next

LEMMA CompleteStays ==
    TypeOK /\ Fixed /\ Opened /\ Viewed /\ Forward /\ Complete /\ [Next]_vars => Complete'
<1> SUFFICES ASSUME TypeOK, Fixed, Opened, Viewed, Forward, Complete, [Next]_vars,
                    query'.pc \in Done, ~ undone', ~ Relinks'
             PROVE  query'.answer = due'.answer
  BY DEF Complete
<1>1. store' = store /\ S' = S /\ pinned' = pinned /\ due' = due
  BY FixedStays DEF fixed
<1>2. ~ Relinks
  <2>1. Relinks' = Relinks
    BY <1>1, ReadingStays DEF Relinks
  <2> QED BY <2>1
<1>3. ~ undone
  <2>1. undone => undone'
    BY DEF Next, QueryStep, Open, ReadMetadata, CheckPins, ReadBodies, CheckLive, ReadAgain,
           Conclude, WriteProjection, WriterStep, BeginWrite, LockGarden, SelectTree, FailWrite,
           UndoTree, UnlockGarden, Withdraw, vars
  <2> QED BY <2>1
<1>4. CASE query.pc \in Done /\ query'.answer = query.answer
  BY <1>1, <1>2, <1>3, <1>4 DEF Complete
<1>5. CASE query.pc = "rechecking" /\ AsPinned /\ query'.answer = AnswerNow
  BY <1>1, <1>2, <1>3, <1>5, WholeAnswer
<1> QED BY <1>4, <1>5, AnswerStays

QueryInvariant ==
    /\ TypeOK
    /\ Fixed
    /\ Opened
    /\ Viewed
    /\ Forward
    /\ Stopped
    /\ Complete
    /\ Given
    /\ Homed

LEMMA InvariantInit == Init => QueryInvariant
<1> SUFFICES ASSUME Init
             PROVE  QueryInvariant
  OBVIOUS
<1>1. /\ query = [pc |-> "idle", garden |-> 0, seen |-> Unread, opened |-> Unread,
                  again |-> Unread, checks |-> 0, view |-> <<>>, answer |-> <<>>]
      /\ tree = Original
      /\ writer = [pc |-> "idle", targets |-> {}, committed |-> FALSE]
      /\ withdrawn = FALSE
      /\ warned = FALSE
      /\ undone = FALSE
  BY DEF Init, NoQuery
<1>2. Gardens \in Nat /\ Checks \in Nat
  BY SomeGardens, SomeChecks
<1>3. TypeOK
  <2>1. query.pc = "idle" /\ query.pc \in Stages
    BY <1>1 DEF Stages
  <2>2. Query(query)
    BY <1>1 DEF Query
  <2>3. query.garden \in 0..(Gardens + 1) /\ query.checks \in 0..Checks
    BY <1>1, <1>2
  <2>4. /\ query.seen \in [Garden -> Tree]
        /\ query.opened \in [Garden -> Tree]
        /\ query.again \in [Garden -> Tree]
        /\ tree \in [Garden -> Tree]
    BY <1>1, UnreadType
  <2>5. writer \in [pc : WriterStages, targets : SUBSET Garden, committed : BOOLEAN]
    BY <1>1 DEF WriterStages
  <2> QED BY <1>1, <2>1, <2>2, <2>3, <2>4, <2>5 DEF TypeOK
<1>4. query.pc = "idle" /\ query.opened = Unread /\ query.again = Unread
  BY <1>1
<1>5. Opened
  BY <1>4 DEF Opened
<1>6. Viewed /\ Complete /\ Given /\ Homed
  BY <1>4 DEF Viewed, Complete, Given, Homed, Done
<1>7. Forward
  BY <1>4 DEF Forward, Unread
<1>8. Stopped
  BY <1>1 DEF Stopped
<1> QED BY <1>3, <1>5, <1>6, <1>7, <1>8, FixedInit DEF QueryInvariant

LEMMA InvariantStays == QueryInvariant /\ [Next]_vars => QueryInvariant'
BY TypeStays, FixedStays, OpenedStays, ViewedStays, ForwardStays, StoppedStays, CompleteStays,
   GivenStays, HomedStays DEF QueryInvariant

LEMMA InvariantAlways == Spec => []QueryInvariant
BY InvariantInit, InvariantStays, PTL DEF Spec

\* What a carried projection is written to demands what each record of the view does.
LEMMA CarriedIs ==
    ASSUME TypeOK, Fixed, Viewed, query.pc \in Done, Carried, NEW i \in query.view.ids
    PROVE  LET home == S.scopes[S.writable]
               declared == DeclaredScope(S, TableOf(query.seen)[i])
           IN  /\ home.persistence >= declared.persistence
               /\ home.execution >= declared.execution
               /\ home.visibility = "public" => declared.visibility = "public"
<1> DEFINE view == View(S, TableOf(query.seen))
           home == S.scopes[S.writable]
           declared == DeclaredScope(S, TableOf(query.seen)[i])
           contributing == {S.scopes[g] : g \in Reading} \cup {view.scopes[j] : j \in view.ids}
           output == OutputScope(S, contributing)
           inner == Inherit({output})
           joined == Inherit({inner, home})
<1>1. Stored /\ query.seen \in [Garden -> Tree] /\ query.view = view /\ ~ view.broken
  BY DEF Fixed, TypeOK, Viewed
<1>2. /\ \A j \in view.ids : view.scopes[j] \in Scopes
      /\ declared \in Scopes
      /\ AtLeast(view.scopes[i], declared)
  <2> HIDE DEF declared
  <2>1. \A j \in view.ids : view.scopes[j] \in Scopes
    BY <1>1, ViewDominates
  <2>2. /\ i \in Ancestry(TableOf(query.seen), i)
        /\ \A j \in Ancestry(TableOf(query.seen), i) :
              /\ DeclaredScope(S, TableOf(query.seen)[j]) \in Scopes
              /\ AtLeast(view.scopes[i], DeclaredScope(S, TableOf(query.seen)[j]))
    BY <1>1, ViewDominates
  <2> QED BY <2>1, <2>2 DEF declared
<1>3. S.writable \in Reading /\ Decide("write", {output}, home, FALSE) = "allow"
  BY <1>1 DEF Carried
<1>4. Reading \subseteq Garden /\ home \in Scopes /\ \A g \in Reading : S.scopes[g] \in Scopes
  BY <1>1, <1>3, ReadingIs DEF Stored
<1>5. contributing \in SUBSET ScopeFields /\ view.scopes[i] \in contributing
  <2> HIDE DEF view
  <2> QED BY <1>1, <1>2, <1>4 DEF Scopes
<1>6. Bounded(S)
  BY <1>1 DEF Stored, Bounded
<1> HIDE DEF view, declared, contributing, home
<1>7. output \in Scopes /\ AtLeast(output, view.scopes[i])
  BY <1>5, <1>6, OutputIs
<1> HIDE DEF output
<1>8. inner \in Scopes /\ AtLeast(inner, output)
  <2>1. {output} \in SUBSET ScopeFields /\ output \in {output} /\ {output} # {}
    BY <1>7 DEF Scopes
  <2> QED BY <2>1, InheritIs, InheritBounds
<1> HIDE DEF inner
<1>9. joined \in Scopes /\ AtLeast(joined, inner)
  <2>1. {inner, home} \in SUBSET ScopeFields /\ inner \in {inner, home} /\ {inner, home} # {}
    BY <1>4, <1>8 DEF Scopes
  <2> QED BY <2>1, InheritIs, InheritBounds
<1>10. /\ joined.visibility = home.visibility
       /\ joined.persistence = home.persistence
       /\ joined.execution = home.execution
  BY <1>3 DEF Decide, inner
<1> HIDE DEF joined
<1>11. AtLeast(joined, declared)
  <2>1. /\ joined \in ScopeFields /\ inner \in ScopeFields /\ output \in ScopeFields
        /\ view.scopes[i] \in ScopeFields /\ declared \in ScopeFields
    BY <1>1, <1>2, <1>7, <1>8, <1>9 DEF Scopes
  <2>2. AtLeast(joined, output)
    BY <1>8, <1>9, <2>1, AtLeastTransitive
  <2>3. AtLeast(joined, view.scopes[i])
    BY <1>7, <2>1, <2>2, AtLeastTransitive
  <2> QED BY <1>2, <2>1, <2>3, AtLeastTransitive
<1>12. /\ home.persistence >= declared.persistence
       /\ home.execution >= declared.execution
       /\ home.visibility = "public" => declared.visibility = "public"
  <2>1. joined \in ScopeFields /\ declared \in ScopeFields
    BY <1>2, <1>9 DEF Scopes
  <2> QED BY <1>10, <1>11, <2>1 DEF AtLeast, ScopeFields, Level, Visibility
<1> QED BY <1>12 DEF home, declared

\* No answer is given whose authority was withdrawn before the query asked for the last
\* time (query.py: check_live after serialization).
THEOREM NoStaleAnswer == Spec => []AnswersStand
<1>1. QueryInvariant => AnswersStand
  BY DEF QueryInvariant, Stopped, AnswersStand, Answered, Done
<1> QED BY <1>1, InvariantAlways, PTL

\* An answer is the whole answer of the revisions it names, unless a tree was rolled back
\* or hidden links were rewritten meanwhile (query.py: snapshots).
THEOREM WholeAnswers == Spec => []AnswersAreComplete
<1>1. QueryInvariant => AnswersAreComplete
  BY DEF QueryInvariant, Complete, AnswersAreComplete, Answered, Done
<1> QED BY <1>1, InvariantAlways, PTL

\* Nothing is answered, cited or held open that the session may not see with everything
\* it leads to, whatever is written meanwhile (query_view.py, retrieval.py: build_index).
THEOREM AuthorizedAnswers == Spec => []AnswersAreAuthorized
<1>1. QueryInvariant => AnswersAreAuthorized
  <2> SUFFICES ASSUME QueryInvariant, Answered
               PROVE  /\ query.answer.held \subseteq due.shown
                      /\ query.answer.cited \subseteq query.answer.held
                      /\ \A op \in Operation : query.answer.ids[op] \subseteq query.answer.held
    BY DEF AnswersAreAuthorized
  <2> QED BY DEF QueryInvariant, Given, Sane, Answered, Done
<1> QED BY <1>1, InvariantAlways, PTL

\* The scope of a view's record, of an answer and of the cache it is written to are at least
\* as strict as the scopes of all that took part (scope.py: inherit_scope; scope_policy.py;
\* retrieval.py: write_projection).
THEOREM DominatingScopes == Spec => []ScopesDominate
<1>1. QueryInvariant => ScopesDominate
  <2> SUFFICES ASSUME QueryInvariant
               PROVE  ScopesDominate
    OBVIOUS
  <2>1. TypeOK /\ Fixed /\ Viewed /\ Given /\ Homed /\ Stored /\ tree \in [Garden -> Tree]
    BY DEF QueryInvariant, Fixed, TypeOK
  <2>2. \A i \in View(S, TableOf(tree)).ids : \A j \in Ancestry(TableOf(tree), i) :
           AtLeast(View(S, TableOf(tree)).scopes[i], DeclaredScope(S, TableOf(tree)[j]))
    <3>1. CASE View(S, TableOf(tree)).broken
      <4>1. View(S, TableOf(tree)).ids = {}
        BY <3>1 DEF View, AdmittedView, ViewOf
      <4> QED BY <4>1
    <3>2. CASE ~ View(S, TableOf(tree)).broken
      BY <2>1, <3>2, ViewDominates
    <3> QED BY <3>1, <3>2
  <2>3. ASSUME Answered,
               NEW i \in query.answer.cited \cup UNION {query.answer.ids[op] : op \in Operation}
        PROVE  AtLeast(query.answer.scope, query.view.scopes[i])
    BY <2>1, <2>3 DEF Given, Sane, Answered, Done
  <2>4. ASSUME query.pc = "written", NEW i \in query.view.ids
        PROVE  LET home == S.scopes[S.writable]
                   declared == DeclaredScope(S, TableOf(query.seen)[i])
               IN  /\ home.persistence >= declared.persistence
                   /\ home.execution >= declared.execution
                   /\ home.visibility = "public" => declared.visibility = "public"
    BY <2>1, <2>4, CarriedIs DEF Homed, Done
  <2> QED BY <2>2, <2>3, <2>4 DEF ScopesDominate
<1> QED BY <1>1, InvariantAlways, PTL

(***************************************************************************)
(* What is authorized, and that nothing else leaves a trace.               *)
(***************************************************************************)
\* What stands is the largest closed part.
LEMMA StandingLargest ==
    ASSUME NEW A, NEW ids, IsFiniteSet(ids), NEW T, T \subseteq ids, Closed(A, T)
    PROVE  T \subseteq Standing(A, ids)
<1> DEFINE k == Cardinality(ids)
<1>1. k \in Nat
  BY FS_CardinalityType
<1>2. PICK left : Standing(A, ids) = left[k] /\ Shrinks(left, k, A, ids)
  BY StandingIs
<1> HIDE DEF k
<1> DEFINE P == {n \in 0..k : T \subseteq left[n]}
<1>3. 0 \in P
  BY <1>1, <1>2 DEF Shrinks
<1>4. ASSUME NEW n \in 1..k, n - 1 \in P
      PROVE  n \in P
  <2>1. n \in 0..k
    BY <1>1
  <2>2. left[n] = {i \in left[n - 1] : Dependencies(A[i]) \subseteq left[n - 1]}
    BY <1>2 DEF Shrinks
  <2>3. T \subseteq left[n - 1]
    BY <1>4
  <2>4. T \subseteq left[n]
    BY <2>2, <2>3 DEF Closed
  <2> QED BY <2>1, <2>4
<1>5. \A n \in 0..k : n \in P
  <2> HIDE DEF P
  <2> QED BY <1>1, <1>3, <1>4, Upwards
<1>6. k \in 0..k
  BY <1>1
<1> QED BY <1>2, <1>5, <1>6

\* What is needed is the smallest closed set with the roots.
LEMMA NeededSmallest ==
    ASSUME NEW A, NEW ids, IsFiniteSet(ids), Closed(A, ids), NEW roots, roots \subseteq ids
    PROVE  /\ roots \subseteq Needed(A, roots, ids)
           /\ Closed(A, Needed(A, roots, ids))
           /\ \A U : roots \subseteq U /\ Closed(A, U) => Needed(A, roots, ids) \subseteq U
<1> DEFINE k == Cardinality(ids)
<1>1. k \in Nat /\ k \in 0..k
  BY FS_CardinalityType
<1>2. PICK found : Needed(A, roots, ids) = found[k] /\ Reaches(found, k, A, roots)
  BY NeededIs
<1>3. ASSUME NEW U, roots \subseteq U, Closed(A, U)
      PROVE  found[k] \subseteq U
  <2> HIDE DEF k
  <2> QED BY <1>1, <1>2, <1>3, ReachWithin
<1>4. roots \subseteq found[k] /\ Closed(A, found[k])
  <2>1. CASE roots = {}
    <3>1. Closed(A, {})
      BY DEF Closed
    <3>2. found[k] \subseteq {}
      BY <1>3, <2>1, <3>1
    <3>3. found[k] = {}
      BY <3>2
    <3> QED BY <2>1, <3>1, <3>3
  <2>2. CASE roots # {}
    BY <1>1, <1>2, <2>2, ReachClosed
  <2> QED BY <2>1, <2>2
<1> QED BY <1>2, <1>3, <1>4

\* found[n] is what a record leads to in n rounds among those that are there.
Tracks(found, k, A, i) ==
    /\ found[0] = {i}
    /\ \A n \in 1..k : found[n] = found[n - 1]
                          \cup UNION {Dependencies(A[j]) : j \in found[n - 1] \cap DOMAIN A}

LEMMA AncestryIs ==
    ASSUME NEW A, IsFiniteSet(DOMAIN A), NEW i
    PROVE  \E found : /\ Ancestry(A, i) = found[Cardinality(DOMAIN A)]
                      /\ Tracks(found, Cardinality(DOMAIN A), A, i)
<1> DEFINE k == Cardinality(DOMAIN A)
           T == {i} \cup UNION {Dependencies(A[j]) : j \in DOMAIN A}
           D == SUBSET T
           step == [now \in D |-> now \cup UNION {Dependencies(A[j]) : j \in now \cap DOMAIN A}]
           F == [n \in 1..k |-> step]
           Is(f) == f = [n \in 0..k |->
                           IF n = 0 THEN {i}
                           ELSE LET now == f[n - 1]
                                IN  now \cup UNION {Dependencies(A[j]) : j \in now \cap DOMAIN A}]
           found == CHOOSE f : Is(f)
<1>1. k \in Nat
  BY FS_CardinalityType
<1>2. {i} \in D /\ step \in [D -> D]
  OBVIOUS
<1>3. F \in [1..k -> [D -> D]]
  BY <1>2
<1>4. PICK f : Run(f, D, k, {i}, F)
  <2> HIDE DEF D, F, k
  <2> QED BY <1>1, <1>2, <1>3, Running
<1>5. ASSUME NEW n \in 1..k
      PROVE  f[n] = f[n - 1] \cup UNION {Dependencies(A[j]) : j \in f[n - 1] \cap DOMAIN A}
  <2>1. n - 1 \in 0..k
    BY <1>1
  <2>2. f[n - 1] \in D
    BY <1>4, <2>1 DEF Run
  <2>3. F[n] = step /\ f[n] = F[n][f[n - 1]]
    BY <1>4 DEF Run
  <2> QED BY <2>2, <2>3
<1>6. Is(f)
  BY <1>4, <1>5 DEF Run
<1>7. Is(found)
  BY <1>6
<1>8. Ancestry(A, i) = found[k]
  BY DEF Ancestry
<1>9. Tracks(found, k, A, i)
  <2> HIDE DEF found, k
  <2>1. 0 \in 0..k /\ \A n \in 1..k : n \in 0..k /\ n # 0
    BY <1>1
  <2>2. found[0] = {i}
    BY <1>7, <2>1
  <2>3. ASSUME NEW n \in 1..k
        PROVE  found[n] = found[n - 1]
                            \cup UNION {Dependencies(A[j]) : j \in found[n - 1] \cap DOMAIN A}
    BY <1>7, <2>1
  <2> QED BY <2>2, <2>3 DEF Tracks
<1> HIDE DEF found, k
<1>10. Ancestry(A, i) = found[k] /\ Tracks(found, k, A, i)
  BY <1>8, <1>9
<1> QED BY <1>10 DEF k

\* If all a record leads to is there, it is closed.
LEMMA AncestryClosed ==
    ASSUME NEW A, IsFiniteSet(DOMAIN A), NEW i, Ancestry(A, i) \subseteq DOMAIN A
    PROVE  i \in Ancestry(A, i) /\ Closed(A, Ancestry(A, i))
<1> DEFINE k == Cardinality(DOMAIN A)
<1>1. k \in Nat
  BY FS_CardinalityType
<1>2. PICK found : Ancestry(A, i) = found[k] /\ Tracks(found, k, A, i)
  BY AncestryIs
<1> HIDE DEF k
<1> DEFINE P == {n \in 0..k : found[k - n] \subseteq found[k]}
<1>3. 0 \in P
  BY <1>1
<1>4. ASSUME NEW n \in 1..k, n - 1 \in P
      PROVE  n \in P
  <2>1. n \in 0..k /\ k - (n - 1) \in 1..k /\ (k - (n - 1)) - 1 = k - n
    BY <1>1
  <2>2. found[k - n] \subseteq found[k - (n - 1)]
    BY <1>2, <2>1 DEF Tracks
  <2>3. found[k - (n - 1)] \subseteq found[k]
    BY <1>4
  <2> QED BY <2>1, <2>2, <2>3
<1>5. \A n \in 0..k : n \in P
  <2> HIDE DEF P
  <2> QED BY <1>1, <1>3, <1>4, Upwards
<1>6. ASSUME NEW n \in 0..k
      PROVE  found[n] \subseteq DOMAIN A
  <2>1. k - n \in 0..k /\ k - (k - n) = n
    BY <1>1
  <2>2. k - n \in P
    BY <1>5, <2>1
  <2>3. found[n] \subseteq found[k]
    BY <2>1, <2>2
  <2> QED BY <1>2, <2>3
<1>7. Reaches(found, k, A, {i})
  <2>1. ASSUME NEW n \in 1..k
        PROVE  found[n] = found[n - 1] \cup UNION {Dependencies(A[j]) : j \in found[n - 1]}
    <3>1. n - 1 \in 0..k
      BY <1>1
    <3>2. found[n - 1] \cap DOMAIN A = found[n - 1]
      BY <1>6, <3>1
    <3> QED BY <1>2, <3>2 DEF Tracks
  <2> QED BY <1>2, <2>1 DEF Reaches, Tracks
<1>8. Cardinality(DOMAIN A) <= k /\ {i} # {}
  BY <1>1 DEF k
<1>9. {i} \subseteq found[k] /\ Closed(A, found[k])
  BY <1>1, <1>6, <1>7, <1>8, ReachStops
<1> QED BY <1>2, <1>9

\* What allows the join of scopes it allows one by one allows the join of a part of them.
LEMMA AllowsPart ==
    ASSUME NEW session, NEW scopes \in SUBSET Scopes, \A s \in scopes : AllowsScope(session, s),
           AllowsScope(session, Inherit(scopes)), NEW part, part \subseteq scopes, part # {}
    PROVE  AllowsScope(session, Inherit(part))
<1>1. scopes \in SUBSET ScopeFields /\ part \in SUBSET ScopeFields /\ scopes # {}
  BY DEF Scopes
<1>2. ~ Mixed(scopes)
  <2>1. Mixed(scopes) => Inherit(scopes) = Restricted
    BY <1>1, InheritIs
  <2>2. ~ AllowsScope(session, Restricted)
    BY DEF AllowsScope, Restricted
  <2> QED BY <2>1, <2>2
<1>3. ~ Mixed(part)
  BY <1>2 DEF Mixed
<1> DEFINE join == Inherit(part)
<1>4. /\ join.visibility \in Visibility \ {"restricted"}
      /\ \A v \in {"organization", "personal"} :
            join.visibility = v <=> \E s \in part : s.visibility = v
      /\ join.execution = Strictest({s.execution : s \in part})
      /\ join.persistence = Strictest({s.persistence : s \in part})
  BY <1>1, <1>3, InheritIs
<1> HIDE DEF join
<1>5. \E s \in part : s.visibility = join.visibility
  <2>1. CASE join.visibility \in {"organization", "personal"}
    BY <1>4, <2>1
  <2>2. CASE join.visibility = "public"
    <3>1. PICK s \in part : TRUE
      OBVIOUS
    <3>2. s.visibility \in Visibility /\ s.visibility # "restricted"
      BY <1>1, <1>3 DEF ScopeFields, Mixed
    <3>3. s.visibility \notin {"organization", "personal"}
      BY <1>4, <2>2
    <3> QED BY <2>2, <3>2, <3>3 DEF Visibility
  <2> QED BY <1>4, <2>1, <2>2 DEF Visibility
<1>6. \E s \in part : s.execution = join.execution
  <2> DEFINE levels == {s.execution : s \in part}
  <2>1. levels \in SUBSET Level /\ levels # {}
    BY <1>1 DEF ScopeFields
  <2> HIDE DEF levels
  <2>2. Strictest(levels) \in levels
    BY <2>1, StrictestIs
  <2> QED BY <1>4, <2>2 DEF levels
<1>7. \E s \in part : s.persistence = join.persistence
  <2> DEFINE levels == {s.persistence : s \in part}
  <2>1. levels \in SUBSET Level /\ levels # {}
    BY <1>1 DEF ScopeFields
  <2> HIDE DEF levels
  <2>2. Strictest(levels) \in levels
    BY <2>1, StrictestIs
  <2> QED BY <1>4, <2>2 DEF levels
<1>8. \A s \in part : AllowsScope(session, s)
  OBVIOUS
<1> QED BY <1>5, <1>6, <1>7, <1>8 DEF AllowsScope, join

\* Records each of which is allowed by itself, and those of them that may be shown.
Admits(session, A) ==
    /\ Sound(session, A)
    /\ \A i \in DOMAIN A : AllowsScope(session, DeclaredScope(session, A[i]))

Shown(session, A) == {i \in DOMAIN A : MayBeShown(session, A, i)}

\* All that a record which may be shown leads to is closed, and authorized with it.
LEMMA ShownAuthorized ==
    ASSUME NEW session, NEW A, Admits(session, A), NEW i \in Shown(session, A)
    PROVE  /\ i \in Ancestry(A, i)
           /\ Closed(A, Ancestry(A, i))
           /\ Ancestry(A, i) \subseteq Authorized(session, A)
           /\ Ancestry(A, i) \subseteq DOMAIN A
<1> DEFINE T == Ancestry(A, i)
           base == Base(session, A)
           effective == Effective(session, A, base)
           ids == {j \in DOMAIN effective : AllowsScope(session, effective[j])}
           declared(U) == {DeclaredScope(session, A[j]) : j \in U}
<1>1. Sound(session, A) /\ IsFiniteSet(DOMAIN A)
  BY DEF Admits, Sound
<1>2. /\ T \subseteq Public(session, A)
      /\ AllowsScope(session, Inherit(declared(T)))
  BY DEF Shown, MayBeShown
<1>3. Public(session, A) \subseteq DOMAIN A /\ IsFiniteSet(Public(session, A))
  <2>1. Public(session, A) \subseteq DOMAIN A
    BY DEF Public
  <2> QED BY <1>1, <2>1, FS_Subset
<1>4. i \in T /\ Closed(A, T) /\ T \subseteq DOMAIN A
  <2>1. Ancestry(A, i) \subseteq DOMAIN A
    BY <1>2, <1>3
  <2> QED BY <1>1, <2>1, AncestryClosed
<1>5. T \subseteq base
  <2> HIDE DEF T
  <2>1. T \subseteq Standing(A, Public(session, A))
    BY <1>2, <1>3, <1>4, StandingLargest
  <2> QED BY <2>1 DEF Base
<1>6. /\ base \subseteq DOMAIN A
      /\ Closed(A, base)
      /\ effective \in [base -> Scopes]
  BY <1>1, BaseIs
<1> HIDE DEF T
<1>7. ASSUME NEW j \in T
      PROVE  AllowsScope(session, effective[j])
  <2>1. j \in base
    BY <1>5
  <2>2. effective[j] = Inherit(declared(Ancestry(A, j)))
    <3> HIDE DEF base
    <3> QED BY <1>1, <1>6, <2>1, EffectiveJoins
  <2>3. Ancestry(A, j) \subseteq T /\ j \in Ancestry(A, j)
    BY <1>1, <1>4, AncestryLeads DEF Leads
  <2> DEFINE all == declared(T)
             part == declared(Ancestry(A, j))
  <2>4. /\ all \in SUBSET Scopes
        /\ \A s \in all : AllowsScope(session, s)
        /\ part \subseteq all
        /\ part # {}
    BY <1>1, <1>4, <2>3 DEF Admits, Sound
  <2>5. AllowsScope(session, Inherit(all))
    BY <1>2
  <2> HIDE DEF all, part
  <2>6. AllowsScope(session, Inherit(part))
    BY <2>4, <2>5, AllowsPart
  <2> QED BY <2>2, <2>6 DEF part
<1>8. T \subseteq ids
  <2> HIDE DEF base, effective
  <2> QED BY <1>5, <1>6, <1>7
<1>9. IsFiniteSet(ids)
  <2>1. ids \subseteq DOMAIN A
    <3> HIDE DEF base, effective
    <3> QED BY <1>6
  <2> HIDE DEF ids
  <2> QED BY <1>1, <2>1, FS_Subset
<1>10. Authorized(session, A) = Standing(A, ids)
  BY DEF Authorized, AuthorizedUnder, Base
<1> HIDE DEF ids
<1>11. T \subseteq Standing(A, ids)
  BY <1>4, <1>8, <1>9, StandingLargest
<1>12. T \subseteq Authorized(session, A)
  BY <1>10, <1>11
<1> QED BY <1>4, <1>12 DEF T

\* The work lists of query_view find exactly what may be shown.
LEMMA AuthorizedShown ==
    ASSUME NEW session, NEW A, Admits(session, A)
    PROVE  Authorized(session, A) = Shown(session, A)
<1>1. Sound(session, A)
  BY DEF Admits
<1>2. ASSUME NEW i \in Authorized(session, A)
      PROVE  i \in Shown(session, A)
  <2>1. /\ i \in Base(session, A)
        /\ AllowsScope(session, Effective(session, A, Base(session, A))[i])
        /\ Base(session, A) \subseteq Public(session, A)
        /\ Base(session, A) \subseteq DOMAIN A
        /\ Closed(A, Base(session, A))
    BY <1>1, AuthorizedIs, BaseIs
  <2>2. Ancestry(A, i) \subseteq Base(session, A)
    BY <1>1, <2>1, AncestryLeads DEF Sound
  <2>3. Effective(session, A, Base(session, A))[i]
          = Inherit({DeclaredScope(session, A[j]) : j \in Ancestry(A, i)})
    BY <1>1, <2>1, EffectiveJoins
  <2> QED BY <2>1, <2>2, <2>3 DEF Shown, MayBeShown
<1>3. ASSUME NEW i \in Shown(session, A)
      PROVE  i \in Authorized(session, A)
  BY ShownAuthorized
<1> QED BY <1>2, <1>3

(***************************************************************************)
(* The same records in another table.                                      *)
(***************************************************************************)
Alike(A, B, ids) == \A i \in ids : A[i] = B[i]

LEMMA ClosedAlike ==
    ASSUME NEW A, NEW B, NEW ids, Alike(A, B, ids)
    PROVE  Closed(A, ids) <=> Closed(B, ids)
BY DEF Alike, Closed

LEMMA StandingAlike ==
    ASSUME NEW A, NEW B, NEW ids, IsFiniteSet(ids), Alike(A, B, ids)
    PROVE  Standing(A, ids) = Standing(B, ids)
<1> DEFINE T == Standing(A, ids)
           U == Standing(B, ids)
<1>1. T \subseteq ids /\ U \subseteq ids /\ Closed(A, T) /\ Closed(B, U)
  BY StandingClosed
<1> HIDE DEF T, U
<1>2. Alike(A, B, T) /\ Alike(A, B, U)
  BY <1>1 DEF Alike
<1>3. Closed(B, T) /\ Closed(A, U)
  BY <1>1, <1>2, ClosedAlike
<1>4. T \subseteq Standing(B, ids) /\ U \subseteq Standing(A, ids)
  BY <1>1, <1>3, StandingLargest
<1> QED BY <1>4 DEF T, U

LEMMA NeededAlike ==
    ASSUME NEW A, NEW B, NEW ids, IsFiniteSet(ids), Alike(A, B, ids), Closed(A, ids),
           NEW roots, roots \subseteq ids
    PROVE  Needed(A, roots, ids) = Needed(B, roots, ids)
<1> DEFINE T == Needed(A, roots, ids)
           U == Needed(B, roots, ids)
<1>1. Closed(B, ids)
  BY ClosedAlike
<1>2. /\ T \subseteq ids /\ roots \subseteq T /\ Closed(A, T)
      /\ \A V : roots \subseteq V /\ Closed(A, V) => T \subseteq V
  BY NeededSmallest
<1>3. /\ U \subseteq ids /\ roots \subseteq U /\ Closed(B, U)
      /\ \A V : roots \subseteq V /\ Closed(B, V) => U \subseteq V
  BY <1>1, NeededSmallest
<1> HIDE DEF T, U
<1>4. Alike(A, B, T) /\ Alike(A, B, U)
  BY <1>2, <1>3 DEF Alike
<1>5. Closed(B, T) /\ Closed(A, U)
  BY <1>2, <1>3, <1>4, ClosedAlike
<1>6. T \subseteq U /\ U \subseteq T
  BY <1>2, <1>3, <1>5
<1> QED BY <1>6 DEF T, U

\* What is selected of the authorized records depends on them and on what is retired.
LEMMA SelectedAlike ==
    ASSUME NEW session, NEW A, NEW B, NEW ids, IsFiniteSet(ids), Alike(A, B, ids),
           Retired(A) = Retired(B)
    PROVE  Selected(session, A, ids) = Selected(session, B, ids)
<1> DEFINE candidates == Candidates(session, A, ids)
           window == FirstOf(candidates, session.budget)
           left == ids \ (candidates \ window)
           standing == Standing(A, left)
           roots == window \cap standing
           nodes == roots \cup AssetsOf(session, A, standing, roots)
           carried == nodes \cup FirstOf(SynapsesAmong(A, standing, nodes), session.budget)
<1>1. Candidates(session, B, ids) = candidates
  BY DEF Candidates, Alike
<1> HIDE DEF candidates
<1>2. left \subseteq ids
  OBVIOUS
<1> HIDE DEF window, left
<1>3. IsFiniteSet(left) /\ Alike(A, B, left)
  BY <1>2, FS_Subset DEF Alike
<1>4. Standing(B, left) = standing /\ standing \subseteq left /\ Closed(A, standing)
  BY <1>3, StandingAlike, StandingClosed
<1> HIDE DEF standing
<1>5. IsFiniteSet(standing) /\ Alike(A, B, standing)
  BY <1>3, <1>4, FS_Subset DEF Alike
<1>6. roots \subseteq standing
  OBVIOUS
<1> HIDE DEF roots
<1>7. AssetsOf(session, B, standing, roots) = AssetsOf(session, A, standing, roots)
  BY <1>5 DEF AssetsOf, Alike
<1>8. nodes \subseteq standing
  BY <1>6 DEF AssetsOf
<1> HIDE DEF nodes
<1>9. SynapsesAmong(B, standing, nodes) = SynapsesAmong(A, standing, nodes)
  BY <1>5 DEF SynapsesAmong, Alike
<1>10. carried \subseteq standing
  BY <1>8 DEF FirstOf, SynapsesAmong
<1>11. Selected(session, A, ids) = Needed(A, carried, standing)
  BY DEF Selected, WithCandidates, WithWindow, WithRoots, WithCarried, candidates, window, left,
         standing, roots, nodes
<1>12. Selected(session, B, ids) = WithWindow(session, B, ids, candidates, window)
  BY <1>1 DEF Selected, WithCandidates, window
<1>13. WithWindow(session, B, ids, candidates, window) = WithRoots(session, B, standing, roots)
  BY <1>4 DEF WithWindow, left, roots
<1>14. WithRoots(session, B, standing, roots) = WithCarried(session, B, standing, nodes)
  BY <1>7 DEF WithRoots, nodes
<1>15. WithCarried(session, B, standing, nodes) = Needed(B, carried, standing)
  BY <1>9 DEF WithCarried
<1> HIDE DEF carried
<1>16. Needed(A, carried, standing) = Needed(B, carried, standing)
  BY <1>4, <1>5, <1>10, NeededAlike
<1> QED BY <1>11, <1>12, <1>13, <1>14, <1>15, <1>16

\* A closed set that two tables share leads to the same in both.
LEMMA AncestryAlike ==
    ASSUME NEW A, IsFiniteSet(DOMAIN A), NEW B, IsFiniteSet(DOMAIN B), NEW T,
           T \subseteq DOMAIN A, T \subseteq DOMAIN B, Alike(A, B, T), Closed(A, T), NEW i \in T
    PROVE  Ancestry(A, i) = Ancestry(B, i)
<1> DEFINE U == Ancestry(A, i)
           V == Ancestry(B, i)
<1>1. Closed(B, T)
  BY ClosedAlike
<1>2. Leads(A, i, U) /\ U \subseteq T
  BY AncestryLeads
<1>3. Leads(B, i, V) /\ V \subseteq T
  BY <1>1, AncestryLeads
<1> HIDE DEF U, V
<1>4. i \in U /\ i \in V /\ Closed(A, U) /\ Closed(B, V)
  BY <1>2, <1>3 DEF Leads
<1>5. Alike(A, B, U) /\ Alike(A, B, V)
  BY <1>2, <1>3 DEF Alike
<1>6. Closed(B, U) /\ Closed(A, V)
  BY <1>4, <1>5, ClosedAlike
<1>7. U \subseteq V /\ V \subseteq U
  BY <1>2, <1>3, <1>4, <1>6 DEF Leads
<1> QED BY <1>7 DEF U, V

LEMMA ShownAlikeOneWay ==
    ASSUME NEW session, NEW A, Admits(session, A), NEW B, Admits(session, B),
           NEW i \in Shown(session, A), Ancestry(A, i) \subseteq DOMAIN B,
           Alike(A, B, Ancestry(A, i))
    PROVE  i \in Shown(session, B)
<1> DEFINE T == Ancestry(A, i)
<1>1. IsFiniteSet(DOMAIN A) /\ IsFiniteSet(DOMAIN B)
  BY DEF Admits, Sound
<1>2. i \in T /\ Closed(A, T) /\ T \subseteq DOMAIN A
  BY ShownAuthorized
<1>3. T \subseteq DOMAIN B /\ Alike(A, B, T)
  OBVIOUS
<1>4. /\ T \subseteq Public(session, A)
      /\ AllowsScope(session, Inherit({DeclaredScope(session, A[j]) : j \in T}))
  BY DEF Shown, MayBeShown
<1> HIDE DEF T
<1>5. Ancestry(A, i) = Ancestry(B, i)
  BY <1>1, <1>2, <1>3, AncestryAlike
<1>6. T \subseteq Public(session, B)
  BY <1>3, <1>4 DEF Public, Alike
<1>7. {DeclaredScope(session, A[j]) : j \in T} = {DeclaredScope(session, B[j]) : j \in T}
  BY <1>3 DEF Alike
<1>8. AllowsScope(session, Inherit({DeclaredScope(session, B[j]) : j \in T}))
  BY <1>4, <1>7
<1>9. i \in DOMAIN B
  BY <1>2, <1>3
<1> QED BY <1>5, <1>6, <1>8, <1>9 DEF Shown, MayBeShown, T

(***************************************************************************)
(* A table without what is denied.                                         *)
(***************************************************************************)
\* Records that stay: all that may be shown, every move, and the originals of the moves.
Keeps(session, A, kept) ==
    /\ kept \subseteq DOMAIN A
    /\ Shown(session, A) \subseteq kept
    /\ \A i \in DOMAIN A : A[i].moved # NoMove =>
          /\ i \in kept
          /\ A[i].moved.from \in DOMAIN A => A[i].moved.from \in kept

LEMMA KeptIs ==
    ASSUME NEW session, NEW A, Admits(session, A), NEW kept, Keeps(session, A, kept)
    PROVE  /\ DOMAIN Restrict(A, kept) = kept
           /\ Alike(A, Restrict(A, kept), kept)
           /\ Admits(session, Restrict(A, kept))
<1> DEFINE B == Restrict(A, kept)
<1>1. DOMAIN B = kept /\ \A i \in kept : B[i] = A[i]
  BY DEF Restrict
<1>2. kept \subseteq DOMAIN A /\ IsFiniteSet(kept)
  BY FS_Subset DEF Keeps, Admits, Sound
<1> HIDE DEF B
<1>3. Admits(session, B)
  BY <1>1, <1>2 DEF Admits, Sound
<1>4. Alike(A, B, kept)
  BY <1>1 DEF Alike
<1> QED BY <1>1, <1>3, <1>4 DEF B

LEMMA KeptMoves ==
    ASSUME NEW session, NEW A, Admits(session, A), NEW kept, Keeps(session, A, kept)
    PROVE  Moves(Restrict(A, kept)) = Moves(A)
<1> DEFINE B == Restrict(A, kept)
<1>1. DOMAIN B = kept /\ \A i \in kept : B[i] = A[i]
  BY KeptIs DEF Alike
<1> HIDE DEF B
<1>2. Moves(B) = Moves(A)
  BY <1>1 DEF Moves, Keeps
<1> QED BY <1>2 DEF B

LEMMA KeptBroken ==
    ASSUME NEW session, NEW A, Admits(session, A), NEW kept, Keeps(session, A, kept)
    PROVE  ViewBroken(Restrict(A, kept)) <=> ViewBroken(A)
<1> DEFINE B == Restrict(A, kept)
           walked(M, i) ==
               LET hop(j) == IF \E m \in M : m.from = j
                             THEN (CHOOSE m \in M : m.from = j).to ELSE j
                   walk[n \in 0..Cardinality(M)] ==
                       IF n = 0 THEN i ELSE hop(walk[n - 1])
               IN  walk[Cardinality(M)]
<1>1. DOMAIN B = kept /\ \A i \in kept : B[i] = A[i]
  BY KeptIs DEF Alike
<1>2. Moves(B) = Moves(A)
  BY KeptMoves
<1> HIDE DEF B
<1>3. \A i : Canonical(A, i) = walked(Moves(A), i)
  BY DEF Canonical
<1>4. \A i : Canonical(B, i) = walked(Moves(B), i)
  BY DEF Canonical
<1> HIDE DEF walked
<1>5. \A i : Canonical(B, i) = Canonical(A, i)
  BY <1>2, <1>3, <1>4
<1>6. Retired(B) = Retired(A)
  BY <1>2 DEF Retired
<1>7. \A m \in Moves(A) : /\ m.from \in DOMAIN B <=> m.from \in DOMAIN A
                          /\ m.from \in DOMAIN B => B[m.from] = A[m.from]
  BY <1>1 DEF Keeps, Moves
<1>8. ViewBroken(B) <=> ViewBroken(A)
  BY <1>2, <1>5, <1>6, <1>7 DEF ViewBroken
<1> QED BY <1>8 DEF B

LEMMA KeptShown ==
    ASSUME NEW session, NEW A, Admits(session, A), NEW kept, Keeps(session, A, kept)
    PROVE  Shown(session, Restrict(A, kept)) = Shown(session, A)
<1> DEFINE B == Restrict(A, kept)
<1>1. DOMAIN B = kept /\ Alike(A, B, kept) /\ Admits(session, B)
  BY KeptIs
<1>2. kept \subseteq DOMAIN A /\ Shown(session, A) \subseteq kept
  BY DEF Keeps
<1> HIDE DEF B
<1>3. ASSUME NEW i \in Shown(session, A)
      PROVE  i \in Shown(session, B)
  <2>1. Ancestry(A, i) \subseteq Authorized(session, A)
    BY ShownAuthorized
  <2>2. Ancestry(A, i) \subseteq kept
    BY <1>2, <2>1, AuthorizedShown
  <2>3. Alike(A, B, Ancestry(A, i))
    BY <1>1, <2>2 DEF Alike
  <2> QED BY <1>1, <2>2, <2>3, ShownAlikeOneWay
<1>4. ASSUME NEW i \in Shown(session, B)
      PROVE  i \in Shown(session, A)
  <2>1. Ancestry(B, i) \subseteq DOMAIN B
    BY <1>1, ShownAuthorized
  <2>2. Ancestry(B, i) \subseteq DOMAIN A
    BY <1>1, <1>2, <2>1
  <2>3. Alike(B, A, Ancestry(B, i))
    BY <1>1, <2>1 DEF Alike
  <2> QED BY <1>1, <2>2, <2>3, ShownAlikeOneWay
<1> QED BY <1>3, <1>4 DEF B

\* Asked of what is admitted already, admission changes nothing.
LEMMA AdmittedAgain ==
    ASSUME NEW session, NEW A, NEW T, A = [i \in T |-> A[i]],
           \A i \in T : Permitted(session, A[i])
    PROVE  Admitted(session, A) = A
<1>1. {i \in DOMAIN A : Permitted(session, A[i])} = T
  OBVIOUS
<1> QED BY <1>1 DEF Admitted, Restrict

LEMMA KeptView ==
    ASSUME NEW session, NEW A, Admits(session, A), NEW kept, Keeps(session, A, kept),
           A = [i \in DOMAIN A |-> A[i]], \A i \in DOMAIN A : Permitted(session, A[i])
    PROVE  /\ View(session, A) = AdmittedView(session, A)
           /\ View(session, Restrict(A, kept)).ids = AdmittedView(session, A).ids
<1> DEFINE B == Restrict(A, kept)
<1>1. B = [i \in kept |-> A[i]] /\ kept \subseteq DOMAIN A
  BY DEF Restrict, Keeps
<1>2. Admitted(session, A) = A
  BY AdmittedAgain
<1>3. Admitted(session, B) = B
  <2>1. B = [i \in kept |-> B[i]] /\ \A i \in kept : Permitted(session, B[i])
    BY <1>1
  <2> HIDE DEF B
  <2> QED BY <2>1, AdmittedAgain
<1>4. ViewBroken(B) <=> ViewBroken(A)
  BY KeptBroken
<1>5. Admits(session, B) /\ Alike(A, B, kept)
  BY KeptIs
<1>6. Authorized(session, B) = Authorized(session, A)
  BY <1>5, KeptShown, AuthorizedShown
<1>7. /\ IsFiniteSet(Authorized(session, A))
      /\ Alike(A, B, Authorized(session, A))
  <2>1. Authorized(session, A) \subseteq kept /\ kept \subseteq DOMAIN A
    BY AuthorizedShown DEF Keeps
  <2>2. IsFiniteSet(Authorized(session, A))
    BY <2>1, FS_Subset DEF Admits, Sound
  <2> HIDE DEF B
  <2> QED BY <1>5, <2>1, <2>2 DEF Alike
<1>8. Retired(B) = Retired(A)
  BY KeptMoves DEF Retired
<1> HIDE DEF B
<1>9. Selected(session, A, Authorized(session, A)) = Selected(session, B, Authorized(session, B))
  BY <1>6, <1>7, <1>8, SelectedAlike
<1>10. ASSUME NEW T
       PROVE  AdmittedView(session, T).ids
                = IF ViewBroken(T) THEN {} ELSE Selected(session, T, Authorized(session, T))
  <2>1. CASE ViewBroken(T)
    BY <2>1 DEF AdmittedView
  <2>2. CASE ~ ViewBroken(T)
    BY <2>2 DEF AdmittedView, ViewOf
  <2> QED BY <2>1, <2>2
<1>11. AdmittedView(session, B).ids = AdmittedView(session, A).ids
  BY <1>4, <1>9, <1>10
<1> QED BY <1>2, <1>3, <1>11 DEF View, B

\* What a session may not see, or not see all evidence of, changes nothing of what it sees:
\* not the view, not which records a budget leaves (query_view.py).
THEOREM NothingDeniedShows == Spec => []DeniedLeaveNoTrace
<1>1. QueryInvariant => DeniedLeaveNoTrace
  <2> SUFFICES ASSUME QueryInvariant
               PROVE  DeniedLeaveNoTrace
    OBVIOUS
  <2> DEFINE R == TableOf(tree)
             readable == Admitted(S, R)
             moves == {i \in DOMAIN readable : R[i].moved # NoMove}
             origin == {R[i].moved.from : i \in moves}
             shown == {i \in DOMAIN readable : MayBeShown(S, readable, i)}
             kept == (shown \cup moves \cup origin) \cap DOMAIN readable
  <2>1. Stored /\ tree \in [Garden -> Tree]
    BY DEF QueryInvariant, Fixed, TypeOK
  <2>2. /\ Sound(S, readable)
        /\ \A i \in DOMAIN readable : readable[i] = R[i]
    BY <2>1, AdmittedIs
  <2>3. /\ DOMAIN readable = {i \in DOMAIN R : Permitted(S, R[i])}
        /\ readable = [i \in DOMAIN readable |-> readable[i]]
    BY DEF Admitted, Restrict
  <2> HIDE DEF R, readable
  <2>4. \A i \in DOMAIN readable : Permitted(S, readable[i])
    BY <2>2, <2>3
  <2>5. Admits(S, readable)
    BY <2>2, <2>4 DEF Admits, Permitted, Allowed
  <2>6. Keeps(S, readable, kept)
    BY <2>2 DEF Keeps, Shown
  <2>7. /\ View(S, readable) = AdmittedView(S, readable)
        /\ View(S, Restrict(readable, kept)).ids = AdmittedView(S, readable).ids
    <3> HIDE DEF kept
    <3> QED BY <2>3, <2>4, <2>5, <2>6, KeptView
  <2>8. View(S, R) = AdmittedView(S, readable)
    BY DEF View, readable
  <2>9. /\ View(S, readable) = View(S, R)
        /\ View(S, Restrict(readable, kept)).ids = View(S, R).ids
    BY <2>7, <2>8
  <2> QED BY <2>9 DEF DeniedLeaveNoTrace, R, readable, kept, shown, moves, origin
<1> QED BY <1>1, InvariantAlways, PTL

(***************************************************************************)
(* Packs and entry points keep their budgets.                              *)
(***************************************************************************)
\* An answer of entries that keeps the budgets.
Packed(a, R) ==
    /\ PackKeeps(S, S.profile, R, a.ids["index"], a.pack)
    /\ PackSize(R, [selected |-> a.ids["llms"], reason |-> <<>>]) <= S.bytes

\* Where the packs are in an answer.
LEMMA AnswerPacks ==
    ASSUME {"index", "llms"} \subseteq Operation, NEW view, NEW R, NEW held, NEW entries
    PROVE  /\ AnswerWith(S, view, R, held, entries).ids["index"] = entries
           /\ AnswerWith(S, view, R, held, entries).ids["llms"] = Entrypoint(S, R, entries)
           /\ AnswerWith(S, view, R, held, entries).pack = Pack(S, S.profile, R, entries)
BY DEF AnswerWith, AnswerOf

\* What is answered now keeps the budgets.
LEMMA AnswerNowPacks ==
    ASSUME TypeOK, Fixed, Viewed, query.pc = "rechecking", {"index", "llms"} \subseteq Operation,
           Bytes(S, S.profile) >= 1
    PROVE  Packed(AnswerNow, TableOf(query.seen))
<1>1. /\ Stored
      /\ query.seen \in [Garden -> Tree]
  BY DEF Fixed, TypeOK
<1>2. PICK R, known, held, entries :
         /\ R = TableOf(query.seen)
         /\ known = Known
         /\ held = HeldNow
         /\ entries = Entries(S, query.view, Known, HeldNow, FALSE)
  OBVIOUS
<1>3. /\ held \subseteq query.view.ids
      /\ query.view.ids \subseteq DOMAIN R
      /\ Fit(query.view, known, held)
      /\ AnswerNow = AnswerWith(S, query.view, known, held, entries)
  BY <1>2, HeldFits
<1>4. entries \subseteq held
  BY <1>2, EntriesIs
<1>5. IsFiniteSet(entries)
  BY <1>3, <1>4, FS_Subset DEF Fit
<1>6. Ranked(known, entries)
  BY <1>3, <1>4, <1>5 DEF Ranked, Fit
<1>7. ASSUME NEW i \in entries
      PROVE  /\ i \in DOMAIN known /\ i \in DOMAIN R
             /\ known[i] = R[i]
             /\ R[i].size \in Nat
  <2>1. i \in query.view.ids /\ i \in DOMAIN R
    BY <1>3, <1>4
  <2>2. i \in DOMAIN known /\ known[i] = R[i]
    BY <1>2, <2>1 DEF Known, Restrict
  <2>3. PICK g \in Garden : i \in DOMAIN store[g][query.seen[g]]
    BY <1>1, <1>2, <2>1, TableIs
  <2>4. R[i].size \in Nat
    BY <1>1, <1>2, <2>3, TableIs
  <2> QED BY <2>1, <2>2, <2>4
<1>8. Sized(known, entries) /\ Twins(known, R, entries)
  BY <1>5, <1>7 DEF Sized, Twins
<1>9. /\ {S.budget, S.results, S.bytes, S.profile.candidates, S.profile.items, S.profile.bytes}
           \subseteq Nat
      /\ S.profile.include \in Seq(Nat)
  BY <1>1 DEF Stored
<1>10. Bytes(S, S.profile) \in Nat \ {0} /\ S.bytes \in Nat \ {0}
  BY <1>9 DEF Bytes
<1>11. PICK pack : pack = Pack(S, S.profile, known, entries)
  OBVIOUS
<1>12. PackKeeps(S, S.profile, known, entries, pack)
  BY <1>6, <1>8, <1>9, <1>10, <1>11, PackFits
<1>13. pack.selected \in SUBSET entries
  BY <1>6, <1>9, <1>11, PackIs
<1>14. PackKeeps(S, S.profile, R, entries, pack)
  BY <1>6, <1>8, <1>9, <1>12, <1>13, KeepsAlike
<1>15. PICK first : first = Entrypoint(S, known, entries)
  OBVIOUS
<1>16. /\ first \in SUBSET entries
       /\ PackSize(known, [selected |-> first, reason |-> <<>>]) <= S.bytes
  BY <1>8, <1>9, <1>10, <1>15, EntrypointFits
<1>17. PackSize(R, [selected |-> first, reason |-> <<>>]) <= S.bytes
  <2>1. PICK p : p = [selected |-> first, reason |-> <<>>]
    OBVIOUS
  <2>2. p.selected \in SUBSET entries
    BY <1>16, <2>1
  <2>3. PackSize(R, p) = PackSize(known, p)
    BY <1>8, <2>2, PackSizeAlike
  <2> QED BY <1>16, <2>1, <2>3
<1>18. /\ AnswerNow.ids["index"] = entries
       /\ AnswerNow.ids["llms"] = first
       /\ AnswerNow.pack = pack
  BY <1>3, <1>11, <1>15, AnswerPacks
<1> QED BY <1>2, <1>14, <1>17, <1>18 DEF Packed

\* Every answer made keeps the budgets, by the tables it was made from.
Budgeted ==
    query.pc \in Done /\ Bytes(S, S.profile) >= 1 => Packed(query.answer, TableOf(query.seen))

\* The tables that were read are not replaced once the answer is made.
LEMMA SeenStays ==
    ASSUME TypeOK, query.pc \in {"rechecking"} \cup Done, [Next]_vars, query'.pc \in Done
    PROVE  query'.seen = query.seen
<1>1. CASE QueryStep
  <2>1. ~ Refused
    BY DEF Refused, Becomes, Done
  <2>2. CASE Open \/ ReadMetadata \/ CheckPins \/ ReadBodies \/ CheckLive
    BY <2>2 DEF Open, ReadMetadata, CheckPins, ReadBodies, CheckLive, Done
  <2>3. CASE ReadAgain
    BY <2>1, <2>3, ReadAgainIs DEF Becomes, Done
  <2>4. CASE Conclude
    BY <2>1, <2>4, ConcludeIs DEF Becomes
  <2>5. CASE WriteProjection
    BY <2>1, <2>5, WriteProjectionIs DEF Becomes
  <2> QED BY <1>1, <2>2, <2>3, <2>4, <2>5 DEF QueryStep
<1>2. CASE WriterStep \/ Withdraw \/ UNCHANGED vars
  <2>1. query' = query
    BY <1>2, OthersLeaveQuery
  <2> QED BY <2>1
<1> QED BY <1>1, <1>2 DEF Next

\* No step takes a budget back.
LEMMA BudgetedStays ==
    ASSUME {"index", "llms"} \subseteq Operation
    PROVE  QueryInvariant /\ Budgeted /\ [Next]_vars => Budgeted'
<1> SUFFICES ASSUME QueryInvariant, Budgeted, [Next]_vars, query'.pc \in Done,
                    (Bytes(S, S.profile) >= 1)'
             PROVE  Packed(query.answer, TableOf(query.seen))'
  BY DEF Budgeted
<1>1. store' = store /\ S' = S
  BY FixedStays DEF fixed, QueryInvariant
<1>2. Bytes(S, S.profile) >= 1
  BY <1>1
<1>3. TypeOK /\ Fixed /\ Viewed
  BY DEF QueryInvariant
<1>4. query'.seen = query.seen
  BY <1>3, AnswerStays, SeenStays
<1>5. ASSUME NEW a, query'.answer = a
      PROVE  Packed(query.answer, TableOf(query.seen))' <=> Packed(a, TableOf(query.seen))
  BY <1>1, <1>4, <1>5 DEF Packed, TableOf
<1>6. CASE query.pc \in Done /\ query'.answer = query.answer
  BY <1>2, <1>5, <1>6 DEF Budgeted
<1>7. CASE query.pc = "rechecking" /\ query'.answer = AnswerNow
  BY <1>2, <1>3, <1>5, <1>7, AnswerNowPacks
<1> QED BY <1>3, <1>6, <1>7, AnswerStays

\* PacksFit: a context pack keeps its byte ceiling and its item budget, selects nothing
\* that is excluded, and accounts once for each candidate of the longest prefix whose
\* ledger fits; an entry point keeps its ceiling (retrieval.py: render_context).
THEOREM PacksKeepBudgets ==
    ASSUME {"index", "llms"} \subseteq Operation
    PROVE  Spec => []PacksFit
<1>1. Init => Budgeted
  BY DEF Init, NoQuery, Budgeted, Done
<1>2. QueryInvariant /\ Budgeted /\ [Next]_vars => Budgeted'
  BY BudgetedStays
<1>3. Budgeted => PacksFit
  BY DEF Budgeted, PacksFit, Answered, Done, Packed, PackKeeps
<1> QED BY <1>1, <1>2, <1>3, InvariantAlways, PTL DEF Spec

----------------------------------------------------------------------------
(***************************************************************************)
(* The cache of what a query projects, a specification by itself: what a   *)
(* quarantine and a restore promise of the caches they move                *)
(* (application/registry_cache.py apply_cache_plan), for any number of     *)
(* sessions that write meanwhile, of requests, of kills and of failures.   *)
(*                                                                         *)
(* The lease of the registry lets one plan be applied at a time; CacheInv  *)
(* says that from the receipt it writes first to the one it writes last    *)
(* this plan alone is at its recovery, so that nobody else's receipt or    *)
(* payload is in play.                                                     *)
(***************************************************************************)
Steps == {"leased", "rooting", "rooted", "prepared", "moved", "verified"}

\* The lease is free, or its holder applies a reviewed plan.
Holder ==
    \/ run = Free
    \/ /\ run \in [pc : Steps, request : Request]
       /\ plan[run.request] # NoPlan

\* From the first receipt to the last the recovery is this plan's.
Underway == run.pc \in {"prepared", "moved", "verified"} => Receipt(Recovery) = Prepared

\* What the last receipt is about to say is so.
SeenExact ==
    run.pc = "verified" /\ Quarantining => Exact(Payload(Recovery), InventoryOf(Recovery))

CacheInv ==
    /\ plan = [q \in Request |-> plan[q]]
    /\ Holder
    /\ Underway
    /\ SeenExact
    /\ QuarantineHoldsReviewed

\* What the steps of the sessions and of the owner leave alone.
LEMMA OtherSteps ==
    ASSUME CacheInv, UNCHANGED <<receipt, payload, plan>>, run' \in {run, Free}
    PROVE  CacheInv'
<1>1. CASE run' = run
  BY <1>1 DEF CacheInv, Holder, Underway, SeenExact, QuarantineHoldsReviewed, Receipt, Payload,
     Recovery, Prepared, Quarantining, Exact, Owned, InventoryOf, Free
<1>2. CASE run' = Free
  BY <1>2 DEF CacheInv, Holder, Underway, SeenExact, QuarantineHoldsReviewed, Payload,
     Exact, Owned, InventoryOf, Free
<1> QED
  BY <1>1, <1>2

\* A plan that is being applied is not made again.
LEMMA PlanningStep ==
    ASSUME CacheInv, NEW q \in Request, plan[q] = NoPlan, NEW reviewed,
           plan' = [plan EXCEPT ![q] = reviewed], UNCHANGED <<receipt, payload, run>>
    PROVE  CacheInv'
<1>1. plan' = [r \in Request |-> plan'[r]]
  BY DEF CacheInv
<1>2. run # Free => run.request \in Request /\ plan'[run.request] = plan[run.request]
  BY DEF CacheInv, Holder
<1>3. Holder'
  BY <1>2 DEF CacheInv, Holder
<1>4. Underway' /\ SeenExact'
  BY <1>2 DEF CacheInv, Underway, SeenExact, Receipt, Payload, Recovery, Prepared, Quarantining,
     Exact, Owned, InventoryOf, Free
<1>5. QuarantineHoldsReviewed'
  BY DEF CacheInv, QuarantineHoldsReviewed, Payload, Exact, Owned, InventoryOf
<1> QED
  BY <1>1, <1>3, <1>4, <1>5 DEF CacheInv

\* A receipt is written for one recovery.
LEMMA Writing ==
    ASSUME NEW state, Write(state)
    PROVE  /\ Receipt(Recovery)' = state \/ run' # run \/ plan' # plan
           /\ receipt'[Recovery] = state
           /\ \A t : t # Recovery => /\ t \in DOMAIN receipt' <=> t \in DOMAIN receipt
                                     /\ receipt'[t] = receipt[t] \/ t \notin DOMAIN receipt'
  BY DEF Write, Put, Receipt, Recovery

\* The first receipt takes a recovery over; a plan that is found done says so.
LEMMA PrepareStep ==
    ASSUME CacheInv, Prepare
    PROVE  CacheInv'
<1> USE DEF Prepare, untouched
<1>1. run \in [pc : Steps, request : Request] /\ plan[run.request] # NoPlan /\ run.pc = "rooted"
  BY DEF CacheInv, Holder, Free
<1>2. UNCHANGED <<plan, payload, cache>>
  OBVIOUS
<1>3. CASE ~Applicable
  BY <1>3, OtherSteps DEF Release
<1>4. CASE Applicable /\ Destination(run.request) # NoDir
  <2>1. Write(Final) /\ run' = Free
    BY <1>4 DEF Release
  <2>2. Quarantining => Exact(Payload(Recovery), InventoryOf(Recovery))
    BY <1>4 DEF Applicable, Fits, Observed, Destination, Quarantining, Recovery
  <2>3. Final = "quarantined" => Quarantining
    BY DEF Final
  <2>4. QuarantineHoldsReviewed'
    BY <2>1, <2>2, <2>3, <1>2, Writing
       DEF CacheInv, QuarantineHoldsReviewed, Payload, Exact, Owned, InventoryOf
  <2> QED
    BY <2>1, <2>4, <1>2 DEF CacheInv, Holder, Underway, SeenExact, Free
<1>5. CASE Applicable /\ Destination(run.request) = NoDir
  <2>1. Write(Prepared) /\ run' = [run EXCEPT !.pc = "prepared"]
    BY <1>5 DEF Advance
  <2>2. run' \in [pc : Steps, request : Request] /\ run'.request = run.request /\ run'.pc = "prepared"
    BY <2>1, <1>1 DEF Steps
  <2>3. Recovery' = Recovery /\ Prepared' = Prepared /\ Prepared # "quarantined"
    BY <2>2, <1>2 DEF Recovery, Prepared, Quarantining
  <2>4. Receipt(Recovery)' = Prepared'
    BY <2>1, <2>3 DEF Write, Put, Receipt
  <2>5. QuarantineHoldsReviewed'
    BY <2>1, <2>3, <1>2, Writing
       DEF CacheInv, QuarantineHoldsReviewed, Payload, Exact, Owned, InventoryOf
  <2> QED
    BY <2>2, <2>4, <2>5, <1>1, <1>2 DEF CacheInv, Holder, Underway, SeenExact
<1> QED
  BY <1>3, <1>4, <1>5

\* A directory that is moved belongs to a recovery that is underway.
LEMMA MoveStep ==
    ASSUME CacheInv, Move
    PROVE  CacheInv'
<1> USE DEF Move, untouched
<1>1. /\ run \in [pc : Steps, request : Request] /\ plan[run.request] # NoPlan
      /\ run.pc = "prepared" /\ Receipt(Recovery) = Prepared
  BY DEF CacheInv, Holder, Underway, Free
<1>2. UNCHANGED <<plan, receipt>>
  OBVIOUS
<1>3. CASE ~(Unused(Destination(run.request)) /\ Source(run.request) # NoDir)
  BY <1>3, OtherSteps DEF Release
<1>4. CASE Unused(Destination(run.request)) /\ Source(run.request) # NoDir
  <2>1. /\ run' = [run EXCEPT !.pc = "moved"]
        /\ \E dir : payload' = Put(payload, Recovery, dir)
    BY <1>4 DEF Advance
  <2>2. run' \in [pc : Steps, request : Request] /\ run'.request = run.request /\ run'.pc = "moved"
    BY <2>1, <1>1 DEF Steps
  <2>3. Recovery' = Recovery /\ Prepared' = Prepared /\ Prepared # "quarantined"
    BY <2>2, <1>2 DEF Recovery, Prepared, Quarantining
  <2>4. \A t : t # Recovery => Payload(t)' = Payload(t)
    BY <2>1 DEF Put, Payload
  <2>5. \A t \in DOMAIN receipt : receipt[t] = "quarantined" => t # Recovery
    BY <1>1, <2>3 DEF Receipt
  <2>6. QuarantineHoldsReviewed'
    BY <2>4, <2>5, <1>2 DEF CacheInv, QuarantineHoldsReviewed, Exact, Owned, InventoryOf
  <2>7. Receipt(Recovery)' = Prepared'
    BY <2>3, <1>1, <1>2 DEF Receipt
  <2> QED
    BY <2>2, <2>6, <2>7, <1>1, <1>2 DEF CacheInv, Holder, Underway, SeenExact
<1> QED
  BY <1>3, <1>4

\* Only what has been seen to be exact gets the last receipt.
LEMMA SettlingSteps ==
    ASSUME CacheInv, Verify \/ Finish
    PROVE  CacheInv'
<1> USE DEF Verify, Finish, untouched
<1>1. /\ run \in [pc : Steps, request : Request] /\ plan[run.request] # NoPlan
      /\ run.pc \in {"moved", "verified"} /\ Receipt(Recovery) = Prepared
  BY DEF CacheInv, Holder, Underway, Free
<1>2. UNCHANGED <<plan, payload, cache>>
  OBVIOUS
<1>3. CASE Verify /\ run' = Free
  BY <1>3, OtherSteps
<1>4. CASE Verify /\ run' # Free
  <2>1. /\ UNCHANGED receipt /\ run' = [run EXCEPT !.pc = "verified"]
        /\ Exact(Destination(run.request), InventoryOf(Recovery))
    BY <1>4 DEF Advance, Release
  <2>2. /\ run' \in [pc : Steps, request : Request]
        /\ run'.request = run.request /\ run'.pc = "verified"
    BY <2>1, <1>1 DEF Steps
  <2>3. Recovery' = Recovery /\ Prepared' = Prepared /\ (Quarantining' <=> Quarantining)
    BY <2>2, <1>2 DEF Recovery, Prepared, Quarantining
  <2>4. Receipt(Recovery)' = Prepared'
    BY <2>1, <2>3, <1>1 DEF Receipt
  <2>5. SeenExact'
    BY <2>1, <2>3, <1>2
       DEF SeenExact, Destination, Quarantining, Recovery, Payload, Exact, Owned, InventoryOf
  <2>6. QuarantineHoldsReviewed'
    BY <2>1, <1>2 DEF CacheInv, QuarantineHoldsReviewed, Payload, Exact, Owned, InventoryOf
  <2> QED
    BY <2>2, <2>4, <2>5, <2>6, <1>1, <1>2 DEF CacheInv, Holder, Underway
<1>5. CASE Finish
  <2>1. Write(Final) /\ run' = Free
    BY <1>5 DEF Release
  <2>2. Final = "quarantined" => Exact(Payload(Recovery), InventoryOf(Recovery))
    BY <1>5 DEF CacheInv, SeenExact, Final
  <2>3. QuarantineHoldsReviewed'
    BY <2>1, <2>2, <1>2, Writing
       DEF CacheInv, QuarantineHoldsReviewed, Payload, Exact, Owned, InventoryOf
  <2> QED
    BY <2>1, <2>3, <1>2 DEF CacheInv, Holder, Underway, SeenExact, Free
<1> QED
  BY <1>3, <1>4, <1>5

\* The steps before the first receipt.
LEMMA OpeningSteps ==
    ASSUME CacheInv, (\E q \in Request : Start(q)) \/ OpenRoot \/ MarkRoot
    PROVE  CacheInv'
<1>1. UNCHANGED <<receipt, payload, plan>>
  BY DEF Start, OpenRoot, MarkRoot, untouched
<1>2. Holder' /\ run'.pc \notin {"prepared", "moved", "verified"}
  BY DEF CacheInv, Holder, Start, OpenRoot, MarkRoot, Advance, Release, Free, Steps, untouched
<1>3. QuarantineHoldsReviewed'
  BY <1>1 DEF CacheInv, QuarantineHoldsReviewed, Payload, Exact, Owned, InventoryOf
<1> QED
  BY <1>1, <1>2, <1>3 DEF CacheInv, Underway, SeenExact

LEMMA SessionSteps ==
    ASSUME NEW w \in Writer, Project(w) \/ Abandon(w) \/ KillWriter(w)
    PROVE  UNCHANGED <<receipt, payload, plan, run>>
  BY DEF Project, Abandon, KillWriter, Begin, MakeDirectory, WriteTemporary, Place,
     TakeInventory, Commit, others

LEMMA CacheStep ==
    ASSUME CacheInv, [CacheNext]_cacheVars
    PROVE  CacheInv'
<1>1. CASE \E w \in Writer : Project(w) \/ Abandon(w) \/ KillWriter(w)
  BY <1>1, SessionSteps, OtherSteps
<1>2. ASSUME NEW q \in Quarantine, PlanQuarantine(q)
      PROVE  CacheInv'
  BY <1>2, PlanningStep DEF PlanQuarantine, Request
<1>3. ASSUME NEW q \in Restore, PlanRestore(q)
      PROVE  CacheInv'
  BY <1>3, PlanningStep DEF PlanRestore, Request
<1>4. CASE \E q \in Request : Start(q)
  BY <1>4, OpeningSteps
<1>5. CASE Apply
  BY <1>5, OpeningSteps, PrepareStep, MoveStep, SettlingSteps DEF Apply
<1>6. CASE Interrupt \/ EditRegistry
  BY <1>6, OtherSteps DEF Interrupt, EditRegistry, Release
<1>7. CASE UNCHANGED cacheVars
  BY <1>7, OtherSteps DEF cacheVars
<1> QED
  BY <1>1, <1>2, <1>3, <1>4, <1>5, <1>6, <1>7 DEF CacheNext

LEMMA CacheStart == CacheInit => CacheInv
  BY DEF CacheInit, CacheInv, Holder, Underway, SeenExact, QuarantineHoldsReviewed, Free

\* What a receipt calls quarantined is the reviewed cache to the last member,
\* whatever sessions write and wherever a quarantine is killed
\* (registry_cache.py:155-170).
THEOREM QuarantinesAreExact == FairSpec => []QuarantineHoldsReviewed
<1>1. CacheInv => QuarantineHoldsReviewed
  BY DEF CacheInv
<1> QED
  BY CacheStart, CacheStep, <1>1, PTL DEF FairSpec

\* Once a restore has begun its receipt never goes back to a quarantine, and
\* the cache is not taken away again (registry_cache.py:139-143).
LEMMA RestoresHold ==
    ASSUME CacheInv, [CacheNext]_cacheVars, NEW t \in DOMAIN receipt,
           receipt[t] \in {"prepared-restore", "restored"}
    PROVE  /\ receipt'[t] \in {"prepared-restore", "restored"}
           /\ Payload(t) = NoDir => Payload(t)' = NoDir
<1>1. CASE UNCHANGED <<receipt, payload>>
  BY <1>1 DEF Payload
<1>2. CASE Prepare
  <2>1. UNCHANGED payload
    BY <1>2 DEF Prepare
  <2>2. CASE UNCHANGED receipt
    BY <2>1, <2>2, <1>1
  <2>3. CASE receipt' # receipt
    <3>1. Applicable /\ (Write(Final) \/ Write(Prepared))
      BY <1>2, <2>3 DEF Prepare
    <3>2. t = Recovery => ~Quarantining
      BY <3>1 DEF Applicable, Receipt
    <3> QED
      BY <3>1, <3>2, <2>1, Writing DEF Final, Prepared, Payload
  <2> QED
    BY <2>2, <2>3
<1>3. CASE Move
  <2>1. Receipt(Recovery) = Prepared /\ UNCHANGED receipt
    BY <1>3 DEF Move, CacheInv, Underway
  <2>2. t = Recovery => ~Quarantining
    BY <2>1 DEF Receipt, Prepared
  <2>3. UNCHANGED payload \/ payload' = Put(payload, Recovery, IF Quarantining THEN cache ELSE NoDir)
    BY <1>3 DEF Move
  <2>4. Payload(t) = NoDir => Payload(t)' = NoDir
    BY <2>2, <2>3 DEF Put, Payload
  <2> QED
    BY <2>1, <2>4
<1>4. CASE Finish
  <2>1. Receipt(Recovery) = Prepared /\ Write(Final) /\ UNCHANGED payload
    BY <1>4 DEF Finish, CacheInv, Underway
  <2>2. t = Recovery => ~Quarantining
    BY <2>1 DEF Receipt, Prepared
  <2> QED
    BY <2>1, <2>2, Writing DEF Final, Payload
<1>5. UNCHANGED <<receipt, payload>> \/ Prepare \/ Move \/ Finish
  BY SessionSteps DEF CacheNext, Apply, PlanQuarantine, PlanRestore, Start, OpenRoot, MarkRoot,
     Verify, Interrupt, EditRegistry, cacheVars, untouched
<1> QED
  BY <1>1, <1>2, <1>3, <1>4, <1>5

\* No repetition of an older plan takes back what a restore has begun.
THEOREM RestoresAreFinal == FairSpec => RestoreStands
<1>1. CacheInv /\ [CacheNext]_cacheVars =>
        [\A t \in DOMAIN receipt :
            receipt[t] \in {"prepared-restore", "restored"} =>
                /\ receipt'[t] \in {"prepared-restore", "restored"}
                /\ Payload(t) = NoDir => Payload(t)' = NoDir]_cacheVars
  BY RestoresHold
<1> QED
  BY CacheStart, CacheStep, <1>1, PTL DEF FairSpec, RestoreStands

=============================================================================
