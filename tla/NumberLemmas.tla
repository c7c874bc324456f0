---------------------------- MODULE NumberLemmas ----------------------------
(***************************************************************************)
(* Least numbers, induction and recursion up to a number, stated over sets *)
(* and functions: the library's theorems take predicates and operators,    *)
(* which the provers at hand cannot instantiate.                           *)
(***************************************************************************)
EXTENDS FiniteSetTheorems, TLAPS

\* Every set of natural numbers has a least one.
LEMMA LeastNumber ==
  ASSUME NEW T, T \subseteq Nat, T # {}
  PROVE  \E n \in T : \A m \in T : n <= m
  <1> DEFINE upto == {1..n : n \in T}
             R == StrictSubsetOrdering(Nat)
             F == FiniteSubsetsOf(Nat)
  <1>1. IsWellFoundedOn(R, F)
    BY FS_StrictSubsetOrderingWellFounded
  <1>2. ASSUME NEW n \in Nat PROVE 1..n \in F
    <2>1. IsFiniteSet(1..n)  BY FS_Interval
    <2> QED BY <2>1 DEF FiniteSubsetsOf
  <1>3. upto \subseteq F /\ upto # {}
    BY <1>2
  <1> HIDE DEF upto, R, F
  <1>4. PICK s \in upto : \A t \in upto : ~ (<<t, s>> \in R)
    BY <1>1, <1>3, WFMin
  <1>5. PICK n \in T : s = 1..n
    BY <1>4 DEF upto
  <1>6. ASSUME NEW m \in T, m < n PROVE FALSE
    <2>1. 1..m \in SUBSET Nat /\ 1..n \in SUBSET Nat /\ 1..m \subseteq 1..n
      BY <1>6
    <2>2. n \in 1..n /\ n \notin 1..m
      BY <1>6
    <2>3. <<1..m, 1..n>> \in R
      BY <2>1, <2>2 DEF R, StrictSubsetOrdering
    <2> QED BY <2>3, <1>4, <1>5 DEF upto
  <1> QED BY <1>6

\* Every set of natural numbers up to a bound has a greatest one.
LEMMA GreatestNumber ==
  ASSUME NEW k \in Nat, NEW T, T \subseteq 0..k, T # {}
  PROVE  \E n \in T : \A m \in T : n >= m
  <1> DEFINE U == {k - n : n \in T}
  <1>1. U \subseteq Nat
    <2>1. \A n \in T : k - n \in Nat
      OBVIOUS
    <2> QED BY <2>1
  <1>2. PICK u \in U : \A v \in U : u <= v
    BY <1>1, LeastNumber
  <1>3. PICK n \in T : u = k - n
    BY <1>2
  <1>4. ASSUME NEW m \in T PROVE n >= m
    <2>1. k - n <= k - m
      BY <1>2, <1>3
    <2> QED BY <2>1
  <1> QED BY <1>4

\* Induction up to a number.
LEMMA Induction ==
  ASSUME NEW k \in Nat, NEW S, 0 \in S, \A n \in 0..k : n \in S /\ n < k => n + 1 \in S
  PROVE  0..k \subseteq S
  <1> SUFFICES ASSUME (0..k) \ S # {} PROVE FALSE
    OBVIOUS
  <1>1. (0..k) \ S \subseteq Nat
    OBVIOUS
  <1>2. PICK n \in (0..k) \ S : \A m \in (0..k) \ S : n <= m
    BY <1>1, LeastNumber
  <1>3. n # 0 /\ n - 1 \in 0..k /\ n - 1 < k /\ ~ (n <= n - 1) /\ (n - 1) + 1 = n
    BY <1>2
  <1> QED BY <1>2, <1>3

\* Recursion up to a number: the values that the steps lead to from a.
Run(k, V, a, step) ==
  CHOOSE f \in [0..k -> V] : f[0] = a /\ \A n \in 1..k : f[n] = step[n][f[n - 1]]

LEMMA Recursion ==
  ASSUME NEW k \in Nat, NEW V, NEW a \in V, NEW step \in [1..k -> [V -> V]]
  PROVE  /\ Run(k, V, a, step) \in [0..k -> V]
         /\ Run(k, V, a, step)[0] = a
         /\ \A n \in 1..k : Run(k, V, a, step)[n] = step[n][Run(k, V, a, step)[n - 1]]
  <1> DEFINE S == {j \in 0..k : \E f \in [0..j -> V] :
                     f[0] = a /\ \A n \in 1..j : f[n] = step[n][f[n - 1]]}
  <1>1. 0 \in S
    <2> DEFINE f == [n \in 0..0 |-> a]
    <2>1. f \in [0..0 -> V] /\ 0 \in 0..k
      OBVIOUS
    <2>2. f[0] = a /\ \A n \in 1..0 : f[n] = step[n][f[n - 1]]
      OBVIOUS
    <2> HIDE DEF f
    <2> QED BY <2>1, <2>2
  <1>2. ASSUME NEW j \in 0..k, j \in S, j < k PROVE j + 1 \in S
    <2>1. PICK f \in [0..j -> V] : f[0] = a /\ \A n \in 1..j : f[n] = step[n][f[n - 1]]
      BY <1>2
    <2> DEFINE g == [n \in 0..j + 1 |-> IF n <= j THEN f[n] ELSE step[n][f[j]]]
    <2>2. f[j] \in V /\ j + 1 \in 1..k
      BY <1>2
    <2>3. step[j + 1][f[j]] \in V
      BY <2>2
    <2>4. g \in [0..j + 1 -> V]
      BY <2>3
    <2>5. g[0] = a
      BY <2>1
    <2>6. ASSUME NEW n \in 1..j + 1 PROVE g[n] = step[n][g[n - 1]]
      <3>1. n - 1 \in 0..j /\ g[n - 1] = f[n - 1]
        BY <2>6
      <3>2. CASE n <= j  BY <2>1, <3>1, <3>2
      <3>3. CASE n = j + 1  BY <3>1, <3>3
      <3> QED BY <3>2, <3>3
    <2> HIDE DEF g
    <2> QED BY <1>2, <2>4, <2>5, <2>6
  <1> HIDE DEF S
  <1>3. \A j \in 0..k : j \in S /\ j < k => j + 1 \in S
    BY <1>2
  <1>4. 0..k \subseteq S
    BY <1>1, <1>3, Induction
  <1>5. k \in S
    BY <1>4
  <1> QED BY <1>5 DEF S, Run
=============================================================================
