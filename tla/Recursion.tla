------------------------------ MODULE Recursion ------------------------------
(***************************************************************************)
(* Induction along an interval of integers, and the functions defined by   *)
(* recursion along one: lemmas without variables, which the proofs about   *)
(* averages, statistics and retry delays share.  They are first-order: a   *)
(* predicate is the set of the numbers that satisfy it, and a step is a    *)
(* function.                                                               *)
(***************************************************************************)
EXTENDS Integers, FiniteSetTheorems, WellFoundedInduction, TLAPS

(* A bounded set of integers that is not empty has a least element: there  *)
(* is no infinite descent in the sets of its smaller elements.             *)
LEMMA LeastElement ==
    ASSUME NEW lo \in Int, NEW hi \in Int, NEW S, S \subseteq lo..hi, S # {}
    PROVE  \E k \in S : \A j \in S : k <= j
<1> DEFINE Below(k) == {j \in S : j < k}
           R == StrictSubsetOrdering(lo..hi)
           T == {Below(k) : k \in S}
<1>1. IsFiniteSet(lo..hi)
  BY FS_Interval
<1>2. IsWellFoundedOn(R, SUBSET (lo..hi))
  BY <1>1, FS_StrictSubsetOrderingWellFounded, FS_FiniteSubsetsOfFinite
<1>3. T \subseteq SUBSET (lo..hi) /\ T # {}
  OBVIOUS
<1>4. PICK x \in T : \A y \in T : ~ (<<y, x>> \in R)
  <2> HIDE DEF T, R
  <2> QED BY <1>2, <1>3, WFMin
<1>5. PICK k \in S : x = Below(k)
  BY <1>4
<1>6. ASSUME NEW j \in S PROVE k <= j
  <2>1. j \in Int /\ k \in Int
    OBVIOUS
  <2> SUFFICES ASSUME j < k PROVE FALSE
    BY <2>1
  <2>2. j \in Below(k) /\ j \notin Below(j)
    BY <2>1
  <2>3. ASSUME NEW i \in Below(j) PROVE i \in Below(k)
    <3>1. i \in S /\ i \in Int /\ i < j
      OBVIOUS
    <3> QED BY <3>1, <2>1
  <2>4. Below(j) \subseteq Below(k) /\ Below(j) # Below(k)
    BY <2>2, <2>3
  <2>5. Below(j) \in SUBSET (lo..hi) /\ Below(k) \in SUBSET (lo..hi)
    OBVIOUS
  <2>6. <<Below(j), Below(k)>> \in R
    BY <2>4, <2>5 DEF StrictSubsetOrdering
  <2> QED BY <2>6, <1>4, <1>5
<1> QED BY <1>6

(* ... and a greatest one.                                                 *)
LEMMA GreatestElement ==
    ASSUME NEW lo \in Int, NEW hi \in Int, NEW S, S \subseteq lo..hi, S # {}
    PROVE  \E k \in S : \A j \in S : j <= k
<1> DEFINE N == {-k : k \in S}
<1>1. N \subseteq (-hi)..(-lo) /\ N # {} /\ -hi \in Int /\ -lo \in Int
  <2>1. ASSUME NEW k \in S PROVE -k \in (-hi)..(-lo)
    <3>1. k \in Int /\ lo <= k /\ k <= hi
      OBVIOUS
    <3> QED BY <3>1
  <2>2. N # {} /\ N \subseteq (-hi)..(-lo)
    BY <2>1
  <2> QED BY <2>2
<1>2. PICK m \in N : \A n \in N : m <= n
  <2> HIDE DEF N
  <2> QED BY <1>1, LeastElement
<1>3. PICK k \in S : m = -k
  OBVIOUS
<1>4. ASSUME NEW j \in S PROVE j <= k
  <2>1. j \in Int /\ k \in Int /\ -j \in N
    OBVIOUS
  <2> QED BY <1>2, <1>3, <2>1
<1> QED BY <1>4

(* A set that contains lo, and with each number the next, contains lo..hi. *)
THEOREM IntervalInduction ==
    ASSUME NEW lo \in Int, NEW hi \in Int, NEW T,
           lo \in T,
           \A i \in lo..(hi - 1) : i \in T => i + 1 \in T
    PROVE  \A i \in lo..hi : i \in T
<1> DEFINE F == {i \in lo..hi : i \notin T}
<1> SUFFICES ASSUME F # {} PROVE FALSE
  OBVIOUS
<1>1. PICK k \in F : \A j \in F : k <= j
  <2>1. F \subseteq lo..hi
    OBVIOUS
  <2> HIDE DEF F
  <2> QED BY <2>1, LeastElement
<1>2. k \in Int /\ lo <= k /\ k <= hi /\ k \notin T
  OBVIOUS
<1>3. k - 1 \in lo..(hi - 1) /\ k - 1 \notin F
  BY <1>1, <1>2
<1>4. k - 1 \in T
  BY <1>3
<1>5. (k - 1) + 1 \in T /\ (k - 1) + 1 = k
  BY <1>2, <1>3, <1>4
<1> QED BY <1>2, <1>5

(* At each position, step maps the values of S to values of S.             *)
IsStep(step, positions, S) == \A i \in positions : \A x \in S : step[i][x] \in S

(* s begins with base at lo and goes on by step.                           *)
Follows(s, lo, hi, base, step) ==
    /\ lo <= hi => s[lo] = base
    /\ \A i \in (lo + 1)..hi : s[i] = step[i][s[i - 1]]

(* A base and a step define a function on the interval.                    *)
THEOREM RecursiveFunctionExists ==
    ASSUME NEW lo \in Int, NEW hi \in Int, NEW S, NEW base \in S,
           NEW step, IsStep(step, (lo + 1)..hi, S)
    PROVE  \E s \in [lo..hi -> S] : Follows(s, lo, hi, base, step)
<1> USE DEF IsStep, Follows
<1> DEFINE Defines(s, k) == s[lo] = base /\ \A i \in (lo + 1)..k : s[i] = step[i][s[i - 1]]
           T == {k \in lo..hi : \E s \in [lo..k -> S] : Defines(s, k)}
<1>1. CASE hi < lo
  <2>1. lo..hi = {} /\ (lo + 1)..hi = {}
    BY <1>1
  <2>2. [i \in lo..hi |-> base] \in [lo..hi -> S]
    OBVIOUS
  <2> WITNESS [i \in lo..hi |-> base] \in [lo..hi -> S]
  <2> QED BY <1>1, <2>1
<1>2. CASE lo <= hi
  <2>1. lo \in T
    <3> DEFINE s == [i \in lo..lo |-> base]
    <3>1. s \in [lo..lo -> S] /\ Defines(s, lo) /\ lo \in lo..hi
      BY <1>2
    <3> QED BY <3>1
  <2>2. ASSUME NEW k \in lo..(hi - 1), k \in T PROVE k + 1 \in T
    <3>1. PICK s \in [lo..k -> S] : Defines(s, k)
      BY <2>2
    <3> DEFINE t == [i \in lo..(k + 1) |-> IF i <= k THEN s[i] ELSE step[k + 1][s[k]]]
    <3>2. k + 1 \in lo..hi /\ k \in lo..k /\ k + 1 \in (lo + 1)..hi /\ k \in Int
      OBVIOUS
    <3>3. step[k + 1][s[k]] \in S
      BY <3>1, <3>2
    <3>4. t \in [lo..(k + 1) -> S]
      <4>1. ASSUME NEW i \in lo..(k + 1) PROVE t[i] \in S
        BY <3>2, <3>3
      <4> QED BY <4>1
    <3>5. Defines(t, k + 1)
      <4>1. t[lo] = base
        BY <3>1
      <4>2. ASSUME NEW i \in (lo + 1)..(k + 1), i <= k PROVE t[i] = step[i][t[i - 1]]
        <5>1. /\ i \in (lo + 1)..k /\ i \in lo..(k + 1) /\ t[i] = s[i]
              /\ i - 1 \in lo..(k + 1) /\ i - 1 <= k /\ t[i - 1] = s[i - 1]
          BY <4>2
        <5>2. s[i] = step[i][s[i - 1]]
          BY <3>1, <5>1
        <5> HIDE DEF t
        <5> QED BY <5>1, <5>2
      <4>3. t[k + 1] = step[k + 1][t[k]] /\ (k + 1) - 1 = k
        <5>1. k \in lo..(k + 1) /\ k + 1 \in lo..(k + 1) /\ ~(k + 1 <= k) /\ (k + 1) - 1 = k
          BY <3>2
        <5>2. t[k] = s[k] /\ t[k + 1] = step[k + 1][s[k]]
          BY <5>1
        <5> QED BY <5>1, <5>2
      <4>4. \A i \in (lo + 1)..(k + 1) : i <= k \/ i = k + 1
        BY <3>2
      <4> QED BY <4>1, <4>2, <4>3, <4>4
    <3> HIDE DEF Defines, t
    <3> QED BY <3>2, <3>4, <3>5
  <2> HIDE DEF T
  <2>3. \A i \in lo..hi : i \in T
    BY <2>1, <2>2, IntervalInduction
  <2>4. hi \in T
    BY <2>3, <1>2
  <2> QED BY <2>4, <1>2 DEF T
<1> QED BY <1>1, <1>2

(* e goes on by step wherever its last value is one of S.                  *)
Obeys(e, lo, hi, S, base, step) ==
    /\ e = [i \in lo..hi |-> e[i]]
    /\ lo <= hi => e[lo] = base
    /\ \A i \in (lo + 1)..hi : e[i - 1] \in S => e[i] = step[i][e[i - 1]]

(* Such a function stays in S, so that it goes on by step throughout.      *)
THEOREM RecursiveFunctionTyped ==
    ASSUME NEW lo \in Int, NEW hi \in Int, NEW S, NEW base \in S,
           NEW step, IsStep(step, (lo + 1)..hi, S),
           NEW e, Obeys(e, lo, hi, S, base, step)
    PROVE  e \in [lo..hi -> S] /\ Follows(e, lo, hi, base, step)
<1> DEFINE T == {i \in lo..hi : e[i] \in S}
<1>1. CASE hi < lo
  <2>1. lo..hi = {} /\ (lo + 1)..hi = {}
    BY <1>1
  <2>2. e = [i \in lo..hi |-> e[i]]
    BY DEF Obeys
  <2> QED BY <1>1, <2>1, <2>2 DEF Follows
<1>2. CASE lo <= hi
  <2>1. lo \in T
    BY <1>2 DEF Obeys
  <2>2. ASSUME NEW i \in lo..(hi - 1), i \in T PROVE i + 1 \in T
    <3>1. i + 1 \in (lo + 1)..hi /\ i + 1 \in lo..hi /\ (i + 1) - 1 = i
      OBVIOUS
    <3>2. e[i + 1] = step[i + 1][e[i]] /\ e[i] \in S
      BY <2>2, <3>1 DEF Obeys
    <3> QED BY <3>1, <3>2 DEF IsStep
  <2> HIDE DEF T
  <2>3. \A i \in lo..hi : i \in T
    BY <2>1, <2>2, IntervalInduction
  <2>4. \A i \in lo..hi : e[i] \in S
    BY <2>3 DEF T
  <2>5. e \in [lo..hi -> S]
    BY <2>4 DEF Obeys
  <2>6. \A i \in (lo + 1)..hi : i - 1 \in lo..hi
    OBVIOUS
  <2> QED BY <2>4, <2>5, <2>6 DEF Obeys, Follows
<1> QED BY <1>1, <1>2
=============================================================================
