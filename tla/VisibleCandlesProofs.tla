------------------------ MODULE VisibleCandlesProofs ------------------------
(***************************************************************************)
(* The binary search of visible_candles is exact for every list, duration  *)
(* and instant.                                                            *)
(***************************************************************************)
EXTENDS VisibleCandles, TLAPS

(* An admissible list is a sequence of instants in ascending order. *)
LEMMA InputsAscend ==
    \A s \in Inputs : /\ Len(s) \in Nat
                      /\ s \in [1..Len(s) -> Times]
                      /\ Ascending(s)
<1> SUFFICES ASSUME NEW s \in Inputs
             PROVE  /\ Len(s) \in Nat
                    /\ s \in [1..Len(s) -> Times]
                    /\ Ascending(s)
  OBVIOUS
<1>1. PICK n \in 0..MaxCandles : s \in [1..n -> Times]
  BY DEF Inputs
<1>2. n \in Nat /\ DOMAIN s = 1..n
  BY <1>1, VisibleAssumption DEF VisibleAssumption
<1>3. s \in Seq(Times)
  BY <1>1, <1>2
<1>4. Len(s) = n
  BY <1>2, <1>3
<1> QED
  BY <1>1, <1>2, <1>4 DEF Inputs

(* The search begins with the whole list. *)
LEMMA InitialSearch == Init => VisibleInv
<1> SUFFICES ASSUME Init PROVE VisibleInv
  OBVIOUS
<1>1. Len(candles) \in Nat
  BY InputsAscend DEF Init
<1>2. TypeOK
  BY <1>1 DEF Init, TypeOK
<1>3. Partition
  BY <1>1 DEF Init, Partition
<1> QED
  BY <1>2, <1>3 DEF VisibleInv

(* The middle of a nonempty interval lies in it. *)
LEMMA MidInside ==
    ASSUME TypeOK, lo < hi
    PROVE  Mid \in Nat /\ lo <= Mid /\ Mid < hi
<1>1. lo \in Nat /\ hi \in Nat
  BY InputsAscend DEF TypeOK
<1> QED
  BY <1>1 DEF Mid

(* Both halvings keep the partition. *)
LEMMA SearchStepKeeps == VisibleInv /\ [Next]_visibleVars => VisibleInv'
<1> SUFFICES ASSUME VisibleInv, [Next]_visibleVars PROVE VisibleInv'
  OBVIOUS
<1>1. /\ TypeOK /\ Partition
      /\ Len(candles) \in Nat
      /\ candles \in [1..Len(candles) -> Times]
      /\ Ascending(candles)
      /\ lo \in Nat /\ hi \in Nat /\ hi <= Len(candles) /\ lo <= hi
      /\ duration \in Nat /\ at \in Nat
      /\ \A k \in 1..Len(candles) : candles[k] \in Nat
  <2>1. /\ TypeOK /\ Partition
        /\ candles \in Inputs /\ duration \in Durations /\ at \in Times
        /\ lo \in 0..Len(candles) /\ hi \in lo..Len(candles)
    BY DEF VisibleInv, TypeOK
  <2>2. /\ Len(candles) \in Nat
        /\ candles \in [1..Len(candles) -> Times]
        /\ Ascending(candles)
    BY <2>1, InputsAscend
  <2>3. duration \in Nat /\ at \in Nat /\ \A k \in 1..Len(candles) : candles[k] \in Nat
    BY <2>1, <2>2, VisibleAssumption DEF VisibleAssumption
  <2> QED
    BY <2>1, <2>2, <2>3
<1>2. CASE Right
  <2>1. Mid \in Nat /\ lo <= Mid /\ Mid < hi
    BY <1>1, <1>2, MidInside DEF Right
  <2>2. candles' = candles /\ duration' = duration /\ at' = at /\ hi' = hi /\ lo' = Mid + 1
    BY <1>2 DEF Right, input
  <2>3. candles[Mid + 1] + duration <= at
    BY <1>1, <1>2, <2>1 DEF Right, Before, Threshold
  <2>4. \A k \in 1..(Mid + 1) : candles[k] <= candles[Mid + 1]
    BY <1>1, <2>1 DEF Ascending
  <2>5. \A k \in 1..(Mid + 1) : candles[k] + duration <= at
    BY <1>1, <2>1, <2>3, <2>4
  <2>6. TypeOK'
    BY <1>1, <2>1, <2>2 DEF TypeOK
  <2>7. Partition'
    BY <1>1, <2>2, <2>5 DEF Partition
  <2> QED
    BY <2>6, <2>7 DEF VisibleInv
<1>3. CASE Left
  <2>1. Mid \in Nat /\ lo <= Mid /\ Mid < hi
    BY <1>1, <1>3, MidInside DEF Left
  <2>2. candles' = candles /\ duration' = duration /\ at' = at /\ lo' = lo /\ hi' = Mid
    BY <1>3 DEF Left, input
  <2>3. candles[Mid + 1] + duration > at
    BY <1>1, <1>3, <2>1 DEF Left, Before, Threshold
  <2>4. \A k \in (Mid + 1)..Len(candles) : candles[k] >= candles[Mid + 1]
    BY <1>1, <2>1 DEF Ascending
  <2>5. \A k \in (Mid + 1)..Len(candles) : candles[k] + duration > at
    BY <1>1, <2>1, <2>3, <2>4
  <2>6. TypeOK'
    BY <1>1, <2>1, <2>2 DEF TypeOK
  <2>7. Partition'
    BY <1>1, <2>2, <2>5 DEF Partition
  <2> QED
    BY <2>6, <2>7 DEF VisibleInv
<1>4. CASE UNCHANGED visibleVars
  <2>1. candles' = candles /\ duration' = duration /\ at' = at /\ lo' = lo /\ hi' = hi
    BY <1>4 DEF visibleVars, input
  <2> QED
    BY <1>1, <2>1 DEF VisibleInv, TypeOK, Partition
<1> QED
  BY <1>2, <1>3, <1>4 DEF Next

(* A partition whose interval is empty is exact. *)
LEMMA PartitionIsExact == VisibleInv => ExactlyTheClosed
<1> SUFFICES ASSUME VisibleInv, lo = hi, NEW k \in 1..Len(candles)
             PROVE  k \in DOMAIN Visible <=> candles[k] + duration <= at
  BY DEF ExactlyTheClosed
<1>1. /\ Len(candles) \in Nat
      /\ candles \in [1..Len(candles) -> Times]
      /\ lo \in 0..Len(candles)
      /\ duration \in Nat /\ at \in Nat /\ candles[k] \in Nat
  BY InputsAscend, VisibleAssumption DEF VisibleInv, TypeOK, VisibleAssumption
<1>2. candles \in Seq(Times)
  BY <1>1
<1>3. DOMAIN Visible = 1..lo
  BY <1>1, <1>2 DEF Visible
<1> QED
  BY <1>1, <1>3 DEF VisibleInv, Partition

(* The partition holds throughout the search. *)
THEOREM SearchInvariant == Spec => []VisibleInv
<1>1. Init => VisibleInv
  BY InitialSearch
<1>2. VisibleInv /\ [Next]_visibleVars => VisibleInv'
  BY SearchStepKeeps
<1> QED
  BY <1>1, <1>2, PTL DEF Spec

(* No look-ahead, nothing withheld: for every list, duration and instant.  *)
THEOREM NoLookAhead == Spec => []ExactlyTheClosed
BY SearchInvariant, PartitionIsExact, PTL

(* Every step at least halves the interval, so that a search over n        *)
(* candles ends after as many steps as n has binary digits                 *)
(* (visible_candles).                                                      *)
THEOREM SearchHalves == Spec => [][2 * (hi' - lo') <= hi - lo]_visibleVars
<1>1. ASSUME VisibleInv, Next PROVE 2 * (hi' - lo') <= hi - lo
  <2>1. lo \in Nat /\ hi \in Nat
    <3>1. candles \in Inputs /\ lo \in 0..Len(candles) /\ hi \in lo..Len(candles)
      BY <1>1 DEF VisibleInv, TypeOK
    <3>2. Len(candles) \in Nat
      BY <3>1, InputsAscend
    <3> QED BY ONLY <3>1, <3>2
  <2>2. lo < hi /\ ((lo' = Mid + 1 /\ hi' = hi) \/ (lo' = lo /\ hi' = Mid))
    <3>1. CASE Right
      BY <3>1 DEF Right, input
    <3>2. CASE Left
      BY <3>2 DEF Left, input
    <3> QED BY <1>1, <3>1, <3>2 DEF Next
  <2>3. Mid \in Nat /\ 2 * Mid <= lo + hi /\ lo + hi <= 2 * Mid + 1
    BY <2>1 DEF Mid
  <2> QED BY <2>1, <2>2, <2>3
<1>2. VisibleInv /\ [Next]_visibleVars => [2 * (hi' - lo') <= hi - lo]_visibleVars
  BY <1>1
<1> QED BY <1>2, SearchInvariant, PTL DEF Spec
=============================================================================
