------------------------- MODULE SignalEngineProofs -------------------------
(***************************************************************************)
(* What holds of the signal engine for every chart, price unit, period,    *)
(* threshold and verdict: the indicators never repaint, scores and         *)
(* confidences stay in their ranges, a signal is what the diagnostics page *)
(* shows, its levels come in order, and it changes side only under a split *)
(* 4h verdict; and a chart turned upside down gets the opposite verdict.   *)
(* The averages are recursive functions: module Recursion gives the        *)
(* induction that unfolds them.                                            *)
(***************************************************************************)
EXTENDS SignalEngine, SequenceTheorems, Recursion

-----------------------------------------------------------------------------
(* Averages.                                                               *)

(* What the averages are made of: a division of naturals is a natural.     *)
LEMMA Quotients ==
    ASSUME NEW S \in {Nat, Int}, NEW a \in S, NEW b \in Nat \ {0}
    PROVE  a \div b \in S
<1>1. CASE S = Nat
  BY <1>1
<1>2. CASE S = Int
  BY <1>2
<1> QED BY <1>1, <1>2

LEMMA Products ==
    ASSUME NEW S \in {Nat, Int}, NEW a \in S, NEW b \in Nat
    PROVE  a * b \in S /\ b * a \in S
<1>1. CASE S = Nat
  BY <1>1
<1>2. CASE S = Int
  BY <1>2
<1> QED BY <1>1, <1>2

LEMMA SumsOf ==
    ASSUME NEW S \in {Nat, Int}, NEW a \in S, NEW b \in S
    PROVE  a + b \in S /\ 0 \in S
<1>1. CASE S = Nat
  BY <1>1
<1>2. CASE S = Int
  BY <1>2
<1> QED BY <1>1, <1>2

(* s[i] is f[lo] + ... + f[i].                                             *)
ArePartialSums(s, f, lo, hi) ==
    s[lo - 1] = 0 /\ \A i \in lo..hi : s[i] = s[i - 1] + f[i]

(* SumOver is the last of the partial sums.                                *)
LEMMA PartialSums ==
    ASSUME NEW S \in {Nat, Int}, NEW lo \in Int, NEW hi \in Int, lo - 1 <= hi,
           NEW f, \A i \in lo..hi : f[i] \in S
    PROVE  \E s \in [(lo - 1)..hi -> S] :
              ArePartialSums(s, f, lo, hi) /\ SumOver(f, lo, hi) = s[hi]
<1> DEFINE Is(s) == s = [i \in (lo - 1)..hi |-> IF i < lo THEN 0 ELSE s[i - 1] + f[i]]
           step == [i \in lo..hi |-> [x \in S |-> x + f[i]]]
           sums == CHOOSE s : Is(s)
<1>1. PICK m \in Int : m = lo - 1 /\ m + 1 = lo
  OBVIOUS
<1>2. ASSUME NEW i \in (m + 1)..hi, NEW x \in S
      PROVE  step[i][x] = x + f[i] /\ step[i][x] \in S
  <2>1. i \in lo..hi /\ f[i] \in S
    BY <1>1
  <2> QED BY <2>1, SumsOf
<1> HIDE DEF step
<1>a. IsStep(step, (m + 1)..hi, S) /\ 0 \in S
  BY <1>2 DEF IsStep
<1>b. \A i \in (m + 1)..hi : i \in m..hi /\ i - 1 \in m..hi /\ ~(i < lo)
  BY <1>1
<1>3. PICK s \in [m..hi -> S] : s[m] = 0 /\ \A i \in (m + 1)..hi : s[i] = step[i][s[i - 1]]
  <2> HIDE DEF step
  <2>1. PICK s \in [m..hi -> S] : Follows(s, m, hi, 0, step)
    BY <1>a, RecursiveFunctionExists
  <2> QED BY <1>1, <2>1 DEF Follows
<1>4. \A i \in m..hi : s[i] = IF i < lo THEN 0 ELSE s[i - 1] + f[i]
  <2> SUFFICES ASSUME NEW i \in m..hi PROVE s[i] = IF i < lo THEN 0 ELSE s[i - 1] + f[i]
    OBVIOUS
  <2>1. CASE i = m
    BY <2>1, <1>1, <1>3
  <2>2. CASE i # m
    <3>1. i \in (m + 1)..hi
      BY <2>2, <1>1
    <3> QED BY <3>1, <1>b, <1>2, <1>3
  <2> QED BY <2>1, <2>2
<1>5. Is(s)
  BY <1>1, <1>4
<1>6. Is(sums)
  <2> HIDE DEF Is
  <2> QED BY <1>5
<1> HIDE DEF sums
<1>7. sums \in [m..hi -> S] /\ Follows(sums, m, hi, 0, step)
  <2>1. \A i \in m..hi : sums[i] = IF i < lo THEN 0 ELSE sums[i - 1] + f[i]
    BY <1>1, <1>6
  <2>2. sums = [i \in m..hi |-> sums[i]]
    BY <1>1, <1>6
  <2>3. sums[m] = 0
    BY <1>1, <2>1
  <2>4. ASSUME NEW i \in (m + 1)..hi, sums[i - 1] \in S PROVE sums[i] = step[i][sums[i - 1]]
    BY <2>1, <2>4, <1>b, <1>2
  <2>5. Obeys(sums, m, hi, S, 0, step)
    BY <2>2, <2>3, <2>4 DEF Obeys
  <2> QED BY <2>5, <1>a, RecursiveFunctionTyped
<1>8. SumOver(f, lo, hi) = sums[hi]
  BY DEF SumOver, sums
<1> HIDE DEF Is
<1>9. \A i \in (m + 1)..hi : sums[i] = sums[i - 1] + f[i]
  BY <1>7, <1>b, <1>2 DEF Follows
<1>10. sums[m] = 0
  BY <1>1, <1>7 DEF Follows
<1> QED BY <1>1, <1>7, <1>8, <1>9, <1>10 DEF ArePartialSums

(* The same of integers.                                                   *)
LEMMA IntegerSums ==
    ASSUME NEW lo \in Int, NEW hi \in Int, lo - 1 <= hi,
           NEW f, \A i \in lo..hi : f[i] \in Int
    PROVE  \E s \in [(lo - 1)..hi -> Int] :
              ArePartialSums(s, f, lo, hi) /\ SumOver(f, lo, hi) = s[hi]
<1>1. Int \in {Nat, Int}
  OBVIOUS
<1> QED BY <1>1, PartialSums, ZenonT(60)

LEMMA SumIn ==
    ASSUME NEW S \in {Nat, Int}, NEW lo \in Int, NEW hi \in Int, lo - 1 <= hi,
           NEW f, \A i \in lo..hi : f[i] \in S
    PROVE  SumOver(f, lo, hi) \in S
<1>1. hi \in (lo - 1)..hi
  OBVIOUS
<1> QED BY <1>1, PartialSums

(* EmaOver is a function on the positions from the first full window on    *)
(* that begins with a mean and goes on by NextEma.                         *)
LEMMA EmaEquations ==
    ASSUME NEW S \in {Nat, Int}, NEW lo \in Int, NEW hi \in Int, NEW length \in Nat \ {0},
           NEW f, \A i \in lo..hi : f[i] \in S
    PROVE  LET first == lo + length - 1
               e == EmaOver(f, lo, hi, length)
           IN  /\ e \in [first..hi -> S]
               /\ first <= hi => e[first] = SumOver(f, lo, first) \div length
               /\ \A i \in (first + 1)..hi : e[i] = NextEma(length, e[i - 1], f[i])
<1> DEFINE first == lo + length - 1
           seed == SumOver(f, lo, first) \div length
           Is(e) == e = [i \in first..hi |-> IF i = first THEN seed ELSE NextEma(length, e[i - 1], f[i])]
           step == [i \in (first + 1)..hi |-> [x \in S |-> NextEma(length, x, f[i])]]
           e == CHOOSE e : Is(e)
<1>1. PICK m \in Int : m = first /\ lo - 1 <= m /\ lo <= m
  OBVIOUS
<1>2. PICK base \in S : m <= hi => base = seed
  <2>1. CASE m <= hi
    <3>1. \A i \in lo..m : f[i] \in S
      BY <1>1, <2>1
    <3>2. SumOver(f, lo, m) \in S
      BY <1>1, <3>1, SumIn
    <3>3. seed \in S
      BY <1>1, <3>2, Quotients
    <3> QED BY <3>3
  <2>2. CASE ~(m <= hi)
    <3>1. 0 \in S
      OBVIOUS
    <3> QED BY <2>2, <3>1
  <2> QED BY <2>1, <2>2
<1> HIDE DEF seed
<1>3. ASSUME NEW i \in (m + 1)..hi, NEW x \in S
      PROVE  step[i][x] = NextEma(length, x, f[i]) /\ step[i][x] \in S
  <2>1. i \in lo..hi /\ f[i] \in S
    BY <1>1
  <2>2. 2 * f[i] \in S /\ (length - 1) * x \in S
    BY <2>1, Products
  <2>3. 2 * f[i] + (length - 1) * x \in S
    BY <2>2, SumsOf
  <2>4. NextEma(length, x, f[i]) \in S
    BY <2>3, Quotients DEF NextEma
  <2> QED BY <1>1, <2>4
<1> HIDE DEF step
<1>4. IsStep(step, (m + 1)..hi, S)
  BY <1>3 DEF IsStep
<1>5. \A i \in (m + 1)..hi : i \in m..hi /\ i - 1 \in m..hi /\ i # m
  BY <1>1
<1>6. PICK s \in [m..hi -> S] : Follows(s, m, hi, base, step)
  BY <1>4, RecursiveFunctionExists
<1>7. \A i \in m..hi : s[i] = IF i = m THEN seed ELSE NextEma(length, s[i - 1], f[i])
  <2> SUFFICES ASSUME NEW i \in m..hi
               PROVE  s[i] = IF i = m THEN seed ELSE NextEma(length, s[i - 1], f[i])
    OBVIOUS
  <2>1. CASE i = m
    BY <2>1, <1>2, <1>6 DEF Follows
  <2>2. CASE i # m
    <3>1. i \in (m + 1)..hi
      BY <2>2
    <3>2. s[i] = step[i][s[i - 1]] /\ s[i - 1] \in S
      BY <3>1, <1>5, <1>6 DEF Follows
    <3> QED BY <2>2, <3>1, <3>2, <1>3
  <2> QED BY <2>1, <2>2
<1>8. Is(s)
  BY <1>1, <1>7
<1>9. Is(e)
  <2> HIDE DEF Is
  <2> QED BY <1>8
<1> HIDE DEF e
<1>10. \A i \in m..hi : e[i] = IF i = m THEN seed ELSE NextEma(length, e[i - 1], f[i])
  BY <1>1, <1>9
<1>11. Obeys(e, m, hi, S, base, step)
  <2>1. e = [i \in m..hi |-> e[i]]
    BY <1>1, <1>9
  <2>2. m <= hi => e[m] = base
    BY <1>2, <1>10
  <2>3. ASSUME NEW i \in (m + 1)..hi, e[i - 1] \in S PROVE e[i] = step[i][e[i - 1]]
    BY <2>3, <1>3, <1>5, <1>10
  <2> QED BY <2>1, <2>2, <2>3 DEF Obeys
<1>12. e \in [m..hi -> S] /\ Follows(e, m, hi, base, step)
  BY <1>4, <1>11, RecursiveFunctionTyped
<1>13. m <= hi => e[m] = seed
  BY <1>2, <1>12 DEF Follows
<1>14. ASSUME NEW i \in (m + 1)..hi PROVE e[i] = NextEma(length, e[i - 1], f[i])
  BY <1>5, <1>10
<1>15. e = EmaOver(f, lo, hi, length)
  BY DEF EmaOver, e, seed
<1> HIDE DEF Is
<1> QED BY <1>1, <1>12, <1>13, <1>14, <1>15 DEF seed

(* So is WilderOver, by its own step.                                      *)
LEMMA WilderEquations ==
    ASSUME NEW S \in {Nat, Int}, NEW lo \in Int, NEW hi \in Int, NEW length \in Nat \ {0},
           NEW f, \A i \in lo..hi : f[i] \in S
    PROVE  LET first == lo + length - 1
               e == WilderOver(f, lo, hi, length)
           IN  /\ e \in [first..hi -> S]
               /\ first <= hi => e[first] = SumOver(f, lo, first) \div length
               /\ \A i \in (first + 1)..hi : e[i] = (e[i - 1] * (length - 1) + f[i]) \div length
<1> DEFINE first == lo + length - 1
           seed == SumOver(f, lo, first) \div length
           Is(e) == e = [i \in first..hi |-> IF i = first THEN seed ELSE (e[i - 1] * (length - 1) + f[i]) \div length]
           step == [i \in (first + 1)..hi |-> [x \in S |-> (x * (length - 1) + f[i]) \div length]]
           e == CHOOSE e : Is(e)
<1>1. PICK m \in Int : m = first /\ lo - 1 <= m /\ lo <= m
  OBVIOUS
<1>2. PICK base \in S : m <= hi => base = seed
  <2>1. CASE m <= hi
    <3>1. \A i \in lo..m : f[i] \in S
      BY <1>1, <2>1
    <3>2. SumOver(f, lo, m) \in S
      BY <1>1, <3>1, SumIn
    <3>3. seed \in S
      BY <1>1, <3>2, Quotients
    <3> QED BY <3>3
  <2>2. CASE ~(m <= hi)
    <3>1. 0 \in S
      OBVIOUS
    <3> QED BY <2>2, <3>1
  <2> QED BY <2>1, <2>2
<1> HIDE DEF seed
<1>3. ASSUME NEW i \in (m + 1)..hi, NEW x \in S
      PROVE  step[i][x] = (x * (length - 1) + f[i]) \div length /\ step[i][x] \in S
  <2>1. i \in lo..hi /\ f[i] \in S
    BY <1>1
  <2>2. x * (length - 1) \in S
    BY Products
  <2>3. x * (length - 1) + f[i] \in S
    BY <2>1, <2>2, SumsOf
  <2>4. (x * (length - 1) + f[i]) \div length \in S
    BY <2>3, Quotients
  <2> QED BY <1>1, <2>4
<1> HIDE DEF step
<1>4. IsStep(step, (m + 1)..hi, S)
  BY <1>3 DEF IsStep
<1>5. \A i \in (m + 1)..hi : i \in m..hi /\ i - 1 \in m..hi /\ i # m
  BY <1>1
<1>6. PICK s \in [m..hi -> S] : Follows(s, m, hi, base, step)
  BY <1>4, RecursiveFunctionExists
<1>7. \A i \in m..hi : s[i] = IF i = m THEN seed ELSE (s[i - 1] * (length - 1) + f[i]) \div length
  <2> SUFFICES ASSUME NEW i \in m..hi
               PROVE  s[i] = IF i = m THEN seed ELSE (s[i - 1] * (length - 1) + f[i]) \div length
    OBVIOUS
  <2>1. CASE i = m
    BY <2>1, <1>2, <1>6 DEF Follows
  <2>2. CASE i # m
    <3>1. i \in (m + 1)..hi
      BY <2>2
    <3>2. s[i] = step[i][s[i - 1]] /\ s[i - 1] \in S
      BY <3>1, <1>5, <1>6 DEF Follows
    <3> QED BY <2>2, <3>1, <3>2, <1>3
  <2> QED BY <2>1, <2>2
<1>8. Is(s)
  BY <1>1, <1>7
<1>9. Is(e)
  <2> HIDE DEF Is
  <2> QED BY <1>8
<1> HIDE DEF e
<1>10. \A i \in m..hi : e[i] = IF i = m THEN seed ELSE (e[i - 1] * (length - 1) + f[i]) \div length
  BY <1>1, <1>9
<1>11. Obeys(e, m, hi, S, base, step)
  <2>1. e = [i \in m..hi |-> e[i]]
    BY <1>1, <1>9
  <2>2. m <= hi => e[m] = base
    BY <1>2, <1>10
  <2>3. ASSUME NEW i \in (m + 1)..hi, e[i - 1] \in S PROVE e[i] = step[i][e[i - 1]]
    BY <2>3, <1>3, <1>5, <1>10
  <2> QED BY <2>1, <2>2, <2>3 DEF Obeys
<1>12. e \in [m..hi -> S] /\ Follows(e, m, hi, base, step)
  BY <1>4, <1>11, RecursiveFunctionTyped
<1>13. m <= hi => e[m] = seed
  BY <1>2, <1>12 DEF Follows
<1>14. ASSUME NEW i \in (m + 1)..hi PROVE e[i] = (e[i - 1] * (length - 1) + f[i]) \div length
  BY <1>5, <1>10
<1>15. e = WilderOver(f, lo, hi, length)
  BY DEF WilderOver, e, seed
<1> HIDE DEF Is
<1> QED BY <1>1, <1>12, <1>13, <1>14, <1>15 DEF seed

(* Values beyond hi do not matter to a sum up to hi.                       *)
LEMMA SumKeeps ==
    ASSUME NEW lo \in Int, NEW hi \in Int, lo - 1 <= hi,
           NEW f, \A i \in lo..hi : f[i] \in Int,
           NEW g, \A i \in lo..hi : g[i] = f[i]
    PROVE  SumOver(g, lo, hi) = SumOver(f, lo, hi)
<1>0. Int \in {Nat, Int} /\ \A i \in lo..hi : g[i] \in Int
  OBVIOUS
<1>a. ASSUME NEW F, \A i \in lo..hi : F[i] \in Int
      PROVE  \E s \in [(lo - 1)..hi -> Int] :
                ArePartialSums(s, F, lo, hi) /\ SumOver(F, lo, hi) = s[hi]
  BY <1>0, <1>a, PartialSums, ZenonT(30)
<1>1. PICK s \in [(lo - 1)..hi -> Int] :
         ArePartialSums(s, f, lo, hi) /\ SumOver(f, lo, hi) = s[hi]
  BY <1>a
<1>2. PICK t \in [(lo - 1)..hi -> Int] :
         ArePartialSums(t, g, lo, hi) /\ SumOver(g, lo, hi) = t[hi]
  BY <1>0, <1>a
<1> DEFINE T == {i \in (lo - 1)..hi : t[i] = s[i]}
<1>3. lo - 1 \in T /\ lo - 1 \in Int
  BY <1>1, <1>2 DEF ArePartialSums
<1>4. ASSUME NEW i \in (lo - 1)..(hi - 1), i \in T PROVE i + 1 \in T
  <2>1. i + 1 \in lo..hi /\ i + 1 \in (lo - 1)..hi /\ (i + 1) - 1 = i
    OBVIOUS
  <2> QED BY <1>1, <1>2, <1>4, <2>1 DEF ArePartialSums
<1>5. hi \in (lo - 1)..hi
  OBVIOUS
<1> HIDE DEF T
<1>6. hi \in T
  BY <1>3, <1>4, <1>5, IntervalInduction
<1> QED BY <1>1, <1>2, <1>6 DEF T

(* More values leave the averages of the earlier ones as they were.        *)
LEMMA EmaKeeps ==
    ASSUME NEW lo \in Int, NEW n \in Int, NEW m \in Int, n <= m, NEW length \in Nat \ {0},
           NEW f, \A i \in lo..n : f[i] \in Int,
           NEW g, \A i \in lo..m : g[i] \in Int, \A i \in lo..n : g[i] = f[i]
    PROVE  Keeps(EmaOver(f, lo, n, length), EmaOver(g, lo, m, length))
<1> DEFINE d == EmaOver(f, lo, n, length)
           e == EmaOver(g, lo, m, length)
           T == {i \in (lo + length - 1)..n : e[i] = d[i]}
<1>1. PICK first \in Int : first = lo + length - 1 /\ lo <= first
  OBVIOUS
<1>2. /\ d \in [first..n -> Int]
      /\ first <= n => d[first] = SumOver(f, lo, first) \div length
      /\ \A i \in (first + 1)..n : d[i] = NextEma(length, d[i - 1], f[i])
  BY <1>1, EmaEquations
<1>3. /\ e \in [first..m -> Int]
      /\ first <= m => e[first] = SumOver(g, lo, first) \div length
      /\ \A i \in (first + 1)..m : e[i] = NextEma(length, e[i - 1], g[i])
  BY <1>1, EmaEquations
<1> HIDE DEF d, e
<1>4. ASSUME NEW i \in first..n PROVE i \in T
  <2>1. first <= n /\ first <= m /\ first \in first..n
    OBVIOUS
  <2>2. \A j \in lo..first : f[j] \in Int /\ g[j] = f[j]
    BY <1>1, <2>1
  <2>3. SumOver(g, lo, first) = SumOver(f, lo, first)
    BY <1>1, <2>2, SumKeeps
  <2>4. first \in T
    BY <1>1, <1>2, <1>3, <2>1, <2>3
  <2>5. ASSUME NEW j \in first..(n - 1), j \in T PROVE j + 1 \in T
    <3>1. /\ j + 1 \in (first + 1)..n /\ j + 1 \in (first + 1)..m /\ j + 1 \in first..n
          /\ j + 1 \in lo..n /\ (j + 1) - 1 = j
      BY <1>1
    <3>2. e[j] = d[j] /\ g[j + 1] = f[j + 1]
      BY <2>5, <3>1
    <3> QED BY <1>1, <1>2, <1>3, <3>1, <3>2
  <2> HIDE DEF T
  <2> QED BY <2>4, <2>5, IntervalInduction
<1>5. first..n \subseteq first..m
  OBVIOUS
<1> QED BY <1>2, <1>3, <1>4, <1>5 DEF Keeps, d, e

(* The same of Wilder's smoothing.                                         *)
LEMMA WilderKeeps ==
    ASSUME NEW lo \in Int, NEW n \in Int, NEW m \in Int, n <= m, NEW length \in Nat \ {0},
           NEW f, \A i \in lo..n : f[i] \in Int,
           NEW g, \A i \in lo..m : g[i] \in Int, \A i \in lo..n : g[i] = f[i]
    PROVE  Keeps(WilderOver(f, lo, n, length), WilderOver(g, lo, m, length))
<1> DEFINE d == WilderOver(f, lo, n, length)
           e == WilderOver(g, lo, m, length)
           T == {i \in (lo + length - 1)..n : e[i] = d[i]}
<1>1. PICK first \in Int : first = lo + length - 1 /\ lo <= first
  OBVIOUS
<1>2. /\ d \in [first..n -> Int]
      /\ first <= n => d[first] = SumOver(f, lo, first) \div length
      /\ \A i \in (first + 1)..n : d[i] = (d[i - 1] * (length - 1) + f[i]) \div length
  BY <1>1, WilderEquations
<1>3. /\ e \in [first..m -> Int]
      /\ first <= m => e[first] = SumOver(g, lo, first) \div length
      /\ \A i \in (first + 1)..m : e[i] = (e[i - 1] * (length - 1) + g[i]) \div length
  BY <1>1, WilderEquations
<1> HIDE DEF d, e
<1>4. ASSUME NEW i \in first..n PROVE i \in T
  <2>1. first <= n /\ first <= m /\ first \in first..n
    OBVIOUS
  <2>2. \A j \in lo..first : f[j] \in Int /\ g[j] = f[j]
    BY <1>1, <2>1
  <2>3. SumOver(g, lo, first) = SumOver(f, lo, first)
    BY <1>1, <2>2, SumKeeps
  <2>4. first \in T
    BY <1>1, <1>2, <1>3, <2>1, <2>3
  <2>5. ASSUME NEW j \in first..(n - 1), j \in T PROVE j + 1 \in T
    <3>1. /\ j + 1 \in (first + 1)..n /\ j + 1 \in (first + 1)..m /\ j + 1 \in first..n
          /\ j + 1 \in lo..n /\ (j + 1) - 1 = j
      BY <1>1
    <3>2. e[j] = d[j] /\ g[j + 1] = f[j + 1]
      BY <2>5, <3>1
    <3> QED BY <1>1, <1>2, <1>3, <3>1, <3>2
  <2> HIDE DEF T
  <2> QED BY <2>4, <2>5, IntervalInduction
<1>5. first..n \subseteq first..m
  OBVIOUS
<1> QED BY <1>2, <1>3, <1>4, <1>5 DEF Keeps, d, e

-----------------------------------------------------------------------------
(* What a longer series leaves as it was.                                  *)

(* w goes on where the integers v end.                                     *)
Continues(v, w) ==
    /\ Len(v) \in Nat /\ Len(w) \in Nat /\ Len(v) <= Len(w)
    /\ \A i \in 1..Len(w) : w[i] \in Int
    /\ \A i \in 1..Len(v) : w[i] = v[i]

LEMMA EmaOfContinued ==
    ASSUME NEW v, NEW w, Continues(v, w), NEW length \in Nat \ {0}
    PROVE  Keeps(Ema(v, length), Ema(w, length))
<1>1. /\ 1 \in Int /\ Len(v) \in Int /\ Len(w) \in Int /\ Len(v) <= Len(w)
      /\ \A i \in 1..Len(v) : v[i] \in Int /\ w[i] = v[i]
      /\ \A i \in 1..Len(w) : w[i] \in Int
  BY DEF Continues
<1> QED BY <1>1, EmaKeeps DEF Ema

LEMMA RsiOfContinued ==
    ASSUME NEW v, NEW w, Continues(v, w)
    PROVE  Keeps(Rsi(v), Rsi(w))
<1> DEFINE change(x) == [i \in 2..Len(x) |-> x[i] - x[i - 1]]
           ups(x) == [i \in 2..Len(x) |-> Larger(change(x)[i], 0)]
           downs(x) == [i \in 2..Len(x) |-> Larger(-change(x)[i], 0)]
           gain(x) == WilderOver(ups(x), 2, Len(x), RsiLength)
           loss(x) == WilderOver(downs(x), 2, Len(x), RsiLength)
<1>1. /\ 2 \in Int /\ Len(v) \in Int /\ Len(w) \in Int /\ Len(v) <= Len(w)
      /\ RsiLength \in Nat \ {0}
  BY IndicatorsAssumption DEF Continues
<1>2. \A i \in 2..Len(w) : change(w)[i] \in Int
  BY DEF Continues
<1>3. \A i \in 2..Len(v) : i \in 2..Len(w) /\ change(w)[i] = change(v)[i]
  BY DEF Continues
<1>4. \A i \in 2..Len(w) : ups(w)[i] \in Int /\ downs(w)[i] \in Int
  <2> HIDE DEF change
  <2> QED BY <1>2 DEF Larger
<1>5. \A i \in 2..Len(v) :
         /\ ups(v)[i] \in Int /\ ups(w)[i] = ups(v)[i]
         /\ downs(v)[i] \in Int /\ downs(w)[i] = downs(v)[i]
  <2> SUFFICES ASSUME NEW i \in 2..Len(v)
               PROVE  ups(w)[i] = ups(v)[i] /\ downs(w)[i] = downs(v)[i]
    BY <1>3, <1>4
  <2> HIDE DEF change
  <2> QED BY <1>3
<1> HIDE DEF ups, downs, change
<1>6. Keeps(gain(v), gain(w))
  BY <1>1, <1>4, <1>5, WilderKeeps
<1>7. Keeps(loss(v), loss(w))
  BY <1>1, <1>4, <1>5, WilderKeeps
<1>8. DOMAIN gain(v) = (RsiLength + 1)..Len(v) /\ DOMAIN loss(v) = (RsiLength + 1)..Len(v)
  <2>1. Int \in {Nat, Int} /\ 2 + RsiLength - 1 = RsiLength + 1
    BY <1>1
  <2>2. \A i \in 2..Len(v) : ups(v)[i] \in Int /\ downs(v)[i] \in Int
    BY <1>5
  <2> QED BY <1>1, <2>1, <2>2, WilderEquations
<1>9. /\ Rsi(v) = [i \in (RsiLength + 1)..Len(v) |-> RsiFrom(gain(v)[i], loss(v)[i])]
      /\ Rsi(w) = [i \in (RsiLength + 1)..Len(w) |-> RsiFrom(gain(w)[i], loss(w)[i])]
  BY DEF Rsi, ups, downs, change
<1> HIDE DEF gain, loss
<1>10. (RsiLength + 1)..Len(v) \subseteq (RsiLength + 1)..Len(w)
  BY <1>1
<1>11. \A i \in (RsiLength + 1)..Len(v) :
          gain(w)[i] = gain(v)[i] /\ loss(w)[i] = loss(v)[i]
  BY <1>6, <1>7, <1>8 DEF Keeps
<1>12. DOMAIN Rsi(v) = (RsiLength + 1)..Len(v) /\ DOMAIN Rsi(w) = (RsiLength + 1)..Len(w)
  BY <1>9
<1>13. ASSUME NEW i \in (RsiLength + 1)..Len(v) PROVE Rsi(w)[i] = Rsi(v)[i]
  <2>1. i \in (RsiLength + 1)..Len(w)
    BY <1>10
  <2>2. Rsi(w)[i] = RsiFrom(gain(w)[i], loss(w)[i])
    BY <1>9, <2>1
  <2>3. Rsi(v)[i] = RsiFrom(gain(v)[i], loss(v)[i])
    BY <1>9
  <2> QED BY <1>11, <2>2, <2>3
<1> QED BY <1>10, <1>12, <1>13 DEF Keeps

(* The MACD line of integers. *)
LEMMA MacdLineOf ==
    ASSUME NEW v, Len(v) \in Nat, \A i \in 1..Len(v) : v[i] \in Int
    PROVE  \A i \in MacdSlow..Len(v) : MacdLine(v)[i] \in Int
<1>1. /\ 1 \in Int /\ Int \in {Nat, Int} /\ Len(v) \in Int
      /\ MacdFast \in Nat \ {0} /\ MacdSlow \in Nat \ {0} /\ MacdFast < MacdSlow
      /\ 1 + MacdFast - 1 = MacdFast /\ 1 + MacdSlow - 1 = MacdSlow
  BY IndicatorsAssumption
<1>2. Ema(v, MacdFast) \in [(1 + MacdFast - 1)..Len(v) -> Int]
  BY <1>1, EmaEquations DEF Ema
<1>3. Ema(v, MacdSlow) \in [(1 + MacdSlow - 1)..Len(v) -> Int]
  BY <1>1, EmaEquations DEF Ema
<1>4. MacdSlow..Len(v) \subseteq MacdFast..Len(v)
  BY <1>1
<1>5. ASSUME NEW i \in MacdSlow..Len(v) PROVE MacdLine(v)[i] \in Int
  <2>1. Ema(v, MacdFast)[i] \in Int /\ Ema(v, MacdSlow)[i] \in Int
    BY <1>1, <1>2, <1>3, <1>4
  <2>2. MacdLine(v)[i] = Ema(v, MacdFast)[i] - Ema(v, MacdSlow)[i]
    BY DEF MacdLine
  <2> QED BY <2>1, <2>2
<1> QED BY <1>5

LEMMA MacdOfContinued ==
    ASSUME NEW v, NEW w, Continues(v, w)
    PROVE  Keeps(MacdHistogram(v), MacdHistogram(w))
<1> DEFINE line(x) == EmaOver(MacdLine(x), MacdSlow, Len(x), MacdSignal)
           from == MacdSlow + MacdSignal - 1
<1>1. /\ Len(v) \in Int /\ Len(w) \in Int /\ Len(v) <= Len(w) /\ Int \in {Nat, Int}
      /\ MacdFast \in Nat \ {0} /\ MacdSlow \in Nat \ {0} /\ MacdSignal \in Nat \ {0}
      /\ MacdSlow \in Int /\ MacdFast < MacdSlow
  BY IndicatorsAssumption DEF Continues
<1>2. \A i \in MacdSlow..Len(w) : MacdLine(w)[i] \in Int
  BY MacdLineOf DEF Continues
<1>3. \A i \in MacdSlow..Len(v) : MacdLine(v)[i] \in Int
  BY MacdLineOf DEF Continues
<1>4. \A i \in MacdSlow..Len(v) : MacdLine(w)[i] = MacdLine(v)[i]
  <2>1. Keeps(Ema(v, MacdFast), Ema(w, MacdFast)) /\ Keeps(Ema(v, MacdSlow), Ema(w, MacdSlow))
    BY <1>1, EmaOfContinued
  <2>2. \A i \in 1..Len(v) : v[i] \in Int
    BY DEF Continues
  <2>3. 1 \in Int /\ 1 + MacdFast - 1 = MacdFast /\ 1 + MacdSlow - 1 = MacdSlow
    BY <1>1
  <2>4. DOMAIN Ema(v, MacdFast) = (1 + MacdFast - 1)..Len(v)
    BY <1>1, <2>2, <2>3, EmaEquations DEF Ema
  <2>5. DOMAIN Ema(v, MacdSlow) = (1 + MacdSlow - 1)..Len(v)
    BY <1>1, <2>2, <2>3, EmaEquations DEF Ema
  <2>6. \A i \in MacdSlow..Len(v) : i \in MacdFast..Len(v) /\ i \in MacdSlow..Len(w)
    BY <1>1
  <2> QED BY <2>1, <2>3, <2>4, <2>5, <2>6 DEF Keeps, MacdLine
<1>5. Keeps(line(v), line(w))
  BY <1>1, <1>2, <1>3, <1>4, EmaKeeps
<1>6. DOMAIN line(v) = from..Len(v)
  BY <1>1, <1>3, EmaEquations
<1>7. /\ MacdHistogram(v) = [i \in from..Len(v) |-> MacdLine(v)[i] - line(v)[i]]
      /\ MacdHistogram(w) = [i \in from..Len(w) |-> MacdLine(w)[i] - line(w)[i]]
  BY DEF MacdHistogram
<1> HIDE DEF line
<1>8. \A i \in from..Len(v) : i \in from..Len(w) /\ i \in MacdSlow..Len(v)
  BY <1>1
<1> HIDE DEF from
<1> QED BY <1>4, <1>5, <1>6, <1>7, <1>8 DEF Keeps

(* A true range is an integer that is not negative.                        *)
LEMMA TrueRangeIn ==
    ASSUME NEW high, NEW low, NEW close, NEW i,
           high[i] \in Int, low[i] \in Int, close[i - 1] \in Int
    PROVE  TrueRange(high, low, close, i) \in Nat
<1> DEFINE a == high[i] - low[i]  b == high[i] - close[i - 1]  c == low[i] - close[i - 1]
<1>1. a \in Int /\ b \in Int /\ c \in Int
  OBVIOUS
<1>2. TrueRange(high, low, close, i) = Larger(a, Larger(Abs(b), Abs(c)))
  BY DEF TrueRange
<1> HIDE DEF a, b, c
<1>3. Abs(b) \in Nat /\ Abs(c) \in Nat
  BY <1>1 DEF Abs, Larger
<1>4. Larger(Abs(b), Abs(c)) \in Nat
  BY <1>3 DEF Larger
<1>5. Larger(a, Larger(Abs(b), Abs(c))) \in Nat
  <2> DEFINE d == Larger(Abs(b), Abs(c))
  <2>1. d \in Nat
    BY <1>4
  <2> HIDE DEF d
  <2>2. Larger(a, d) \in Nat
    BY <1>1, <2>1 DEF Larger
  <2> QED BY <2>2 DEF d
<1> QED BY <1>2, <1>5

LEMMA AtrOfContinued ==
    ASSUME NEW h, NEW l, NEW c, NEW h2, NEW l2, NEW c2,
           Continues(h, h2), Continues(l, l2), Continues(c, c2),
           Len(h) = Len(c), Len(l) = Len(c), Len(h2) = Len(c2), Len(l2) = Len(c2)
    PROVE  Keeps(Atr(h, l, c), Atr(h2, l2, c2))
<1> DEFINE range(x, y, z) == [i \in 2..Len(z) |-> TrueRange(x, y, z, i)]
<1>1. 2 \in Int /\ Len(c) \in Int /\ Len(c2) \in Int /\ Len(c) <= Len(c2) /\ AtrLength \in Nat \ {0}
  BY IndicatorsAssumption DEF Continues
<1>2. ASSUME NEW i \in 2..Len(c2) PROVE range(h2, l2, c2)[i] \in Int
  <2>1. h2[i] \in Int /\ l2[i] \in Int /\ c2[i - 1] \in Int
    BY <1>1 DEF Continues
  <2> QED BY <2>1, TrueRangeIn
<1>3. ASSUME NEW i \in 2..Len(c)
      PROVE  range(h2, l2, c2)[i] = range(h, l, c)[i] /\ range(h, l, c)[i] \in Int
  <2>1. i \in 2..Len(c2)
    BY <1>1
  <2>2. h2[i] = h[i] /\ l2[i] = l[i] /\ c2[i - 1] = c[i - 1]
    <3>1. i \in 1..Len(h) /\ i \in 1..Len(l) /\ i - 1 \in 1..Len(c)
      BY <1>1
    <3> QED BY <3>1 DEF Continues
  <2>3. range(h2, l2, c2)[i] = range(h, l, c)[i]
    BY <2>1, <2>2 DEF TrueRange
  <2> QED BY <2>1, <2>3, <1>2
<1> HIDE DEF range
<1>4. Keeps(WilderOver(range(h, l, c), 2, Len(c), AtrLength),
            WilderOver(range(h2, l2, c2), 2, Len(c2), AtrLength))
  BY <1>1, <1>2, <1>3, WilderKeeps
<1> QED BY <1>4 DEF Atr, range

(* Appending to a series leaves its swings as they were, except at the     *)
(* position that gets its last right-hand neighbour.                       *)
LEMMA SwingsOfAppended ==
  ASSUME NEW v, NEW w, Len(v) \in Nat, Len(w) = Len(v) + 1,
         \A i \in 1..Len(v) : w[i] = v[i]
  PROVE  /\ SwingHighs(w) \ {Len(w) - FractalHalf} = SwingHighs(v)
         /\ SwingLows(w) \ {Len(w) - FractalHalf} = SwingLows(v)
<1> DEFINE n == Len(v)  h == FractalHalf
<1>1. h \in Nat \ {0} /\ n \in Nat
  BY AnalysisAssumption
<1>2. ((h + 1)..(Len(w) - h)) \ {Len(w) - h} = (h + 1)..(n - h)
  <2> HIDE DEF h
  <2> QED
    BY <1>1
<1>3. ASSUME NEW i \in (h + 1)..(n - h)
      PROVE  w[i] = v[i] /\ \A k \in 1..h : w[i - k] = v[i - k] /\ w[i + k] = v[i + k]
  <2> HIDE DEF h
  <2>1. i \in 1..n /\ \A k \in 1..h : i - k \in 1..n /\ i + k \in 1..n
    BY <1>1
  <2> QED
    BY <2>1
<1>4. SwingHighs(w) \ {Len(w) - h} = SwingHighs(v)
  <2> DEFINE Is(x, i) == \A k \in 1..h : x[i - k] < x[i] /\ x[i + k] < x[i]
  <2>1. \A i \in (h + 1)..(n - h) : Is(w, i) <=> Is(v, i)
    BY <1>3
  <2>2. /\ SwingHighs(w) = {i \in (h + 1)..(Len(w) - h) : Is(w, i)}
        /\ SwingHighs(v) = {i \in (h + 1)..(n - h) : Is(v, i)}
    BY DEF SwingHighs
  <2> HIDE DEF h, n, Is
  <2> QED
    BY <1>2, <2>1, <2>2
<1>5. SwingLows(w) \ {Len(w) - h} = SwingLows(v)
  <2> DEFINE Is(x, i) == \A k \in 1..h : x[i - k] > x[i] /\ x[i + k] > x[i]
  <2>1. \A i \in (h + 1)..(n - h) : Is(w, i) <=> Is(v, i)
    BY <1>3
  <2>2. /\ SwingLows(w) = {i \in (h + 1)..(Len(w) - h) : Is(w, i)}
        /\ SwingLows(v) = {i \in (h + 1)..(n - h) : Is(v, i)}
    BY DEF SwingLows
  <2> HIDE DEF h, n, Is
  <2> QED
    BY <1>2, <2>1, <2>2
<1> QED
  BY <1>4, <1>5

-----------------------------------------------------------------------------
(* Verdicts.                                                               *)

(* The counts of three votes. *)
LEMMA VerdictOfVotes ==
    ASSUME NEW dirs
    PROVE  MajorityDirection(dirs) \in Directions
BY DEF MajorityDirection, Directions

LEMMA TrendTyped ==
    ASSUME NEW close
    PROVE  /\ AnalyzeTrend(close).direction \in Directions /\ AnalyzeTrend(close).score \in 0..25
           /\ "direction" \in DOMAIN AnalyzeTrend(close)
<1>1. NoTrend.direction \in Directions /\ NoTrend.score \in 0..25
  BY DEF NoTrend, Directions, Neutral
<1>2. ASSUME NEW price, NEW e20, NEW e50, NEW e200, NEW up
      PROVE  /\ Votes(price, e20, e50, e200, up).direction \in Directions
             /\ Votes(price, e20, e50, e200, up).score \in 0..25
  <2>1. \A bulls, bears : TrendDirection(bulls, bears) \in Directions
    BY DEF TrendDirection, Directions
  <2> DEFINE span == Larger(e20, Larger(e50, e200)) - Smaller(e20, Smaller(e50, e200))
             bulls == Count(<<price > e200, e20 > e50, e50 > e200>>)
             bears == Count(<<price < e200, e20 < e50, e50 < e200>>)
             direction == TrendDirection(bulls, bears)
             full == 3 \in {bulls, bears}
             sloped == up = (direction = Bullish)
             points == (IF full THEN 22 ELSE 8) + (IF sloped THEN 3 ELSE 0)
  <2>2. points \in 0..25 /\ direction \in Directions
    BY <2>1
  <2>3. Votes(price, e20, e50, e200, up) =
           IF BelowBp(span, RangingBp, e200)
           THEN [NoTrend EXCEPT !.ema20 = e20, !.ranging = TRUE]
           ELSE [direction |-> direction,
                 score |-> IF direction = Neutral THEN 0 ELSE points,
                 ema20 |-> e20, ranging |-> FALSE]
    BY DEF Votes
  <2> HIDE DEF points, direction, span
  <2>4. CASE BelowBp(span, RangingBp, e200)
    BY <1>1, <2>3, <2>4 DEF NoTrend
  <2>5. CASE ~BelowBp(span, RangingBp, e200)
    BY <2>2, <2>3, <2>5
  <2> QED BY <2>4, <2>5
<1>3. "direction" \in DOMAIN AnalyzeTrend(close)
  BY DEF AnalyzeTrend, Votes, NoTrend
<1> QED BY <1>1, <1>2, <1>3 DEF AnalyzeTrend

LEMMA MomentumTyped ==
    ASSUME NEW close
    PROVE  AnalyzeMomentum(close).direction \in Directions /\ AnalyzeMomentum(close).score \in 0..20
<1>1. ASSUME NEW rsi, NEW macd, NEW hist
      PROVE  /\ Agreement(rsi, macd, hist).direction \in Directions
             /\ Agreement(rsi, macd, hist).score \in 0..20
  BY DEF Agreement, Directions
<1> QED BY <1>1 DEF AnalyzeMomentum, Directions

LEMMA StructureTyped ==
    ASSUME NEW high, NEW low, NEW close
    PROVE  /\ AnalyzeStructure(high, low, close).direction \in Directions
           /\ AnalyzeStructure(high, low, close).score \in 0..20
<1>1. ASSUME NEW sh, NEW sl, NEW price
      PROVE  /\ Swings(sh, sl, high, low, price).direction \in Directions
             /\ Swings(sh, sl, high, low, price).score \in 0..20
  BY DEF Swings, Directions
<1> QED BY <1>1 DEF AnalyzeStructure, Directions

LEMMA LevelsTyped ==
    ASSUME NEW high, NEW low, NEW close, NEW direction \in Directions
    PROVE  AnalyzeSupportResistance(high, low, close, direction).score \in 0..15
<1>1. ASSUME NEW behind, NEW ahead, NEW price, NEW atr
      PROVE  LevelScore(behind, ahead, price, atr) \in 0..15
  BY DEF LevelScore
<1>2. ASSUME NEW support, NEW resistance, NEW price, NEW atr
      PROVE  Nearest(support, resistance, price, atr, direction).score \in 0..15
  BY <1>1 DEF Nearest, Directions, Bullish, Bearish, Neutral
<1>3. NoSupportResistance.score \in 0..15
  BY DEF NoSupportResistance
<1> QED BY <1>2, <1>3 DEF AnalyzeSupportResistance, SupportResistance

LEMMA VolatilityTyped ==
    ASSUME NEW high, NEW low, NEW close
    PROVE  /\ AnalyzeVolatility(high, low, close).score \in 0..10
           /\ AnalyzeVolatility(high, low, close).atr =
                IF Len(close) < VolatilityHistory THEN NaN
                ELSE Atr(high, low, close)[Len(close)]
<1>1. ASSUME NEW atr, NEW price
      PROVE  VolatilityOf(atr, price).score \in 0..10 /\ VolatilityOf(atr, price).atr = atr
  BY DEF VolatilityOf
<1> QED BY <1>1 DEF AnalyzeVolatility

(* The ATR of the last candle of a chart that has enough of them.          *)
LEMMA AtrTyped ==
    ASSUME NEW high, NEW low, NEW close, Len(close) \in Nat, Len(close) >= AtrLength + 1,
           \A i \in 1..Len(close) : high[i] \in Int /\ low[i] \in Int /\ close[i] \in Int
    PROVE  Atr(high, low, close)[Len(close)] \in Nat
<1> DEFINE range == [i \in 2..Len(close) |-> TrueRange(high, low, close, i)]
<1>1. /\ Nat \in {Nat, Int} /\ 2 \in Int /\ Len(close) \in Int /\ AtrLength \in Nat \ {0}
      /\ Len(close) \in (2 + AtrLength - 1)..Len(close)
  BY IndicatorsAssumption
<1>2. ASSUME NEW i \in 2..Len(close) PROVE range[i] \in Nat
  <2>1. high[i] \in Int /\ low[i] \in Int /\ close[i - 1] \in Int
    OBVIOUS
  <2> QED BY <2>1, TrueRangeIn
<1> HIDE DEF range
<1>3. WilderOver(range, 2, Len(close), AtrLength) \in [(2 + AtrLength - 1)..Len(close) -> Nat]
  BY <1>1, <1>2, WilderEquations
<1>4. WilderOver(range, 2, Len(close), AtrLength)[Len(close)] \in Nat
  BY <1>1, <1>3
<1> QED BY <1>4 DEF Atr, range

(* A verdict: its direction and its trend's, its points, its price and its *)
(* ATR.                                                                    *)
IsVerdict(a) ==
    /\ {"direction", "trend"} \subseteq DOMAIN a /\ "direction" \in DOMAIN a.trend
    /\ {a.direction, a.trend.direction} \subseteq Directions
    /\ a.score \in 0..90
    /\ a.price \in Nat
    /\ a.volatility.atr \in Nat

THEOREM AnalyzeGivesVerdict ==
    ASSUME NEW c \in Charts
    PROVE  IsVerdict(Analyze(c))
<1> DEFINE high == Highs(c)  low == Lows(c)  close == Closes(c)
           trend == AnalyzeTrend(close)
           momentum == AnalyzeMomentum(close)
           structure == AnalyzeStructure(high, low, close)
           volatility == AnalyzeVolatility(high, low, close)
           direction == MajorityDirection(
                            <<trend.direction, momentum.direction, structure.direction>>)
           sr == AnalyzeSupportResistance(high, low, close, direction)
           n == Len(close)
<1>1. /\ Len(c) \in Nat \ {0} /\ n = Len(c)
      /\ \A i \in 1..n : high[i] \in Nat /\ low[i] \in Nat /\ close[i] \in Nat
  <2>1. c \in Seq(Candle) /\ c # <<>>
    BY DEF Charts
  <2>2. Len(c) \in Nat /\ Len(c) # 0 /\ \A i \in 1..Len(c) : c[i] \in Candle
    <3> HIDE DEF Candle
    <3> QED BY <2>1
  <2>3. n = Len(c)
    BY <2>2 DEF Closes
  <2> QED BY <2>2, <2>3 DEF Closes, Highs, Lows, Candle
<1>2. Analyze(c) = Total(close[n], trend, momentum, structure, volatility, direction, sr)
  BY DEF Analyze, AnalyzeSeries, Combine
<1> HIDE DEF high, low, close
<1>3. /\ trend.score \in 0..25 /\ momentum.score \in 0..20 /\ structure.score \in 0..20
      /\ trend.direction \in Directions /\ "direction" \in DOMAIN trend
  BY TrendTyped, MomentumTyped, StructureTyped
<1>4. direction \in Directions
  BY VerdictOfVotes
<1>5. sr.score \in 0..15 /\ volatility.score \in 0..10
  <2> HIDE DEF direction
  <2> QED BY <1>4, LevelsTyped, VolatilityTyped
<1>6. volatility.atr \in Nat
  <2>1. CASE n < VolatilityHistory
    BY <2>1, VolatilityTyped DEF NaN
  <2>2. CASE ~(n < VolatilityHistory)
    <3>a. AtrLength \in Nat /\ VolatilityHistory \in Nat /\ AtrLength + 1 <= VolatilityHistory
      BY AnalysisAssumption, IndicatorsAssumption
    <3>1. /\ n \in Nat /\ n >= AtrLength + 1
          /\ \A i \in 1..n : high[i] \in Int /\ low[i] \in Int /\ close[i] \in Int
      <4> HIDE DEF n
      <4> QED BY <3>a, <1>1, <2>2
    <3>2. Atr(high, low, close)[n] \in Nat
      BY <1>1, <3>1, AtrTyped
    <3> QED BY <2>2, <3>2, VolatilityTyped
  <2> QED BY <2>1, <2>2
<1>7. close[n] \in Nat
  BY <1>1
<1> HIDE DEF trend, momentum, structure, volatility, direction, sr, n
<1> QED BY <1>2, <1>3, <1>4, <1>5, <1>6, <1>7 DEF Total, IsVerdict

(* Every variable is a function of the charts: the signal is the one of    *)
(* the current verdicts, and they are verdicts.                            *)
Current ==
    /\ chart \in Charts
    /\ DOMAIN others \subseteq {"4h", "1h", "5m"}
    /\ \A tf \in DOMAIN others : IsVerdict(others[tf])
    /\ analysis = Analyze(chart)
    /\ signal = GenerateSignal(AnalysesOf(analysis))

(* The inductive invariant under the theorems of this module.              *)
THEOREM CurrentAlways == Spec => []Current
<1>1. Init => Current
  <2> SUFFICES ASSUME Init PROVE Current
    OBVIOUS
  <2>1. PICK o \in Others : others = [tf \in DOMAIN o |-> Analyze(o[tf])]
    BY DEF Init
  <2>2. DOMAIN o \subseteq {"4h", "1h", "5m"} /\ \A tf \in DOMAIN o : o[tf] \in Charts
    BY EngineAssumption
  <2>3. \A tf \in DOMAIN others : IsVerdict(others[tf])
    BY <2>1, <2>2, AnalyzeGivesVerdict
  <2>4. chart \in Charts
    BY EngineAssumption DEF Init
  <2> QED BY <2>1, <2>2, <2>3, <2>4 DEF Init, Current
<1>2. Current /\ [Next]_vars => Current'
  <2> SUFFICES ASSUME Current, [Next]_vars PROVE Current'
    OBVIOUS
  <2>1. ASSUME NEW candle \in Candles, CloseCandle(candle) PROVE Current'
    <3>1. chart' \in Charts
      <4>1. chart' = Append(chart, candle) /\ candle \in Candle /\ chart \in Seq(Candle)
        BY <2>1, EngineAssumption DEF CloseCandle, Current, Charts
      <4> HIDE DEF Candle
      <4>2. chart' \in Seq(Candle) /\ Len(chart') = Len(chart) + 1 /\ Len(chart) \in Nat
        BY <4>1, AppendProperties
      <4> QED BY <4>2 DEF Charts
    <3> QED BY <2>1, <3>1 DEF CloseCandle, Current, AnalysesOf
  <2>2. CASE UNCHANGED vars
    BY <2>2 DEF vars, Current, AnalysesOf
  <2> QED BY <2>1, <2>2 DEF Next
<1> QED BY <1>1, <1>2, PTL DEF Spec

-----------------------------------------------------------------------------
(* Signals.                                                                *)

(* The major timeframe names the side of the gate by its verdict.          *)
LEMMA GateSide ==
  ASSUME NEW analyses, MultiTimeframeGate(analyses) # "WAIT"
  PROVE  /\ "4h" \in DOMAIN analyses
         /\ analyses["4h"].direction # Neutral
         /\ MultiTimeframeGate(analyses) = Side(analyses["4h"].direction)
BY DEF MultiTimeframeGate, GateTimeframes

(* ... and the side of a pullback by its trend.                            *)
LEMMA PullbackSide ==
  ASSUME NEW analyses, CheckPullback(analyses) # "none"
  PROVE  /\ "4h" \in DOMAIN analyses
         /\ \/ CheckPullback(analyses) = "BUY" /\ analyses["4h"].trend.direction = Bullish
            \/ CheckPullback(analyses) = "SELL" /\ analyses["4h"].trend.direction = Bearish
<1>1. {"4h", "15m"} \subseteq DOMAIN analyses
  BY DEF CheckPullback
<1> DEFINE setup == analyses["15m"]
           down == NearEma20(setup) /\ analyses["4h"].trend.direction = Bullish
                     /\ RsiBelow(setup.momentum.rsi, 40)
           up == NearEma20(setup) /\ analyses["4h"].trend.direction = Bearish
                   /\ RsiAbove(setup.momentum.rsi, 60)
<1>2. CheckPullback(analyses) = IF down THEN "BUY" ELSE IF up THEN "SELL" ELSE "none"
  BY <1>1 DEF CheckPullback
<1>3. CASE down
  <2>1. analyses["4h"].trend.direction = Bullish
    BY <1>3
  <2> HIDE DEF down, up
  <2> QED
    BY <1>1, <1>2, <1>3, <2>1
<1>4. CASE ~down /\ up
  <2>1. analyses["4h"].trend.direction = Bearish
    BY <1>4
  <2> HIDE DEF down, up
  <2> QED
    BY <1>1, <1>2, <1>4, <2>1
<1> HIDE DEF down, up
<1> QED
  BY <1>2, <1>3, <1>4

LEMMA SignalSide ==
  ASSUME NEW analyses
  PROVE  GenerateSignal(analyses).direction =
           IF MultiTimeframeGate(analyses) # "WAIT" THEN MultiTimeframeGate(analyses)
           ELSE IF CheckPullback(analyses) = "none" THEN "WAIT"
           ELSE CheckPullback(analyses)
<1> DEFINE gate == MultiTimeframeGate(analyses)
           pullback == CheckPullback(analyses)
<1>1. CASE gate # "WAIT"
  <2>1. gate # "none"
    BY DEF MultiTimeframeGate, Side
  <2> QED
    BY <1>1, <2>1 DEF GenerateSignal
<1>2. CASE gate = "WAIT" /\ pullback = "none"
  BY <1>2 DEF GenerateSignal
<1>3. CASE gate = "WAIT" /\ pullback # "none"
  BY <1>3 DEF GenerateSignal
<1> QED
  BY <1>1, <1>2, <1>3

(* Two signals of opposite sides under the same 4h verdict need a split.   *)
LEMMA OppositeSides ==
  ASSUME NEW a1, NEW a2, NEW major, major.direction \in Directions,
         "4h" \in DOMAIN a1 => a1["4h"] = major,
         "4h" \in DOMAIN a2 => a2["4h"] = major,
         GenerateSignal(a1).direction = "BUY",
         GenerateSignal(a2).direction = "SELL"
  PROVE  major.direction = -major.trend.direction
<1> DEFINE G1 == MultiTimeframeGate(a1)  G2 == MultiTimeframeGate(a2)
           P1 == CheckPullback(a1)       P2 == CheckPullback(a2)
<1>1. \/ G1 # "WAIT" /\ G1 = "BUY" /\ major.direction = Bullish
      \/ G1 = "WAIT" /\ P1 = "BUY" /\ major.trend.direction = Bullish
  <2>1. CASE G1 # "WAIT"
    BY <2>1, GateSide, SignalSide DEF Side
  <2>2. CASE G1 = "WAIT"
    BY <2>2, PullbackSide, SignalSide
  <2> QED
    BY <2>1, <2>2
<1>2. \/ G2 # "WAIT" /\ G2 = "SELL" /\ major.direction = Bearish
      \/ G2 = "WAIT" /\ P2 = "SELL" /\ major.trend.direction = Bearish
  <2>1. CASE G2 # "WAIT"
    BY <2>1, GateSide, SignalSide DEF Side, Directions
  <2>2. CASE G2 = "WAIT"
    BY <2>2, PullbackSide, SignalSide
  <2> QED
    BY <2>1, <2>2
<1> QED
  BY <1>1, <1>2 DEF Bullish, Bearish

(* A 15m candle turns a signal round only under a split 4h verdict.        *)
THEOREM SidesAreStable == Spec => FlipNeedsSplit
<1> DEFINE Flip == {signal.direction, signal'.direction} = {"BUY", "SELL"} =>
                      others["4h"].direction = -others["4h"].trend.direction
<1>1. Current /\ Current' /\ [Next]_vars => [Flip]_vars
  <2> SUFFICES ASSUME Current, Current', [Next]_vars,
                      {signal.direction, signal'.direction} = {"BUY", "SELL"}
               PROVE  others["4h"].direction = -others["4h"].trend.direction
    OBVIOUS
  <2> DEFINE a1 == AnalysesOf(analysis)  a2 == AnalysesOf(analysis)'
  <2>1. others' = others
    BY DEF Next, CloseCandle, vars
  <2>2. /\ DOMAIN a1 = DOMAIN others \cup {"15m"}
        /\ DOMAIN a2 = DOMAIN others \cup {"15m"}
        /\ "4h" \in DOMAIN others => a1["4h"] = others["4h"] /\ a2["4h"] = others["4h"]
    BY <2>1 DEF AnalysesOf
  <2>3. /\ GenerateSignal(a1).direction = signal.direction
        /\ GenerateSignal(a2).direction = signal'.direction
    BY DEF Current
  <2>4. signal.direction # "WAIT"
    OBVIOUS
  <2>5. "4h" \in DOMAIN others
    BY <2>2, <2>3, <2>4, GateSide, PullbackSide, SignalSide
  <2>6. others["4h"].direction \in Directions
    BY <2>5 DEF Current, IsVerdict
  <2>7. CASE signal.direction = "BUY" /\ signal'.direction = "SELL"
    BY <2>2, <2>3, <2>5, <2>6, <2>7, OppositeSides
  <2>8. CASE signal.direction = "SELL" /\ signal'.direction = "BUY"
    BY <2>2, <2>3, <2>5, <2>6, <2>8, OppositeSides
  <2> QED
    BY <2>7, <2>8
<1> QED
  BY <1>1, CurrentAlways, PTL DEF Spec, FlipNeedsSplit

-----------------------------------------------------------------------------
(* Levels and confidence.                                                  *)

(* An ATR is an integer as soon as the chart's prices are.                 *)
LEMMA LevelsOfSide ==
  ASSUME NEW side \in {"BUY", "SELL"}, NEW price \in Int, NEW atr \in Int
  PROVE  LET l == LevelsOf(side, price, atr)
             entry == 2 * price
         IN  /\ side = "BUY" /\ atr > 0 =>
                  l.stop < entry /\ l.entry = entry /\ entry < l.target1 /\ l.target1 < l.target2
             /\ side = "SELL" /\ atr > 0 =>
                  l.stop > entry /\ l.entry = entry /\ entry > l.target1 /\ l.target1 > l.target2
             /\ atr <= 0 => {l.stop, l.entry, l.target1, l.target2} = {entry}
<1>1. CASE atr <= 0
  BY <1>1 DEF LevelsOf
<1>2. CASE atr > 0 /\ side = "BUY"
  BY <1>2 DEF LevelsOf
<1>3. CASE atr > 0 /\ side = "SELL"
  BY <1>3 DEF LevelsOf
<1> QED
  BY <1>1, <1>2, <1>3

(* The levels of a signal are those of its own price and ATR.              *)
LEMMA LevelsOfSignal ==
  ASSUME NEW analyses
  PROVE  LET s == GenerateSignal(analyses)
             setup == analyses["15m"]
         IN  /\ s.direction = "WAIT" => s.levels = NoLevels
             /\ s.direction # "WAIT" =>
                   /\ s.direction \in {"BUY", "SELL"}
                   /\ s.levels = LevelsOf(s.direction, setup.price, setup.volatility.atr)
<1>1. MultiTimeframeGate(analyses) \in {"WAIT", "BUY", "SELL"}
  BY DEF MultiTimeframeGate, Side
<1>2. CheckPullback(analyses) \in {"none", "BUY", "SELL"}
  BY DEF CheckPullback
<1> QED
  BY <1>1, <1>2 DEF GenerateSignal

(* The levels of every signal come in the order of its side.               *)
THEOREM LevelsAreInOrder == Spec => []LevelsInOrder
<1>1. Current => LevelsInOrder
  <2> SUFFICES ASSUME Current PROVE LevelsInOrder
    OBVIOUS
  <2> DEFINE a == AnalysesOf(analysis)
  <2>1. a["15m"] = analysis /\ GenerateSignal(a) = signal
    BY DEF AnalysesOf, Current
  <2> HIDE DEF a
  <2>2. /\ signal.direction = "WAIT" => signal.levels = NoLevels
        /\ signal.direction # "WAIT" =>
              /\ signal.direction \in {"BUY", "SELL"}
              /\ signal.levels = LevelsOf(signal.direction, analysis.price,
                                          analysis.volatility.atr)
    BY <2>1, LevelsOfSignal
  <2>3. CASE signal.direction = "WAIT"
    BY <2>2, <2>3 DEF LevelsInOrder
  <2>4. CASE signal.direction # "WAIT"
    <3> DEFINE l == LevelsOf(signal.direction, analysis.price, analysis.volatility.atr)
               entry == 2 * analysis.price
    <3>1. signal.direction \in {"BUY", "SELL"} /\ signal.levels = l
      BY <2>2, <2>4
    <3>2. analysis.price \in Int /\ analysis.volatility.atr \in Int
      BY AnalyzeGivesVerdict DEF Current, IsVerdict
    <3>3. /\ signal.direction = "BUY" /\ analysis.volatility.atr > 0 =>
               l.stop < entry /\ l.entry = entry /\ entry < l.target1 /\ l.target1 < l.target2
          /\ signal.direction = "SELL" /\ analysis.volatility.atr > 0 =>
               l.stop > entry /\ l.entry = entry /\ entry > l.target1 /\ l.target1 > l.target2
          /\ analysis.volatility.atr <= 0 =>
               {l.stop, l.entry, l.target1, l.target2} = {entry}
      BY <3>1, <3>2, LevelsOfSide
    <3> HIDE DEF l
    <3> QED
      BY <2>4, <3>1, <3>3 DEF LevelsInOrder
  <2> QED
    BY <2>3, <2>4
<1> QED
  BY <1>1, CurrentAlways, PTL

(* The confidence of a signal is the blend and the score of its levels.    *)
LEMMA ConfidenceOfSignal ==
    ASSUME NEW analyses
    PROVE  LET s == GenerateSignal(analyses)
               setup == analyses["15m"]
               levels == LevelsOf(s.direction, setup.price, setup.volatility.atr)
           IN  /\ s.direction = "WAIT" => s.confidence = 0
               /\ s.direction # "WAIT" =>
                     /\ s.direction \in {"BUY", "SELL"}
                     /\ s.confidence = BlendedScore(analyses) + RiskRewardScore(levels)
<1>1. MultiTimeframeGate(analyses) \in {"WAIT", "BUY", "SELL"}
  BY DEF MultiTimeframeGate, Side
<1>2. CheckPullback(analyses) \in {"none", "BUY", "SELL"}
  BY DEF CheckPullback
<1> QED BY <1>1, <1>2 DEF GenerateSignal

(* x points over weights of w, to the half up, in hundredths.              *)
MeanScore(x, w) == (200 * x + w) \div (2 * w)

LEMMA MeanScoreIn ==
    ASSUME NEW w \in Nat \ {0}, NEW x \in Nat, x <= 90 * w
    PROVE  MeanScore(x, w) \in Nat /\ MeanScore(x, w) <= 9000
<1> DEFINE q == (200 * x + w) \div (2 * w)
<1>1. q \in Int /\ 2 * w * q <= 200 * x + w /\ 200 * x + w < 2 * w * (q + 1)
  OBVIOUS
<1>2. 0 <= q
  BY <1>1
<1>3. q <= 9000
  BY <1>1
<1>4. MeanScore(x, w) = q
  BY DEF MeanScore
<1>5. q \in Int
  BY <1>1
<1> HIDE DEF q
<1> QED BY <1>2, <1>3, <1>4, <1>5

(* A weighted mean of scores is no more than the largest of them.          *)
LEMMA BlendIn ==
    ASSUME NEW analyses, "15m" \in DOMAIN analyses,
           \A tf \in DOMAIN Weight \cap DOMAIN analyses : analyses[tf].score \in 0..90
    PROVE  BlendedScore(analyses) \in Nat /\ BlendedScore(analyses) <= 9000
<1> DEFINE weight == [tf \in DOMAIN Weight |-> IF tf \in DOMAIN analyses THEN Weight[tf] ELSE 0]
           points == [tf \in DOMAIN Weight |->
                        IF weight[tf] = 0 THEN 0 ELSE weight[tf] * analyses[tf].score]
           weights == OverTimeframes(weight)
           sum == OverTimeframes(points)
<1>1. /\ DOMAIN Weight = {"4h", "1h", "15m", "5m"}
      /\ Weight["4h"] = 40 /\ Weight["1h"] = 30 /\ Weight["15m"] = 20 /\ Weight["5m"] = 10
  BY DEF Weight
<1>2. /\ weight["4h"] \in {0, 40} /\ weight["1h"] \in {0, 30}
      /\ weight["15m"] = 20 /\ weight["5m"] \in {0, 10}
  BY <1>1
<1>3. ASSUME NEW tf \in DOMAIN Weight
      PROVE  points[tf] \in Int /\ 0 <= points[tf] /\ points[tf] <= 90 * weight[tf]
  <2>1. CASE weight[tf] = 0
    BY <2>1
  <2>2. CASE weight[tf] # 0
    <3>1. tf \in DOMAIN analyses /\ weight[tf] = Weight[tf]
      BY <2>2
    <3>2. analyses[tf].score \in 0..90
      BY <3>1
    <3>3. weight[tf] \in {40, 30, 20, 10}
      BY <1>1, <3>1
    <3>4. points[tf] = weight[tf] * analyses[tf].score
      BY <2>2
    <3> HIDE DEF weight, points
    <3> QED BY <3>2, <3>3, <3>4
  <2> QED BY <2>1, <2>2
<1> HIDE DEF weight, points
<1>4. /\ weights = weight["4h"] + weight["1h"] + weight["15m"] + weight["5m"]
      /\ sum = points["4h"] + points["1h"] + points["15m"] + points["5m"]
  BY DEF OverTimeframes
<1> HIDE DEF weights, sum
<1>5. weights \in {20, 30, 50, 60, 70, 90, 100} /\ weights \in 20..100
  BY <1>2, <1>4
<1>6. sum \in Int /\ 0 <= sum /\ sum <= 90 * weights
  BY <1>1, <1>2, <1>3, <1>4
<1>7. MeanScore(sum, weights) \in Nat /\ MeanScore(sum, weights) <= 9000
  <2>1. weights \in Nat \ {0} /\ sum \in Nat /\ sum <= 90 * weights
    BY <1>5, <1>6
  <2> QED BY <2>1, MeanScoreIn
<1>8. BlendedScore(analyses) = MeanScore(sum, weights)
  BY DEF BlendedScore, sum, weights, points, weight, MeanScore
<1> QED BY <1>7, <1>8

(* The levels always promise two risks of reward, or none without an ATR.  *)
LEMMA RiskRewardOf ==
    ASSUME NEW side \in {"BUY", "SELL"}, NEW price \in Nat, NEW atr \in Nat
    PROVE  RiskRewardScore(LevelsOf(side, price, atr)) = IF atr = 0 THEN 0 ELSE 667
<1> DEFINE levels == LevelsOf(side, price, atr)
           risk == Abs(levels.entry - levels.stop)
           reward == Abs(levels.target1 - levels.entry)
           rr == (100 * reward) \div risk
<1>1. risk = 3 * atr /\ reward = 6 * atr
  <2>1. PICK up \in Int : /\ levels.entry = 2 * price /\ levels.stop = 2 * price - 3 * up
                          /\ levels.target1 = 2 * price + 6 * up /\ up \in {atr, -atr}
    BY DEF LevelsOf
  <2> HIDE DEF levels
  <2>2. levels.entry - levels.stop = 3 * up /\ levels.target1 - levels.entry = 6 * up
    BY <2>1
  <2> QED BY <2>1, <2>2 DEF Abs, Larger
<1>2. RiskRewardScore(levels) =
        IF risk = 0 \/ rr < 100 THEN 0
        ELSE IF rr >= 250 THEN 1000
        ELSE (2000 * (rr - 100) + 150) \div 300
  BY DEF RiskRewardScore
<1> HIDE DEF levels, risk, reward
<1>3. CASE atr = 0
  <2> HIDE DEF rr
  <2>1. risk = 0
    BY <1>1, <1>3
  <2> QED BY <1>2, <1>3, <2>1 DEF levels
<1>4. CASE atr # 0
  <2>1. (100 * (6 * atr)) \div (3 * atr) = 200
    <3>1. PICK k \in Int : k = 3 * atr /\ k > 0 /\ 100 * (6 * atr) = 200 * k
      BY <1>4
    <3>2. (200 * k) \div k = 200
      BY <3>1
    <3>3. (100 * (6 * atr)) \div (3 * atr) = (200 * k) \div k
      BY <3>1
    <3> QED BY <3>2, <3>3
  <2>2. rr = 200
    BY <1>1, <2>1
  <2>3. 3 * atr # 0
    BY <1>4
  <2> HIDE DEF rr
  <2> QED BY <1>1, <1>2, <1>4, <2>2, <2>3 DEF levels
<1> QED BY <1>3, <1>4

-----------------------------------------------------------------------------
(* The two that need all of it.                                            *)

(* Nothing that was computed for the candles before it is changed by a new *)
(* candle: averages, RSI, MACD and ATR keep every earlier value, and only  *)
(* the swing that it confirms can appear.                                  *)
THEOREM NeverRepaints == Spec => NoRepaint
<1> DEFINE was == Closes(chart)  is == Closes(chart')
           confirmed == {Len(chart') - FractalHalf}
           Stays == /\ \A length \in {EmaFast, EmaMiddle, EmaSlow} :
                          Keeps(Ema(was, length), Ema(is, length))
                    /\ Keeps(Rsi(was), Rsi(is))
                    /\ Keeps(MacdHistogram(was), MacdHistogram(is))
                    /\ Keeps(Atr(Highs(chart), Lows(chart), was), Atr(Highs(chart'), Lows(chart'), is))
                    /\ SwingHighs(Highs(chart')) \ confirmed = SwingHighs(Highs(chart))
                    /\ SwingLows(Lows(chart')) \ confirmed = SwingLows(Lows(chart))
<1>1. Current /\ [Next]_vars => [Stays]_vars
  <2> SUFFICES ASSUME Current, Next PROVE Stays
    OBVIOUS
  <2>1. PICK candle \in Candles : chart' = Append(chart, candle)
    BY DEF Next, CloseCandle
  <2>2. /\ Len(chart) \in Nat /\ Len(chart') = Len(chart) + 1
        /\ \A i \in 1..Len(chart) : chart'[i] = chart[i]
        /\ \A i \in 1..Len(chart') : chart'[i] \in Candle
    <3>1. chart \in Seq(Candle) /\ candle \in Candle
      BY EngineAssumption DEF Current, Charts
    <3> HIDE DEF Candle
    <3>2. chart' \in Seq(Candle)
      BY <2>1, <3>1, AppendProperties
    <3> QED BY <2>1, <3>1, <3>2, AppendProperties, ElementOfSeq
  <2>3. /\ Len(Highs(chart)) = Len(chart) /\ Len(Highs(chart')) = Len(chart')
        /\ \A i \in 1..Len(chart) : Highs(chart')[i] = Highs(chart)[i]
        /\ \A i \in 1..Len(chart') : Highs(chart')[i] \in Int
    BY <2>2 DEF Highs, Candle
  <2>4. /\ Len(Lows(chart)) = Len(chart) /\ Len(Lows(chart')) = Len(chart')
        /\ \A i \in 1..Len(chart) : Lows(chart')[i] = Lows(chart)[i]
        /\ \A i \in 1..Len(chart') : Lows(chart')[i] \in Int
    BY <2>2 DEF Lows, Candle
  <2>5. /\ Len(was) = Len(chart) /\ Len(is) = Len(chart')
        /\ \A i \in 1..Len(chart) : is[i] = was[i]
        /\ \A i \in 1..Len(chart') : is[i] \in Int
    BY <2>2 DEF Closes, Candle
  <2>6. /\ Continues(Highs(chart), Highs(chart'))
        /\ Continues(Lows(chart), Lows(chart'))
        /\ Continues(was, is)
    <3> HIDE DEF was, is
    <3> QED BY <2>2, <2>3, <2>4, <2>5 DEF Continues
  <2> HIDE DEF was, is
  <2>7. ASSUME NEW length \in {EmaFast, EmaMiddle, EmaSlow}
        PROVE  Keeps(Ema(was, length), Ema(is, length))
    <3>1. length \in Nat \ {0}
      BY AnalysisAssumption
    <3> QED BY <2>6, <3>1, EmaOfContinued
  <2>8. Keeps(Rsi(was), Rsi(is)) /\ Keeps(MacdHistogram(was), MacdHistogram(is))
    BY <2>6, RsiOfContinued, MacdOfContinued
  <2>9. Keeps(Atr(Highs(chart), Lows(chart), was), Atr(Highs(chart'), Lows(chart'), is))
    BY <2>3, <2>4, <2>5, <2>6, AtrOfContinued
  <2>10. SwingHighs(Highs(chart')) \ confirmed = SwingHighs(Highs(chart))
    BY <2>2, <2>3, SwingsOfAppended
  <2>11. SwingLows(Lows(chart')) \ confirmed = SwingLows(Lows(chart))
    BY <2>2, <2>4, SwingsOfAppended
  <2> QED BY <2>7, <2>8, <2>9, <2>10, <2>11
<1> QED BY <1>1, CurrentAlways, PTL DEF Spec, NoRepaint

(* Scores and confidences stay in their ranges, and a signal fires exactly *)
(* when the diagnostics page shows a gate or a pullback for it.            *)
THEOREM SignalIsConsistent == Spec => []SignalInv
<1>1. Current => SignalInv
  <2> SUFFICES ASSUME Current PROVE SignalInv
    OBVIOUS
  <2> DEFINE a == AnalysesOf(analysis)
             d == Diagnostics(a)
             levels == LevelsOf(signal.direction, analysis.price, analysis.volatility.atr)
  <2>1. /\ IsVerdict(analysis)
        /\ DOMAIN a = DOMAIN others \cup {"15m"} /\ a["15m"] = analysis
        /\ \A tf \in DOMAIN a : IsVerdict(a[tf])
    BY AnalyzeGivesVerdict DEF Current, AnalysesOf
  <2>2. signal = GenerateSignal(a)
    BY DEF Current
  <2> HIDE DEF a
  <2>3. /\ signal.direction = "WAIT" => signal.confidence = 0
        /\ signal.direction # "WAIT" =>
              /\ signal.direction \in {"BUY", "SELL"}
              /\ signal.confidence = BlendedScore(a) + RiskRewardScore(levels)
    BY <2>1, <2>2, ConfidenceOfSignal
  <2>4. signal.confidence \in Confidences
    <3>1. BlendedScore(a) \in Nat /\ BlendedScore(a) <= 9000
      <4>1. "15m" \in DOMAIN a
        BY <2>1
      <4>2. \A tf \in DOMAIN Weight \cap DOMAIN a : a[tf].score \in 0..90
        BY <2>1 DEF IsVerdict
      <4> HIDE DEF d, levels
      <4> QED BY <4>1, <4>2, BlendIn
    <3>2. signal.direction # "WAIT" => RiskRewardScore(levels) \in {0, 667}
      BY <2>1, <2>3, RiskRewardOf DEF IsVerdict
    <3> HIDE DEF levels
    <3>a. MaxConfidence \in Nat /\ 9667 <= MaxConfidence
      BY DEF MaxConfidence
    <3>3. CASE signal.direction = "WAIT"
      BY <2>3, <3>3, <3>a DEF Confidences
    <3>4. CASE signal.direction # "WAIT"
      <4>1. PICK blend \in Nat : blend = BlendedScore(a) /\ blend <= 9000
        BY <3>1
      <4>2. PICK reward \in {0, 667} : reward = RiskRewardScore(levels)
        BY <3>2, <3>4
      <4>3. signal.confidence = blend + reward
        BY <2>3, <3>4, <4>1, <4>2
      <4> QED BY <4>1, <4>2, <4>3, <3>a DEF Confidences
    <3> QED BY <3>3, <3>4
  <2>5. /\ d.signal = signal.direction
        /\ d.gate = MultiTimeframeGate(a) /\ d.pullback = CheckPullback(a)
        /\ "4h" \in DOMAIN a =>
              d.rows["4h"].direction = a["4h"].direction /\ d.rows["4h"].trend = a["4h"].trend.direction
    BY <2>2 DEF Diagnostics, Row, Weight
  <2> HIDE DEF d
  <2>6. d.signal = "WAIT" <=> d.gate = "WAIT" /\ d.pullback = "none"
    BY <2>2, <2>5, SignalSide DEF CheckPullback
  <2>7. {d.gate, d.pullback} = {"BUY", "SELL"} => d.rows["4h"].direction = -d.rows["4h"].trend
    <3> SUFFICES ASSUME {d.gate, d.pullback} = {"BUY", "SELL"}
                 PROVE  a["4h"].direction = -a["4h"].trend.direction /\ "4h" \in DOMAIN a
      BY <2>5
    <3>1. /\ d.gate \in {"BUY", "SELL"} /\ d.pullback \in {"BUY", "SELL"} /\ d.gate # d.pullback
      OBVIOUS
    <3>2. /\ "4h" \in DOMAIN a /\ a["4h"].direction # Neutral
          /\ d.gate = Side(a["4h"].direction)
      BY <2>5, <3>1, GateSide
    <3>3. \/ d.pullback = "BUY" /\ a["4h"].trend.direction = Bullish
          \/ d.pullback = "SELL" /\ a["4h"].trend.direction = Bearish
      BY <2>5, <3>1, PullbackSide
    <3>4. a["4h"].direction \in Directions
      BY <2>1, <3>2 DEF IsVerdict
    <3> QED BY <3>1, <3>2, <3>3, <3>4 DEF Directions, Side, Bullish, Bearish, Neutral
  <2>8. chart \in Charts /\ DOMAIN others \subseteq {"4h", "1h", "5m"}
    BY DEF Current
  <2>9. /\ analysis.direction \in Directions /\ analysis.score \in 0..90
        /\ analysis.price \in Nat /\ analysis.volatility.atr \in Nat
    BY <2>1 DEF IsVerdict
  <2>10. signal.direction \in {"BUY", "SELL", "WAIT"}
    BY <2>3
  <2>11. d = Diagnostics(AnalysesOf(analysis))
    BY DEF d, a
  <2> QED BY <2>3, <2>4, <2>5, <2>6, <2>7, <2>8, <2>9, <2>10, <2>11 DEF SignalInv
<1> QED BY <1>1, CurrentAlways, PTL

-----------------------------------------------------------------------------
(* The zones of support and resistance.                                    *)

(* Among swings of a chart there is one with the lowest level, and of      *)
(* those a first one.                                                      *)
LEMMA FirstOf ==
    ASSUME NEW n \in Nat, NEW S, S \subseteq 1..n, S # {},
           NEW v, \A i \in S : v[i] \in Nat
    PROVE  \E i \in S : \A j \in S \ {i} : Precedes(v, i, j)
<1>1. PICK i0 \in S : TRUE
  OBVIOUS
<1> DEFINE levels == {v[i] : i \in {j \in S : v[j] <= v[i0]}}
<1>2. levels \subseteq 0..v[i0] /\ levels # {} /\ 0 \in Int /\ v[i0] \in Int
  <2>1. v[i0] \in Nat /\ v[i0] \in levels
    BY <1>1
  <2> QED BY <2>1
<1>3. PICK low \in levels : \A l \in levels : low <= l
  <2> HIDE DEF levels
  <2> QED BY <1>2, LeastElement
<1>4. \A j \in S : low <= v[j]
  <2> SUFFICES ASSUME NEW j \in S PROVE low <= v[j]
    OBVIOUS
  <2>1. low \in Nat /\ low <= v[i0] /\ v[j] \in Nat /\ v[i0] \in Nat
    BY <1>1, <1>2, <1>3
  <2>2. CASE v[j] <= v[i0]
    BY <2>2, <1>3
  <2>3. CASE ~(v[j] <= v[i0])
    BY <2>1, <2>3
  <2> QED BY <2>2, <2>3
<1> DEFINE lowest == {i \in S : v[i] = low}
<1>5. lowest \subseteq 1..n /\ lowest # {} /\ 1 \in Int /\ n \in Int
  <2>1. PICK j \in S : low = v[j]
    BY <1>3
  <2>2. j \in lowest
    BY <2>1
  <2>3. lowest \subseteq 1..n
    OBVIOUS
  <2> QED BY <2>2, <2>3
<1>6. PICK i \in lowest : \A j \in lowest : i <= j
  <2> HIDE DEF lowest
  <2> QED BY <1>5, LeastElement
<1>7. ASSUME NEW j \in S \ {i} PROVE Precedes(v, i, j)
  <2>1. v[i] = low /\ low <= v[j] /\ v[j] \in Nat /\ v[i] \in Nat /\ i \in 1..n /\ j \in 1..n
    BY <1>4, <1>6
  <2>2. CASE v[j] = low
    BY <2>1, <2>2, <1>6 DEF Precedes
  <2>3. CASE v[j] # low
    BY <2>1, <2>3 DEF Precedes
  <2> QED BY <2>2, <2>3
<1> QED BY <1>6, <1>7

Increasing(order, k, v) ==
    \A a, b \in 1..k : a < b => Precedes(v, order[a], order[b])

(* The others of S come after the k that order has.                        *)
Selects(order, k, S, v) ==
    /\ Increasing(order, k, v)
    /\ \A j \in S : (\A b \in 1..k : order[b] # j) => \A a \in 1..k : Precedes(v, order[a], j)

LEMMA SelectsMore ==
    ASSUME NEW n \in Nat, NEW S, S \subseteq 1..n,
           NEW v, \A i \in S : v[i] \in Nat,
           NEW k \in 0..(Cardinality(S) - 1),
           NEW order \in [1..k -> S], Selects(order, k, S, v)
    PROVE  \E more \in [1..(k + 1) -> S] : Selects(more, k + 1, S, v)
<1> DEFINE R == {j \in S : \A b \in 1..k : order[b] # j}
<1>1. IsFiniteSet(S) /\ Cardinality(S) \in Nat
  <2>1. IsFiniteSet(1..n)
    BY FS_Interval
  <2> QED BY <2>1, FS_Subset, FS_CardinalityType
<1>2. R # {}
  <2> SUFFICES ASSUME R = {} PROVE FALSE
    OBVIOUS
  <2>1. order \in Surjection(1..k, S)
    BY DEF Surjection
  <2>2. Cardinality(S) <= k
    BY <1>1, <2>1, FS_SurjCardinalityBound DEF ExistsSurjection
  <2> QED BY <1>1, <2>2
<1>3. PICK m \in R : \A j \in R \ {m} : Precedes(v, m, j)
  <2>1. R \subseteq 1..n /\ \A i \in R : v[i] \in Nat
    OBVIOUS
  <2> HIDE DEF R
  <2> QED BY <1>2, <2>1, FirstOf
<1> DEFINE more == [a \in 1..(k + 1) |-> IF a <= k THEN order[a] ELSE m]
<1>4. k \in Nat /\ \A a \in 1..k : a \in 1..(k + 1) /\ a <= k
  BY <1>1
<1>5. /\ more \in [1..(k + 1) -> S] /\ more[k + 1] = m
      /\ \A a \in 1..k : more[a] = order[a]
  BY <1>3, <1>4
<1>6. \A a \in 1..(k + 1) : a \in 1..k \/ a = k + 1
  BY <1>4
<1> HIDE DEF more
<1>7. \A a \in 1..k : Precedes(v, order[a], m)
  BY <1>3 DEF Selects
<1>8. Increasing(more, k + 1, v)
  <2> SUFFICES ASSUME NEW a \in 1..(k + 1), NEW b \in 1..(k + 1), a < b
               PROVE  Precedes(v, more[a], more[b])
    BY DEF Increasing
  <2>1. a \in 1..k
    BY <1>4
  <2>2. CASE b \in 1..k
    BY <2>1, <2>2, <1>5 DEF Selects, Increasing
  <2>3. CASE b = k + 1
    BY <2>1, <2>3, <1>5, <1>7
  <2> QED BY <2>2, <2>3, <1>6
<1>9. ASSUME NEW j \in S, \A b \in 1..(k + 1) : more[b] # j, NEW a \in 1..(k + 1)
      PROVE  Precedes(v, more[a], j)
  <2>1. \A b \in 1..k : order[b] # j
    BY <1>4, <1>5, <1>9
  <2>2. j # m
    BY <1>4, <1>5, <1>9
  <2>3. CASE a \in 1..k
    BY <2>1, <2>3, <1>5 DEF Selects
  <2>4. CASE a = k + 1
    BY <2>1, <2>2, <2>4, <1>3, <1>5
  <2> QED BY <2>3, <2>4, <1>6
<1>10. Selects(more, k + 1, S, v)
  BY <1>8, <1>9 DEF Selects
<1> QED BY <1>5, <1>10

(* The order has every swing of S, from the lowest to the highest.         *)
Lists(order, S, v) ==
    /\ Cardinality(S) \in Nat
    /\ order \in [1..Cardinality(S) -> S]
    /\ Increasing(order, Cardinality(S), v)
    /\ \A i \in S : \E a \in 1..Cardinality(S) : order[a] = i

(* Sorting lists every swing once, from the lowest to the highest.         *)
LEMMA SortedLists ==
    ASSUME NEW n \in Nat, NEW S, S \subseteq 1..n,
           NEW v, \A i \in S : v[i] \in Nat
    PROVE  Lists(Sorted(S, v), S, v)
<1> DEFINE c == Cardinality(S)
           order == Sorted(S, v)
           T == {k \in 0..c : \E o \in [1..k -> S] : Selects(o, k, S, v)}
<1>1. IsFiniteSet(S) /\ c \in Nat
  <2>1. IsFiniteSet(1..n)
    BY FS_Interval
  <2> QED BY <2>1, FS_Subset, FS_CardinalityType
<1>2. 0 \in T
  <2> DEFINE none == [a \in 1..0 |-> a]
  <2>0. \A a \in 1..0 : FALSE
    OBVIOUS
  <2>1. none \in [1..0 -> S]
    BY <2>0
  <2>2. Selects(none, 0, S, v)
    <3> HIDE DEF none
    <3> QED BY ONLY <2>0 DEF Selects, Increasing
  <2>3. 0 \in 0..c
    BY <1>1
  <2> HIDE DEF none
  <2> QED BY <2>1, <2>2, <2>3
<1>3. ASSUME NEW k \in 0..(c - 1), k \in T PROVE k + 1 \in T
  <2>1. PICK o \in [1..k -> S] : Selects(o, k, S, v)
    BY <1>3
  <2>2. \E more \in [1..(k + 1) -> S] : Selects(more, k + 1, S, v)
    BY <2>1, SelectsMore
  <2>3. k + 1 \in 0..c
    BY <1>1
  <2> QED BY <2>2, <2>3
<1>4. c \in T
  <2>1. 0 \in Int /\ c \in Int /\ c \in 0..c
    BY <1>1
  <2> HIDE DEF T, c
  <2> QED BY <2>1, <1>2, <1>3, IntervalInduction
<1>5. \E o \in [1..c -> S] : \A a, b \in DOMAIN o : a < b => Precedes(v, o[a], o[b])
  <2>1. PICK o \in [1..c -> S] : Selects(o, c, S, v)
    BY <1>4
  <2> QED BY <2>1 DEF Selects, Increasing
<1>6. order \in [1..c -> S] /\ \A a, b \in DOMAIN order : a < b => Precedes(v, order[a], order[b])
  BY <1>5 DEF Sorted
<1> HIDE DEF order
<1>7. Increasing(order, c, v)
  BY <1>6 DEF Increasing
<1>8. order \in Injection(1..c, S)
  <2>1. ASSUME NEW a \in 1..c, NEW b \in 1..c, order[a] = order[b], a < b PROVE FALSE
    <3>1. Precedes(v, order[a], order[a]) /\ order[a] \in S
      BY <2>1, <1>6
    <3>2. v[order[a]] \in Nat /\ order[a] \in 1..n
      BY <3>1
    <3> QED BY <3>1, <3>2 DEF Precedes
  <2>2. ASSUME NEW a \in 1..c, NEW b \in 1..c, order[a] = order[b] PROVE a = b
    <3>1. ~(a < b) /\ ~(b < a)
      BY <2>1, <2>2
    <3> QED BY <3>1, <1>1
  <2> QED BY <2>2, <1>6 DEF Injection, IsInjective
<1>9. order \in Surjection(1..c, S)
  <2>1. Cardinality(1..c) = c
    <3>1. Cardinality(1..c) = IF 1 > c THEN 0 ELSE c - 1 + 1
      BY <1>1, FS_Interval
    <3> QED BY <3>1, <1>1
  <2> QED BY <2>1, <1>1, <1>8, FS_Injection
<1>10. \A i \in S : \E a \in 1..c : order[a] = i
  BY <1>9 DEF Surjection
<1> QED BY <1>1, <1>6, <1>7, <1>10 DEF order, Lists

(* What the k-th swing in order does to the zones of those before it.      *)
Joined(zs, k, order, v, atr) ==
    IF k > 1 /\ 2 * (v[order[k]] - v[order[k - 1]]) <= atr
    THEN [zs EXCEPT ![Len(zs)] = @ \cup {order[k]}]
    ELSE Append(zs, {order[k]})

(* s[k] are the zones of the first k of the n swings in order.             *)
AreZones(s, n, S, order, v, atr) ==
    /\ s \in [0..n -> Seq(SUBSET S)]
    /\ Cluster(order, v, atr) = s[n]
    /\ s[0] = <<>>
    /\ \A k \in 1..n : s[k] = Joined(s[k - 1], k, order, v, atr)

LEMMA JoinedTyped ==
    ASSUME NEW S, NEW n \in Nat, NEW order \in [1..n -> S], NEW k \in 1..n,
           NEW v, NEW atr, NEW zs \in Seq(SUBSET S)
    PROVE  Joined(zs, k, order, v, atr) \in Seq(SUBSET S)
<1>1. order[k] \in S /\ {order[k]} \in SUBSET S
  OBVIOUS
<1>2. Append(zs, {order[k]}) \in Seq(SUBSET S)
  BY <1>1
<1> DEFINE more == [zs EXCEPT ![Len(zs)] = @ \cup {order[k]}]
<1>3. more \in Seq(SUBSET S)
  <2>1. Len(zs) \in Nat /\ DOMAIN zs = 1..Len(zs) /\ \A p \in 1..Len(zs) : zs[p] \in SUBSET S
    OBVIOUS
  <2>2. more = [p \in 1..Len(zs) |-> IF p = Len(zs) THEN zs[p] \cup {order[k]} ELSE zs[p]]
    BY <2>1
  <2> HIDE DEF more
  <2>3. more \in [1..Len(zs) -> SUBSET S]
    BY <1>1, <2>1, <2>2
  <2> QED BY <2>1, <2>3
<1> QED BY <1>2, <1>3 DEF Joined

LEMMA ZonesOfSwings ==
    ASSUME NEW S, NEW n \in Nat, NEW order \in [1..n -> S], NEW v, NEW atr
    PROVE  \E s : AreZones(s, n, S, order, v, atr)
<1> DEFINE Is(s) == s = [k \in 0..n |-> IF k = 0 THEN <<>> ELSE Joined(s[k - 1], k, order, v, atr)]
           step == [k \in 1..n |-> [x \in Seq(SUBSET S) |-> Joined(x, k, order, v, atr)]]
           zones == CHOOSE s : Is(s)
<1>1. n \in Int /\ 0 \in Int /\ 0 <= n /\ <<>> \in Seq(SUBSET S) /\ Len(order) = n
  <2>1. order \in Seq(S)
    OBVIOUS
  <2> QED BY <2>1
<1>2. ASSUME NEW k \in (0 + 1)..n, NEW x \in Seq(SUBSET S)
      PROVE  /\ step[k][x] = Joined(x, k, order, v, atr)
             /\ step[k][x] \in Seq(SUBSET S)
  <2>1. k \in 1..n
    OBVIOUS
  <2>2. step[k][x] = Joined(x, k, order, v, atr)
    BY <2>1
  <2> QED BY <2>1, <2>2, JoinedTyped
<1> HIDE DEF step
<1>3. IsStep(step, (0 + 1)..n, Seq(SUBSET S))
  BY <1>2 DEF IsStep
<1>4. \A k \in (0 + 1)..n : k \in 0..n /\ k - 1 \in 0..n /\ k # 0
  BY <1>1
<1>5. PICK s \in [0..n -> Seq(SUBSET S)] : Follows(s, 0, n, <<>>, step)
  BY <1>1, <1>3, RecursiveFunctionExists
<1>6. \A k \in 0..n : s[k] = IF k = 0 THEN <<>> ELSE Joined(s[k - 1], k, order, v, atr)
  <2> SUFFICES ASSUME NEW k \in 0..n
               PROVE  s[k] = IF k = 0 THEN <<>> ELSE Joined(s[k - 1], k, order, v, atr)
    OBVIOUS
  <2>1. CASE k = 0
    BY <2>1, <1>1, <1>5 DEF Follows
  <2>2. CASE k # 0
    <3>1. k \in (0 + 1)..n /\ s[k - 1] \in Seq(SUBSET S)
      BY <2>2, <1>1
    <3>2. s[k] = step[k][s[k - 1]]
      BY <3>1, <1>5 DEF Follows
    <3> QED BY <2>2, <3>1, <3>2, <1>2
  <2> QED BY <2>1, <2>2
<1>7. Is(s)
  BY <1>6
<1>8. Is(zones)
  <2> HIDE DEF Is
  <2> QED BY <1>7
<1>9. Cluster(order, v, atr) = zones[n]
  BY <1>1 DEF Cluster, Joined
<1> HIDE DEF zones
<1>10. \A k \in 0..n : zones[k] = IF k = 0 THEN <<>> ELSE Joined(zones[k - 1], k, order, v, atr)
  BY <1>8
<1>11. Obeys(zones, 0, n, Seq(SUBSET S), <<>>, step)
  <2>1. zones = [k \in 0..n |-> zones[k]]
    BY <1>8
  <2>2. zones[0] = <<>>
    BY <1>1, <1>10
  <2>3. ASSUME NEW k \in (0 + 1)..n, zones[k - 1] \in Seq(SUBSET S)
        PROVE  zones[k] = step[k][zones[k - 1]]
    BY <2>3, <1>2, <1>4, <1>10
  <2> QED BY <2>1, <2>2, <2>3 DEF Obeys
<1>12. zones \in [0..n -> Seq(SUBSET S)] /\ Follows(zones, 0, n, <<>>, step)
  BY <1>1, <1>3, <1>11, RecursiveFunctionTyped
<1>13. AreZones(zones, n, S, order, v, atr)
  <2>1. zones[0] = <<>>
    BY <1>1, <1>10
  <2>2. \A k \in 1..n : zones[k] = Joined(zones[k - 1], k, order, v, atr)
    BY <1>1, <1>4, <1>10
  <2> QED BY <2>1, <2>2, <1>9, <1>12 DEF AreZones
<1> QED BY <1>13

(* The zones of the first k swings: the last one has the k-th swing.       *)
Zoned(zs, k, order, v, atr) ==
    /\ k > 0 => zs # <<>> /\ order[k] \in zs[Len(zs)]
    /\ \A p \in 1..Len(zs) : zs[p] # {} /\ \A i \in zs[p] : \E a \in 1..k : order[a] = i
    /\ \A a \in 1..k : \E p \in 1..Len(zs) : order[a] \in zs[p]
    /\ \A p, q \in 1..Len(zs) : p < q => \A i \in zs[p], j \in zs[q] : 2 * (v[j] - v[i]) > atr
    /\ \A p \in 1..Len(zs) : \A i, j \in zs[p] : v[i] < v[j] =>
          \E h \in zs[p] : v[h] > v[i] /\ 2 * (v[h] - v[i]) <= atr

LEMMA FartherApart ==
    \A a, b, c \in Nat, x \in Int :
        /\ 2 * (b - a) > x /\ b <= c => 2 * (c - a) > x
        /\ ~(2 * (c - b) <= x) /\ a <= b => 2 * (c - a) > x
OBVIOUS

LEMMA JoinedIsZoned ==
    ASSUME NEW S, NEW n \in Nat, NEW order \in [1..n -> S], NEW v, NEW atr \in Int,
           \A i \in S : v[i] \in Nat, Increasing(order, n, v),
           NEW k \in 0..(n - 1), NEW zs \in Seq(SUBSET S), Zoned(zs, k, order, v, atr)
    PROVE  Zoned(Joined(zs, k + 1, order, v, atr), k + 1, order, v, atr)
<1> DEFINE new == order[k + 1]
           last == order[k]
           more == Joined(zs, k + 1, order, v, atr)
           l == Len(zs)
<1>1. /\ k \in Nat /\ k + 1 \in 1..n /\ (k + 1) - 1 = k /\ (k + 1 > 1 <=> k > 0)
      /\ \A a \in 1..(k + 1) : a \in 1..k \/ a = k + 1
      /\ \A a \in 1..k : a \in 1..(k + 1) /\ a \in 1..n /\ a < k + 1
      /\ k > 0 => k \in 1..k /\ k \in 1..n
      /\ \A a \in 1..k : a < k \/ a = k
  OBVIOUS
<1>2. new \in S /\ v[new] \in Nat /\ (k > 0 => last \in S /\ v[last] \in Nat)
  BY <1>1
<1>3. l \in Nat /\ \A p \in 1..l : zs[p] \subseteq S
  OBVIOUS
<1>4. \A a, b \in 1..n : a < b => v[order[a]] <= v[order[b]]
  BY DEF Increasing, Precedes
<1>5. \A p \in 1..l : \A i \in zs[p] : /\ v[i] \in Nat /\ v[i] <= v[new]
                                       /\ k > 0 /\ v[i] <= v[last]
  <2> SUFFICES ASSUME NEW p \in 1..l, NEW i \in zs[p]
               PROVE  v[i] \in Nat /\ v[i] <= v[new] /\ k > 0 /\ v[i] <= v[last]
    OBVIOUS
  <2>1. PICK a \in 1..k : order[a] = i
    BY DEF Zoned
  <2>2. k > 0 /\ a \in 1..n /\ v[i] \in Nat
    BY <2>1, <1>1
  <2>3. v[i] <= v[new]
    BY <2>1, <1>1, <1>4
  <2>4. v[i] <= v[last]
    BY <2>1, <2>2, <1>1, <1>2, <1>4
  <2> QED BY <2>2, <2>3, <2>4
<1>6. k > 0 => l \in 1..l /\ last \in zs[l]
  <2> SUFFICES ASSUME k > 0 PROVE l \in 1..l /\ last \in zs[l]
    OBVIOUS
  <2>1. zs # <<>> /\ last \in zs[l]
    BY DEF Zoned
  <2>2. l # 0
    BY <2>1
  <2> QED BY <2>1, <2>2, <1>3
<1> DEFINE near == k > 0 /\ 2 * (v[new] - v[last]) <= atr
<1>7. CASE near
  <2>1. more = [zs EXCEPT ![l] = zs[l] \cup {new}]
    BY <1>1, <1>7 DEF Joined
  <2>2. /\ Len(more) = l /\ l \in 1..l
        /\ more[l] = zs[l] \cup {new}
        /\ \A p \in 1..l : p # l => more[p] = zs[p]
    BY <2>1, <1>3, <1>6, <1>7
  <2> HIDE DEF more
  <2>3. more # <<>> /\ new \in more[Len(more)]
    BY <2>2
  <2>4. \A p \in 1..l : \A i \in more[p] : \E a \in 1..(k + 1) : order[a] = i
    <3> SUFFICES ASSUME NEW p \in 1..l, NEW i \in more[p]
                 PROVE  \E a \in 1..(k + 1) : order[a] = i
      OBVIOUS
    <3>1. i \in zs[p] \/ i = new
      BY <2>2
    <3>2. CASE i \in zs[p]
      BY <3>2, <1>1 DEF Zoned
    <3>3. CASE i = new
      BY <3>3, <1>1
    <3> QED BY <3>1, <3>2, <3>3
  <2>5. \A a \in 1..(k + 1) : \E p \in 1..l : order[a] \in more[p]
    <3> SUFFICES ASSUME NEW a \in 1..(k + 1) PROVE \E p \in 1..l : order[a] \in more[p]
      OBVIOUS
    <3>1. CASE a = k + 1
      BY <3>1, <2>2
    <3>2. CASE a \in 1..k
      <4>1. PICK p \in 1..l : order[a] \in zs[p]
        BY <3>2 DEF Zoned
      <4> QED BY <4>1, <2>2
    <3> QED BY <3>1, <3>2, <1>1
  <2>6. ASSUME NEW p \in 1..l, NEW q \in 1..l, p < q, NEW i \in more[p], NEW j \in more[q]
        PROVE  2 * (v[j] - v[i]) > atr
    <3>1. p # l /\ more[p] = zs[p] /\ i \in zs[p] /\ v[i] \in Nat
      BY <2>2, <2>6, <1>3, <1>5
    <3>2. CASE j \in zs[q]
      BY <3>1, <3>2, <2>6 DEF Zoned
    <3>3. CASE j \notin zs[q]
      <4>1. q = l /\ j = new
        BY <3>3, <2>2
      <4>2. 2 * (v[last] - v[i]) > atr
        BY <4>1, <3>1, <2>6, <1>6, <1>7 DEF Zoned
      <4>3. v[last] <= v[new]
        BY <1>5, <1>6, <1>7
      <4>4. v[last] \in Nat /\ v[new] \in Nat
        BY <1>2, <1>7
      <4>5. 2 * (v[new] - v[i]) > atr
        <5> HIDE DEF new, last
        <5> QED BY ONLY <4>2, <4>3, <4>4, <3>1, atr \in Int, FartherApart
      <4> QED BY <4>1, <4>5
    <3> QED BY <3>2, <3>3
  <2>7. ASSUME NEW p \in 1..l, NEW i \in more[p], NEW j \in more[p], v[i] < v[j]
        PROVE  \E h \in more[p] : v[h] > v[i] /\ 2 * (v[h] - v[i]) <= atr
    <3>0. zs[p] \subseteq more[p]
      BY <2>2
    <3>1. CASE i \in zs[p] /\ j \in zs[p]
      <4>1. PICK h \in zs[p] : v[h] > v[i] /\ 2 * (v[h] - v[i]) <= atr
        BY <3>1, <2>7 DEF Zoned
      <4> QED BY <4>1, <3>0
    <3>2. CASE i \in zs[p] /\ j \notin zs[p]
      <4>1. p = l /\ j = new /\ v[i] \in Nat /\ v[i] <= v[last]
        BY <3>2, <2>2, <1>5
      <4>2. CASE v[i] < v[last]
        <5>1. PICK h \in zs[l] : v[h] > v[i] /\ 2 * (v[h] - v[i]) <= atr
          BY <4>1, <4>2, <3>2, <1>6, <1>7 DEF Zoned
        <5> QED BY <5>1, <4>1, <3>0
      <4>3. CASE v[i] = v[last]
        BY <4>1, <4>3, <2>7, <1>7
      <4> QED BY <4>1, <4>2, <4>3, <1>2, <1>7
    <3>3. CASE i \notin zs[p]
      <4>1. p = l /\ i = new
        BY <3>3, <2>2
      <4>2. v[j] <= v[new] /\ v[j] \in Nat
        BY <2>2, <1>2, <1>5
      <4> QED BY <4>1, <4>2, <2>7, <1>2
    <3> QED BY <3>1, <3>2, <3>3
  <2>8. \A p \in 1..l : more[p] # {}
    <3> SUFFICES ASSUME NEW p \in 1..l PROVE more[p] # {}
      OBVIOUS
    <3>1. zs[p] # {}
      BY DEF Zoned
    <3> QED BY <3>1, <2>2
  <2> QED BY <2>2, <2>3, <2>4, <2>5, <2>6, <2>7, <2>8 DEF Zoned, more
<1>8. CASE ~near
  <2>1. more = Append(zs, {new})
    BY <1>1, <1>8 DEF Joined
  <2>2. /\ Len(more) = l + 1 /\ more[l + 1] = {new} /\ \A p \in 1..l : more[p] = zs[p]
        /\ l + 1 \in 1..(l + 1) /\ \A p \in 1..(l + 1) : p \in 1..l \/ p = l + 1
        /\ \A p \in 1..l : p \in 1..(l + 1)
    <3>1. {new} \in SUBSET S
      BY <1>2
    <3>2. Len(more) = l + 1 /\ more[l + 1] = {new} /\ \A p \in 1..l : more[p] = zs[p]
      <4> HIDE DEF new, more
      <4> QED BY <2>1, <3>1
    <3> QED BY <3>2, <1>3
  <2> HIDE DEF more
  <2>3. more # <<>> /\ new \in more[Len(more)]
    BY <2>2
  <2>4. \A p \in 1..(l + 1) : \A i \in more[p] : \E a \in 1..(k + 1) : order[a] = i
    <3> SUFFICES ASSUME NEW p \in 1..(l + 1), NEW i \in more[p]
                 PROVE  \E a \in 1..(k + 1) : order[a] = i
      OBVIOUS
    <3>1. CASE p \in 1..l
      BY <3>1, <2>2, <1>1 DEF Zoned
    <3>2. CASE p = l + 1
      BY <3>2, <2>2, <1>1
    <3> QED BY <3>1, <3>2, <2>2
  <2>5. \A a \in 1..(k + 1) : \E p \in 1..(l + 1) : order[a] \in more[p]
    <3> SUFFICES ASSUME NEW a \in 1..(k + 1) PROVE \E p \in 1..(l + 1) : order[a] \in more[p]
      OBVIOUS
    <3>1. CASE a = k + 1
      BY <3>1, <2>2
    <3>2. CASE a \in 1..k
      <4>1. PICK p \in 1..l : order[a] \in zs[p]
        BY <3>2 DEF Zoned
      <4> QED BY <4>1, <2>2
    <3> QED BY <3>1, <3>2, <1>1
  <2>6. ASSUME NEW p \in 1..(l + 1), NEW q \in 1..(l + 1), p < q,
               NEW i \in more[p], NEW j \in more[q]
        PROVE  2 * (v[j] - v[i]) > atr
    <3>1. p \in 1..l /\ i \in zs[p] /\ v[i] \in Nat /\ k > 0 /\ v[i] <= v[last]
      BY <2>2, <2>6, <1>3, <1>5
    <3>2. CASE q \in 1..l
      BY <3>1, <3>2, <2>2, <2>6 DEF Zoned
    <3>3. CASE q = l + 1
      <4>1. j = new /\ ~(2 * (v[new] - v[last]) <= atr)
        BY <3>1, <3>3, <2>2, <1>8
      <4>2. v[last] \in Nat /\ v[new] \in Nat
        BY <3>1, <1>2
      <4>3. 2 * (v[new] - v[i]) > atr
        <5> HIDE DEF new, last
        <5> QED BY ONLY <4>1, <4>2, <3>1, atr \in Int, FartherApart
      <4> QED BY <4>1, <4>3
    <3> QED BY <3>2, <3>3, <2>2
  <2>7. ASSUME NEW p \in 1..(l + 1), NEW i \in more[p], NEW j \in more[p], v[i] < v[j]
        PROVE  \E h \in more[p] : v[h] > v[i] /\ 2 * (v[h] - v[i]) <= atr
    <3>1. CASE p \in 1..l
      BY <3>1, <2>2, <2>7 DEF Zoned
    <3>2. CASE p = l + 1
      <4>1. i = new /\ j = new
        BY <3>2, <2>2
      <4> QED BY <4>1, <2>7, <1>2
    <3> QED BY <3>1, <3>2, <2>2
  <2>8. \A p \in 1..(l + 1) : more[p] # {}
    <3> SUFFICES ASSUME NEW p \in 1..(l + 1) PROVE more[p] # {}
      OBVIOUS
    <3>1. p \in 1..l => zs[p] # {}
      BY DEF Zoned
    <3> QED BY <3>1, <2>2
  <2> QED BY <2>2, <2>3, <2>4, <2>5, <2>6, <2>7, <2>8 DEF Zoned, more
<1> QED BY <1>7, <1>8

(* Clustering makes connected components (_cluster_levels).                *)
LEMMA ClusterMakesComponents ==
    ASSUME NEW n \in Nat, NEW S, S \subseteq 1..n,
           NEW v, \A i \in S : v[i] \in Nat, NEW atr \in Int
    PROVE  AreComponents(Zones(S, v, atr), S, v, atr) /\ Zones(S, v, atr) \in Seq(SUBSET S)
<1> DEFINE order == Sorted(S, v)
           c == Cardinality(S)
<1>1. /\ c \in Nat /\ order \in [1..c -> S] /\ Increasing(order, c, v)
      /\ \A i \in S : \E a \in 1..c : order[a] = i
  <2>1. Lists(order, S, v)
    BY SortedLists
  <2> HIDE DEF order
  <2> QED BY <2>1 DEF Lists
<1> HIDE DEF order, c
<1>2. PICK s : AreZones(s, c, S, order, v, atr)
  BY <1>1, ZonesOfSwings
<1> DEFINE T == {k \in 0..c : Zoned(s[k], k, order, v, atr)}
<1>3. 0 \in T
  <2>1. s[0] = <<>> /\ Len(s[0]) = 0 /\ 0 \in 0..c
    BY <1>1, <1>2 DEF AreZones
  <2>2. \A a \in 1..0 : FALSE
    OBVIOUS
  <2>3. Zoned(s[0], 0, order, v, atr)
    BY <2>1, <2>2 DEF Zoned
  <2> QED BY <2>1, <2>3
<1>4. ASSUME NEW k \in 0..(c - 1), k \in T PROVE k + 1 \in T
  <2>1. k \in 0..c /\ k + 1 \in 0..c /\ k + 1 \in 1..c /\ (k + 1) - 1 = k
    BY <1>1
  <2>2. s[k] \in Seq(SUBSET S) /\ s[k + 1] = Joined(s[k], k + 1, order, v, atr)
    BY <2>1, <1>2 DEF AreZones
  <2>3. Zoned(s[k], k, order, v, atr)
    BY <1>4
  <2>4. Zoned(s[k + 1], k + 1, order, v, atr)
    <3>1. c \in Nat /\ order \in [1..c -> S] /\ Increasing(order, c, v)
      BY <1>1
    <3>2. Zoned(Joined(s[k], k + 1, order, v, atr), k + 1, order, v, atr)
      BY ONLY <2>2, <2>3, <3>1, k \in 0..(c - 1), atr \in Int, \A i \in S : v[i] \in Nat,
              JoinedIsZoned
    <3> QED BY ONLY <3>2, <2>2
  <2> QED BY <2>1, <2>4
<1>5. c \in T
  <2>1. 0 \in Int /\ c \in Int /\ c \in 0..c
    BY <1>1
  <2> HIDE DEF T
  <2> QED BY <2>1, <1>3, <1>4, IntervalInduction
<1> DEFINE zs == s[c]
<1>6. zs \in Seq(SUBSET S) /\ DOMAIN zs = 1..Len(zs)
  BY <1>1, <1>2 DEF AreZones
<1>7. Zoned(zs, c, order, v, atr)
  BY <1>5
<1>8. Zones(S, v, atr) = zs
  BY <1>2 DEF Zones, order, AreZones
<1> HIDE DEF zs
<1>9. UNION {zs[k] : k \in DOMAIN zs} = S
  <2>1. ASSUME NEW i \in S PROVE \E p \in DOMAIN zs : i \in zs[p]
    <3>1. PICK a \in 1..c : order[a] = i
      BY <1>1
    <3> QED BY <3>1, <1>6, <1>7 DEF Zoned
  <2>2. ASSUME NEW p \in DOMAIN zs PROVE zs[p] \subseteq S
    BY <1>6
  <2> QED BY <2>1, <2>2
<1>10. \A p \in DOMAIN zs : zs[p] # {}
  BY <1>6, <1>7 DEF Zoned
<1>11. \A p, q \in DOMAIN zs : p < q => \A i \in zs[p], j \in zs[q] : 2 * (v[j] - v[i]) > atr
  BY <1>6, <1>7 DEF Zoned
<1>12. \A p \in DOMAIN zs : \A i, j \in zs[p] : v[i] < v[j] =>
          \E h \in zs[p] : v[h] > v[i] /\ 2 * (v[h] - v[i]) <= atr
  BY <1>6, <1>7 DEF Zoned
<1> QED BY <1>6, <1>8, <1>9, <1>10, <1>11, <1>12 DEF AreComponents

(* At every candle the zones are the connected components of the swings,   *)
(* whatever the prices and the ATR (_cluster_levels).                      *)
THEOREM ZonesAreClusters == Spec => []ZonesAreComponents
<1>1. Current => ZonesAreComponents
  <2> SUFFICES ASSUME Current PROVE ZonesAreComponents
    OBVIOUS
  <2> DEFINE n == Len(chart)
             high == Highs(chart)
             low == Lows(chart)
             atr == analysis.volatility.atr
  <2>1. chart \in Seq(Candle) /\ n \in Nat /\ atr \in Int
    <3>1. chart \in Seq(Candle) /\ n \in Nat
      BY DEF Current, Charts
    <3>2. IsVerdict(analysis)
      BY AnalyzeGivesVerdict DEF Current
    <3> QED BY <3>1, <3>2 DEF IsVerdict
  <2>2. Len(high) = n /\ Len(low) = n /\ \A i \in 1..n : high[i] \in Nat /\ low[i] \in Nat
    <3>1. \A i \in 1..n : chart[i] \in Candle
      BY <2>1
    <3>2. \A i \in 1..n : chart[i].high \in Nat /\ chart[i].low \in Nat
      BY <3>1 DEF Candle
    <3> QED BY <3>2, <2>1 DEF Highs, Lows
  <2> HIDE DEF high, low, atr, n
  <2>3. SwingHighs(high) \subseteq 1..n /\ SwingLows(low) \subseteq 1..n
    <3>1. FractalHalf \in Nat
      BY AnalysisAssumption DEF AnalysisAssumption
    <3>2. (FractalHalf + 1)..(n - FractalHalf) \subseteq 1..n
      BY <2>1, <3>1
    <3>3. SwingHighs(high) \subseteq (FractalHalf + 1)..(n - FractalHalf)
      BY <2>2 DEF SwingHighs
    <3>4. SwingLows(low) \subseteq (FractalHalf + 1)..(n - FractalHalf)
      BY <2>2 DEF SwingLows
    <3> QED BY <3>2, <3>3, <3>4
  <2>4. AreComponents(Zones(SwingHighs(high), high, atr), SwingHighs(high), high, atr)
    BY <2>1, <2>2, <2>3, ClusterMakesComponents
  <2>5. AreComponents(Zones(SwingLows(low), low, atr), SwingLows(low), low, atr)
    BY <2>1, <2>2, <2>3, ClusterMakesComponents
  <2> QED BY <2>4, <2>5 DEF ZonesAreComponents, high, low, atr
<1> QED BY <1>1, CurrentAlways, PTL

-----------------------------------------------------------------------------
(* Turned upside down (MirrorImage): sums and averages.                    *)

(* A quotient without a remainder is the one number that gives the         *)
(* dividend back.                                                          *)
LEMMA ExactQuotient ==
    ASSUME NEW q \in Int, NEW b \in Nat \ {0}, NEW a, a = b * q
    PROVE  a \div b = q
OBVIOUS

(* The sum of p times u less f. *)
LEMMA SumLinear ==
    ASSUME NEW lo \in Int, NEW hi \in Int, lo - 1 <= hi, NEW p \in Int,
           NEW u, \A i \in lo..hi : u[i] \in Int,
           NEW f, \A i \in lo..hi : f[i] \in Int,
           NEW g, \A i \in lo..hi : g[i] = p * u[i] - f[i]
    PROVE  SumOver(g, lo, hi) = p * SumOver(u, lo, hi) - SumOver(f, lo, hi)
<1>b. \A i \in lo..hi : g[i] \in Int
  OBVIOUS
<1>1. PICK s \in [(lo - 1)..hi -> Int] :
         ArePartialSums(s, u, lo, hi) /\ SumOver(u, lo, hi) = s[hi]
  BY IntegerSums, ZenonT(60)
<1>2. PICK t \in [(lo - 1)..hi -> Int] :
         ArePartialSums(t, f, lo, hi) /\ SumOver(f, lo, hi) = t[hi]
  BY IntegerSums, ZenonT(60)
<1>3. PICK r \in [(lo - 1)..hi -> Int] :
         ArePartialSums(r, g, lo, hi) /\ SumOver(g, lo, hi) = r[hi]
  BY <1>b, IntegerSums, ZenonT(60)
<1> DEFINE T == {i \in (lo - 1)..hi : r[i] = p * s[i] - t[i]}
<1>4. lo - 1 \in T /\ lo - 1 \in Int
  <2>1. s[lo - 1] = 0 /\ t[lo - 1] = 0 /\ r[lo - 1] = 0 /\ lo - 1 \in (lo - 1)..hi
    BY <1>1, <1>2, <1>3 DEF ArePartialSums
  <2> QED BY <2>1
<1>5. ASSUME NEW i \in (lo - 1)..(hi - 1), i \in T PROVE i + 1 \in T
  <2>1. i + 1 \in lo..hi /\ i + 1 \in (lo - 1)..hi /\ (i + 1) - 1 = i /\ i \in (lo - 1)..hi
    OBVIOUS
  <2>2. s[i + 1] = s[i] + u[i + 1] /\ t[i + 1] = t[i] + f[i + 1] /\ r[i + 1] = r[i] + g[i + 1]
    BY <1>1, <1>2, <1>3, <2>1 DEF ArePartialSums
  <2>3. /\ s[i] \in Int /\ t[i] \in Int /\ u[i + 1] \in Int /\ f[i + 1] \in Int
        /\ r[i] = p * s[i] - t[i] /\ g[i + 1] = p * u[i + 1] - f[i + 1]
    BY <1>1, <1>2, <1>5, <2>1
  <2>4. r[i + 1] = p * s[i + 1] - t[i + 1]
    <3>1. \A a, b, c, d \in Int : (p * a - c) + (p * b - d) = p * (a + b) - (c + d)
      OBVIOUS
    <3>2. PICK a \in Int, b \in Int, c \in Int, d \in Int :
             a = s[i] /\ b = u[i + 1] /\ c = t[i] /\ d = f[i + 1]
      BY <2>3
    <3>3. s[i + 1] = a + b /\ t[i + 1] = c + d /\ r[i + 1] = (p * a - c) + (p * b - d)
      BY <2>2, <2>3, <3>2
    <3> QED BY <3>1, <3>3
  <2> QED BY <2>1, <2>4
<1>6. hi \in T
  <2>1. hi \in (lo - 1)..hi
    OBVIOUS
  <2> HIDE DEF T
  <2> QED BY <1>4, <1>5, <2>1, IntervalInduction
<1> QED BY <1>1, <1>2, <1>3, <1>6

(* The partial sums of integers are integers.                              *)
LEMMA SumOfInts ==
    ASSUME NEW lo \in Int, NEW hi \in Int, lo - 1 <= hi,
           NEW f, \A i \in lo..hi : f[i] \in Int
    PROVE  SumOver(f, lo, hi) \in Int
<1>1. Int \in {Nat, Int}
  OBVIOUS
<1> QED BY <1>1, SumIn, ZenonT(30)

(* As many ones as there are positions. *)
LEMMA SumOfOnes ==
    ASSUME NEW lo \in Int, NEW hi \in Int, lo - 1 <= hi
    PROVE  SumOver([i \in lo..hi |-> 1], lo, hi) = hi - lo + 1
<1> DEFINE ones == [i \in lo..hi |-> 1]
<1>1. PICK s \in [(lo - 1)..hi -> Int] :
         ArePartialSums(s, ones, lo, hi) /\ SumOver(ones, lo, hi) = s[hi]
  <2>1. Int \in {Nat, Int} /\ \A i \in lo..hi : ones[i] \in Int
    OBVIOUS
  <2> HIDE DEF ones
  <2> QED BY <2>1, PartialSums, ZenonT(30)
<1>2. \A i \in lo..hi : ones[i] = 1
  OBVIOUS
<1> HIDE DEF ones
<1> DEFINE T == {i \in (lo - 1)..hi : s[i] = i - lo + 1}
<1>3. lo - 1 \in T /\ lo - 1 \in Int
  BY <1>1 DEF ArePartialSums
<1>4. ASSUME NEW i \in (lo - 1)..(hi - 1), i \in T PROVE i + 1 \in T
  <2>1. i + 1 \in lo..hi /\ i + 1 \in (lo - 1)..hi /\ (i + 1) - 1 = i
    OBVIOUS
  <2>2. s[i + 1] = s[i] + 1
    BY <1>1, <1>2, <2>1 DEF ArePartialSums
  <2> QED BY <2>1, <2>2, <1>4
<1>5. hi \in T
  <2>1. hi \in (lo - 1)..hi
    OBVIOUS
  <2> HIDE DEF T
  <2> QED BY <1>3, <1>4, <2>1, IntervalInduction
<1> QED BY <1>1, <1>5 DEF ones

(* The quotients of an EMA of f leave no remainder. *)
ExactEma(f, lo, hi, length) ==
    LET first == lo + length - 1
        e == EmaOver(f, lo, hi, length)
    IN  /\ first <= hi => length * e[first] = SumOver(f, lo, first)
        /\ \A i \in (first + 1)..hi : (length + 1) * e[i] = 2 * f[i] + (length - 1) * e[i - 1]

(* Between lo and hi, g is f reflected at half of p.                       *)
Opposes(g, f, lo, hi, p) == \A i \in lo..hi : f[i] \in Int /\ g[i] = p - f[i]

(* The EMA of reflected values is the reflected EMA: seed and steps are    *)
(* weighted means, whose quotients, being exact, reflect as well.          *)
LEMMA EmaMirrored ==
    ASSUME NEW lo \in Int, NEW hi \in Int, NEW length \in Nat \ {0}, NEW p \in Int,
           NEW f, NEW g, Opposes(g, f, lo, hi, p), ExactEma(f, lo, hi, length)
    PROVE  Opposes(EmaOver(g, lo, hi, length), EmaOver(f, lo, hi, length),
                   lo + length - 1, hi, p)
<1> DEFINE first == lo + length - 1
           e == EmaOver(f, lo, hi, length)
           d == EmaOver(g, lo, hi, length)
<1>0. Int \in {Nat, Int} /\ \A i \in lo..hi : f[i] \in Int /\ g[i] \in Int
  BY DEF Opposes
<1>1. PICK m \in Int : m = first /\ lo - 1 <= m /\ lo <= m /\ m - lo + 1 = length
  OBVIOUS
<1>2. /\ e \in [m..hi -> Int]
      /\ m <= hi => e[m] = SumOver(f, lo, m) \div length
      /\ \A i \in (m + 1)..hi : e[i] = NextEma(length, e[i - 1], f[i])
  BY <1>0, <1>1, EmaEquations
<1>3. /\ d \in [m..hi -> Int]
      /\ m <= hi => d[m] = SumOver(g, lo, m) \div length
      /\ \A i \in (m + 1)..hi : d[i] = NextEma(length, d[i - 1], g[i])
  BY <1>0, <1>1, EmaEquations
<1>4. /\ m <= hi => length * e[m] = SumOver(f, lo, m)
      /\ \A i \in (m + 1)..hi : (length + 1) * e[i] = 2 * f[i] + (length - 1) * e[i - 1]
  BY <1>1 DEF ExactEma
<1> HIDE DEF e, d
<1>5. ASSUME m <= hi PROVE d[m] = p - e[m]
  <2> DEFINE ones == [i \in lo..m |-> 1]
  <2>1. /\ \A i \in lo..m : i \in lo..hi /\ ones[i] = 1 /\ ones[i] \in Int
        /\ \A i \in lo..m : f[i] \in Int /\ g[i] = p - f[i]
        /\ e[m] \in Int
    BY <1>1, <1>2, <1>5 DEF Opposes
  <2>2. SumOver(ones, lo, m) = length
    BY <1>1, SumOfOnes
  <2> HIDE DEF ones
  <2>3. \A i \in lo..m : g[i] = p * ones[i] - f[i]
    BY <2>1
  <2>4. SumOver(g, lo, m) = p * length - SumOver(f, lo, m)
    <3>1. lo - 1 <= m
      BY <1>1
    <3>2. \A i \in lo..m : ones[i] \in Int
      BY <2>1
    <3>3. \A i \in lo..m : f[i] \in Int
      BY <2>1
    <3>4. SumOver(g, lo, m) = p * SumOver(ones, lo, m) - SumOver(f, lo, m)
      BY <3>1, <3>2, <3>3, <2>3, SumLinear
    <3> QED BY <3>4, <2>2
  <2>5. SumOver(g, lo, m) = length * (p - e[m])
    <3>1. PICK a \in Int : a = e[m]
      BY <2>1
    <3>2. p * length - length * a = length * (p - a)
      OBVIOUS
    <3>3. SumOver(f, lo, m) = length * a
      BY <1>4, <1>5, <3>1
    <3> QED BY <2>4, <3>1, <3>2, <3>3
  <2>6. p - e[m] \in Int
    BY <2>1
  <2> QED BY <1>3, <1>5, <2>5, <2>6, ExactQuotient
<1>6. ASSUME NEW i \in (m + 1)..hi, d[i - 1] = p - e[i - 1] PROVE d[i] = p - e[i]
  <2>1. PICK a \in Int, b \in Int, x \in Int : a = e[i - 1] /\ b = e[i] /\ x = f[i]
    <3>1. i \in lo..hi /\ i \in m..hi /\ i - 1 \in m..hi
      BY <1>1
    <3> QED BY <1>0, <1>2, <3>1
  <2>2. g[i] = p - x
    BY <1>1, <2>1 DEF Opposes
  <2>3. d[i] = (2 * (p - x) + (length - 1) * (p - a)) \div (length + 1)
    BY <1>3, <1>6, <2>1, <2>2 DEF NextEma
  <2>4. (length + 1) * b = 2 * x + (length - 1) * a
    BY <1>4, <2>1
  <2>5. 2 * (p - x) + (length - 1) * (p - a) = (length + 1) * (p - b)
    <3>1. 2 * (p - x) + (length - 1) * (p - a) = (length + 1) * p - (2 * x + (length - 1) * a)
      OBVIOUS
    <3>2. (length + 1) * p - (length + 1) * b = (length + 1) * (p - b)
      OBVIOUS
    <3> QED BY <2>4, <3>1, <3>2
  <2>6. length + 1 \in Nat \ {0} /\ p - b \in Int
    OBVIOUS
  <2> QED BY <2>1, <2>3, <2>5, <2>6, ExactQuotient
<1> DEFINE T == {i \in m..hi : d[i] = p - e[i]}
<1>7. CASE m <= hi
  <2>1. m \in T
    BY <1>5, <1>7
  <2>2. ASSUME NEW i \in m..(hi - 1), i \in T PROVE i + 1 \in T
    <3>1. i + 1 \in (m + 1)..hi /\ i + 1 \in m..hi /\ (i + 1) - 1 = i
      OBVIOUS
    <3> QED BY <2>2, <3>1, <1>6
  <2> HIDE DEF T
  <2>3. \A i \in m..hi : i \in T
    BY <2>1, <2>2, IntervalInduction
  <2> QED BY <2>3, <1>1, <1>2 DEF T, d, e, Opposes
<1>8. CASE ~(m <= hi)
  BY <1>1, <1>8 DEF Opposes
<1> QED BY <1>7, <1>8

(* The series w is v reflected at half of p.                               *)
Reflects(w, v, p) ==
    /\ Len(v) \in Nat /\ Len(w) = Len(v)
    /\ Opposes(w, v, 1, Len(v), p)

(* So do the averages of a series ...                                      *)
LEMMA EmaReflected ==
    ASSUME NEW v, NEW w, NEW p \in Int, Reflects(w, v, p), NEW length \in Nat \ {0},
           ExactEma(v, 1, Len(v), length)
    PROVE  \A i \in length..Len(v) :
              Ema(v, length)[i] \in Int /\ Ema(w, length)[i] = p - Ema(v, length)[i]
<1>1. 1 \in Int /\ Len(v) \in Int /\ Len(w) = Len(v) /\ 1 + length - 1 = length
  BY DEF Reflects
<1>2. Opposes(EmaOver(w, 1, Len(v), length), EmaOver(v, 1, Len(v), length), length, Len(v), p)
  BY <1>1, EmaMirrored DEF Reflects
<1> QED BY <1>1, <1>2 DEF Ema, Opposes

(* ... its RSI exchanges gains and losses ...                              *)
LEMMA RsiReflected ==
    ASSUME NEW v, NEW w, NEW p \in Int, Reflects(w, v, p)
    PROVE  \A i \in (RsiLength + 1)..Len(v) :
              \E gain, loss \in Int : Rsi(v)[i] = RsiFrom(gain, loss) /\ Rsi(w)[i] = RsiFrom(loss, gain)
<1> DEFINE change(x) == [i \in 2..Len(x) |-> x[i] - x[i - 1]]
           ups(x) == [i \in 2..Len(x) |-> Larger(change(x)[i], 0)]
           downs(x) == [i \in 2..Len(x) |-> Larger(-change(x)[i], 0)]
           gain(x) == WilderOver(ups(x), 2, Len(x), RsiLength)
           loss(x) == WilderOver(downs(x), 2, Len(x), RsiLength)
<1>1. /\ Int \in {Nat, Int} /\ 2 \in Int /\ Len(v) \in Int /\ Len(w) = Len(v)
      /\ RsiLength \in Nat \ {0} /\ 2 + RsiLength - 1 = RsiLength + 1
  BY IndicatorsAssumption DEF Reflects
<1>2. ASSUME NEW i \in 2..Len(v)
      PROVE  change(v)[i] \in Int /\ change(w)[i] = -change(v)[i]
  <2>1. i \in 1..Len(v) /\ i - 1 \in 1..Len(v) /\ i \in 2..Len(w)
    BY <1>1
  <2>2. v[i] \in Int /\ v[i - 1] \in Int /\ w[i] = p - v[i] /\ w[i - 1] = p - v[i - 1]
    BY <2>1 DEF Reflects, Opposes
  <2> QED BY <2>1, <2>2
<1>3. ups(w) = downs(v) /\ downs(w) = ups(v)
  <2> HIDE DEF change
  <2>1. \A i \in 2..Len(v) : -(-change(v)[i]) = change(v)[i]
    BY <1>2
  <2>2. ASSUME NEW i \in 2..Len(v)
        PROVE  /\ Larger(change(w)[i], 0) = Larger(-change(v)[i], 0)
               /\ Larger(-change(w)[i], 0) = Larger(change(v)[i], 0)
    <3>1. change(w)[i] = -change(v)[i] /\ -change(w)[i] = change(v)[i]
      BY <1>2, <2>1
    <3> QED BY <3>1
  <2> QED BY <2>2, <1>1
<1>4. \A i \in 2..Len(v) : ups(v)[i] \in Int /\ downs(v)[i] \in Int
  <2> HIDE DEF change
  <2> QED BY <1>2 DEF Larger
<1>5. \A i \in (RsiLength + 1)..Len(v) : gain(v)[i] \in Int /\ loss(v)[i] \in Int
  <2> HIDE DEF ups, downs
  <2>1. /\ gain(v) \in [(2 + RsiLength - 1)..Len(v) -> Int]
        /\ loss(v) \in [(2 + RsiLength - 1)..Len(v) -> Int]
    BY <1>1, <1>4, WilderEquations
  <2> HIDE DEF gain, loss
  <2> QED BY <2>1, <1>1
<1>6. gain(w) = loss(v) /\ loss(w) = gain(v)
  <2> HIDE DEF ups, downs
  <2> QED BY <1>1, <1>3
<1>7. /\ Rsi(v) = [i \in (RsiLength + 1)..Len(v) |-> RsiFrom(gain(v)[i], loss(v)[i])]
      /\ Rsi(w) = [i \in (RsiLength + 1)..Len(w) |-> RsiFrom(gain(w)[i], loss(w)[i])]
  BY DEF Rsi
<1> HIDE DEF gain, loss
<1> QED BY <1>1, <1>5, <1>6, <1>7

(* ... its MACD line and histogram change sign ...                         *)
LEMMA MacdReflected ==
    ASSUME NEW v, NEW w, NEW p \in Int, Reflects(w, v, p),
           ExactEma(v, 1, Len(v), MacdFast), ExactEma(v, 1, Len(v), MacdSlow),
           ExactEma(MacdLine(v), MacdSlow, Len(v), MacdSignal)
    PROVE  /\ \A i \in MacdSlow..Len(v) :
                 MacdLine(v)[i] \in Int /\ MacdLine(w)[i] = -MacdLine(v)[i]
           /\ \A i \in (MacdSlow + MacdSignal - 1)..Len(v) :
                 MacdHistogram(v)[i] \in Int /\ MacdHistogram(w)[i] = -MacdHistogram(v)[i]
<1>1. /\ Len(v) \in Int /\ Len(w) = Len(v) /\ 0 \in Int
      /\ MacdFast \in Nat \ {0} /\ MacdSlow \in Nat \ {0} /\ MacdFast < MacdSlow
      /\ MacdSignal \in Nat \ {0}
  BY IndicatorsAssumption DEF Reflects
<1>2. ASSUME NEW i \in MacdSlow..Len(v)
      PROVE  MacdLine(v)[i] \in Int /\ MacdLine(w)[i] = 0 - MacdLine(v)[i]
  <2>1. i \in MacdFast..Len(v) /\ i \in MacdSlow..Len(w)
    BY <1>1
  <2>2. /\ Ema(v, MacdFast)[i] \in Int /\ Ema(w, MacdFast)[i] = p - Ema(v, MacdFast)[i]
        /\ Ema(v, MacdSlow)[i] \in Int /\ Ema(w, MacdSlow)[i] = p - Ema(v, MacdSlow)[i]
    BY <1>1, <2>1, EmaReflected
  <2>3. /\ MacdLine(v)[i] = Ema(v, MacdFast)[i] - Ema(v, MacdSlow)[i]
        /\ MacdLine(w)[i] = Ema(w, MacdFast)[i] - Ema(w, MacdSlow)[i]
    BY <2>1 DEF MacdLine
  <2> QED BY <2>2, <2>3
<1> DEFINE s == EmaOver(MacdLine(v), MacdSlow, Len(v), MacdSignal)
           t == EmaOver(MacdLine(w), MacdSlow, Len(v), MacdSignal)
<1>3. \A i \in (MacdSlow + MacdSignal - 1)..Len(v) : s[i] \in Int /\ t[i] = 0 - s[i]
  <2>1. Opposes(MacdLine(w), MacdLine(v), MacdSlow, Len(v), 0)
    BY <1>2 DEF Opposes
  <2>2. Opposes(t, s, MacdSlow + MacdSignal - 1, Len(v), 0)
    BY <1>1, <2>1, EmaMirrored
  <2> QED BY <2>2 DEF Opposes
<1>4. ASSUME NEW i \in (MacdSlow + MacdSignal - 1)..Len(v)
      PROVE  MacdHistogram(v)[i] \in Int /\ MacdHistogram(w)[i] = -MacdHistogram(v)[i]
  <2>1. i \in MacdSlow..Len(v) /\ i \in (MacdSlow + MacdSignal - 1)..Len(w)
    BY <1>1
  <2>2. MacdHistogram(v)[i] = MacdLine(v)[i] - s[i] /\ MacdHistogram(w)[i] = MacdLine(w)[i] - t[i]
    BY <1>1, <2>1 DEF MacdHistogram
  <2> HIDE DEF s, t
  <2> QED BY <2>1, <2>2, <1>2, <1>3
<1>5. \A i \in MacdSlow..Len(v) : MacdLine(v)[i] \in Int /\ MacdLine(w)[i] = -MacdLine(v)[i]
  BY <1>2
<1> QED BY <1>4, <1>5

(* ... and the ATR of reflected candles, whose highs are lows, is the      *)
(* same.                                                                   *)
LEMMA AtrReflected ==
    ASSUME NEW p \in Int, NEW high, NEW low, NEW close, NEW high2, NEW low2, NEW close2,
           Reflects(high2, low, p), Reflects(low2, high, p), Reflects(close2, close, p),
           Len(high) = Len(close), Len(low) = Len(close)
    PROVE  Atr(high2, low2, close2) = Atr(high, low, close)
<1>1. Len(close) \in Nat /\ Len(close2) = Len(close)
  BY DEF Reflects
<1>2. ASSUME NEW i \in 2..Len(close)
      PROVE  TrueRange(high2, low2, close2, i) = TrueRange(high, low, close, i)
  <2>1. i \in 1..Len(close) /\ i - 1 \in 1..Len(close)
    BY <1>1
  <2>2. /\ high[i] \in Int /\ low[i] \in Int /\ close[i - 1] \in Int
        /\ high2[i] = p - low[i] /\ low2[i] = p - high[i] /\ close2[i - 1] = p - close[i - 1]
    BY <2>1 DEF Reflects, Opposes
  <2>3. high2[i] - low2[i] = high[i] - low[i]
    BY <2>2
  <2>4. /\ Abs(high2[i] - close2[i - 1]) = Abs(low[i] - close[i - 1])
        /\ Abs(low2[i] - close2[i - 1]) = Abs(high[i] - close[i - 1])
    <3>1. PICK h \in Int, l \in Int, c \in Int : h = high[i] /\ l = low[i] /\ c = close[i - 1]
      BY <2>2
    <3>2. high2[i] = p - l /\ low2[i] = p - h /\ close2[i - 1] = p - c
      BY <2>2, <3>1
    <3>3. \A x, y \in Int : x + y = 0 => Abs(x) = Abs(y)
      BY DEF Abs, Larger
    <3>4. /\ ((p - l) - (p - c)) + (l - c) = 0 /\ ((p - h) - (p - c)) + (h - c) = 0
          /\ (p - l) - (p - c) \in Int /\ l - c \in Int
          /\ (p - h) - (p - c) \in Int /\ h - c \in Int
      OBVIOUS
    <3>5. Abs((p - l) - (p - c)) = Abs(l - c) /\ Abs((p - h) - (p - c)) = Abs(h - c)
      BY ONLY <3>3, <3>4
    <3> QED BY ONLY <3>1, <3>2, <3>5
  <2>5. Abs(low[i] - close[i - 1]) \in Int /\ Abs(high[i] - close[i - 1]) \in Int
    <3>1. low[i] - close[i - 1] \in Int /\ high[i] - close[i - 1] \in Int
      BY <2>2
    <3>2. \A x \in Int : Abs(x) \in Int
      BY DEF Abs, Larger
    <3> QED BY <3>1, <3>2
  <2>6. \A a, b \in Int : Larger(a, b) = Larger(b, a)
    BY DEF Larger
  <2> QED BY <2>3, <2>4, <2>5, <2>6 DEF TrueRange
<1> QED BY <1>1, <1>2 DEF Atr

-----------------------------------------------------------------------------
(* Upside down: the trend and the momentum.                                *)

Vote(a) == IF a THEN 1 ELSE 0

(* The votes of a tuple of three.                                          *)
LEMMA CountOfThree ==
    ASSUME NEW a \in BOOLEAN, NEW b \in BOOLEAN, NEW c \in BOOLEAN
    PROVE  Count(<<a, b, c>>) = Vote(a) + Vote(b) + Vote(c)
<1> DEFINE A == IF a THEN {1} ELSE {}
           B == IF b THEN A \cup {2} ELSE A
           C == IF c THEN B \cup {3} ELSE B
<1>1. {i \in DOMAIN <<a, b, c>> : <<a, b, c>>[i]} = C
  <2> DEFINE f == <<a, b, c>>
  <2>1. DOMAIN f = {1, 2, 3} /\ f[1] = a /\ f[2] = b /\ f[3] = c
    OBVIOUS
  <2> HIDE DEF f
  <2>2. ({i \in {1, 2, 3} : f[i]} = {}) <=> ~f[1] /\ ~f[2] /\ ~f[3]
    OBVIOUS
  <2>3. {i \in {1, 2, 3} : f[i]} =
           (IF f[1] THEN {1} ELSE {}) \cup (IF f[2] THEN {2} ELSE {}) \cup (IF f[3] THEN {3} ELSE {})
    OBVIOUS
  <2>4. C = (IF a THEN {1} ELSE {}) \cup (IF b THEN {2} ELSE {}) \cup (IF c THEN {3} ELSE {})
    <3>1. B = A \cup (IF b THEN {2} ELSE {})
      OBVIOUS
    <3> HIDE DEF A, B
    <3>2. C = B \cup (IF c THEN {3} ELSE {})
      OBVIOUS
    <3> QED BY <3>1, <3>2 DEF A
  <2> HIDE DEF C
  <2> QED BY <2>1, <2>3, <2>4 DEF f
<1>2. IsFiniteSet(A) /\ Cardinality(A) = Vote(a) /\ A \subseteq {1}
  <2>1. CASE a
    BY <2>1, FS_Singleton DEF Vote
  <2>2. CASE ~a
    BY <2>2, FS_EmptySet DEF Vote
  <2> QED BY <2>1, <2>2
<1>3. IsFiniteSet(B) /\ Cardinality(B) = Vote(a) + Vote(b) /\ B \subseteq {1, 2}
  <2>1. Vote(a) \in Int
    BY DEF Vote
  <2> HIDE DEF A
  <2>2. CASE b
    <3>1. 2 \notin A
      BY <1>2
    <3> QED BY <2>1, <2>2, <3>1, <1>2, FS_AddElement DEF Vote
  <2>3. CASE ~b
    BY <2>1, <2>3, <1>2 DEF Vote
  <2> QED BY <2>2, <2>3
<1>4. Cardinality(C) = Vote(a) + Vote(b) + Vote(c)
  <2>1. Vote(a) + Vote(b) \in Int
    BY DEF Vote
  <2> HIDE DEF B
  <2>2. CASE c
    <3>1. 3 \notin B
      BY <1>3
    <3>2. Cardinality(B \cup {3}) = Cardinality(B) + 1
      BY <3>1, <1>3, FS_AddElement
    <3> QED BY <2>1, <2>2, <3>2, <1>3 DEF Vote
  <2>3. CASE ~c
    BY <2>1, <2>3, <1>3 DEF Vote
  <2> QED BY <2>2, <2>3
<1> QED BY <1>1, <1>4 DEF Count

(* Upside down, the bulls' votes are the bears': the directions are        *)
(* opposite and the points the same, but for the slope of a flat EMA.      *)
LEMMA VotesReflected ==
    ASSUME NEW p \in Int, NEW price \in Int, NEW e20 \in Int, NEW e50 \in Int, NEW e200 \in Int,
           NEW price2, price2 = p - price, NEW d20, d20 = p - e20, NEW d50, d50 = p - e50,
           NEW d200, d200 = p - e200,
           NEW up \in BOOLEAN, NEW up2 \in BOOLEAN, ~(up /\ up2),
           NEW t, t = Votes(price, e20, e50, e200, up),
           NEW u, u = Votes(price2, d20, d50, d200, up2), u.ranging = t.ranging
    PROVE  /\ u.direction = -t.direction
           /\ u.score = t.score + IF t.score > 0 /\ ~up /\ ~up2 THEN 3 * t.direction ELSE 0
<1> DEFINE span == Larger(e20, Larger(e50, e200)) - Smaller(e20, Smaller(e50, e200))
           span2 == Larger(p - e20, Larger(p - e50, p - e200))
                      - Smaller(p - e20, Smaller(p - e50, p - e200))
           near == BelowBp(span, RangingBp, e200)
           near2 == BelowBp(span2, RangingBp, p - e200)
           bulls == Count(<<price > e200, e20 > e50, e50 > e200>>)
           bears == Count(<<price < e200, e20 < e50, e50 < e200>>)
           bulls2 == Count(<<p - price > p - e200, p - e20 > p - e50, p - e50 > p - e200>>)
           bears2 == Count(<<p - price < p - e200, p - e20 < p - e50, p - e50 < p - e200>>)
           Trend(nr, b, r, sl, e) ==
             IF nr THEN [NoTrend EXCEPT !.ema20 = e, !.ranging = TRUE]
             ELSE [direction |-> TrendDirection(b, r),
                   score |-> IF TrendDirection(b, r) = Neutral THEN 0
                             ELSE (IF 3 \in {b, r} THEN 22 ELSE 8)
                                  + (IF sl = (TrendDirection(b, r) = Bullish) THEN 3 ELSE 0),
                   ema20 |-> e, ranging |-> FALSE]
<1>1. /\ t = Trend(near, bulls, bears, up, e20)
      /\ u = Trend(near2, bulls2, bears2, up2, p - e20)
  BY DEF Votes
<1>2. bulls2 = bears /\ bears2 = bulls
  <2>1. /\ (p - price > p - e200) = (price < e200) /\ (p - price < p - e200) = (price > e200)
        /\ (p - e20 > p - e50) = (e20 < e50) /\ (p - e20 < p - e50) = (e20 > e50)
        /\ (p - e50 > p - e200) = (e50 < e200) /\ (p - e50 < p - e200) = (e50 > e200)
    OBVIOUS
  <2> QED BY <2>1
<1>3. bulls \in 0..3 /\ bears \in 0..3 /\ bulls + bears <= 3
  <2>1. bulls = Vote(price > e200) + Vote(e20 > e50) + Vote(e50 > e200)
    <3> DEFINE a == price > e200  b == e20 > e50  c == e50 > e200
    <3>1. a \in BOOLEAN /\ b \in BOOLEAN /\ c \in BOOLEAN
      OBVIOUS
    <3> HIDE DEF a, b, c
    <3>2. Count(<<a, b, c>>) = Vote(a) + Vote(b) + Vote(c)
      BY <3>1, CountOfThree
    <3> QED BY <3>2 DEF a, b, c
  <2>2. bears = Vote(price < e200) + Vote(e20 < e50) + Vote(e50 < e200)
    <3> DEFINE a == price < e200  b == e20 < e50  c == e50 < e200
    <3>1. a \in BOOLEAN /\ b \in BOOLEAN /\ c \in BOOLEAN
      OBVIOUS
    <3> HIDE DEF a, b, c
    <3>2. Count(<<a, b, c>>) = Vote(a) + Vote(b) + Vote(c)
      BY <3>1, CountOfThree
    <3> QED BY <3>2 DEF a, b, c
  <2>3. \A a, b \in Int : /\ Vote(a > b) \in {0, 1} /\ Vote(a < b) \in {0, 1}
                          /\ Vote(a > b) + Vote(a < b) <= 1
    BY DEF Vote
  <2> QED BY <2>1, <2>2, <2>3
<1>4. near \in BOOLEAN /\ near2 \in BOOLEAN
  BY DEF BelowBp
<1> HIDE DEF bulls, bears, bulls2, bears2, near, near2
<1>5. near2 = near
  <2>1. near => t.ranging = TRUE
    BY <1>1 DEF NoTrend
  <2>2. ~near => t.ranging = FALSE
    BY <1>1
  <2>3. near2 => u.ranging = TRUE
    BY <1>1 DEF NoTrend
  <2>4. ~near2 => u.ranging = FALSE
    BY <1>1
  <2> QED BY <2>1, <2>2, <2>3, <2>4, <1>4
<1>6. CASE near
  <2>1. /\ t = [NoTrend EXCEPT !.ema20 = e20, !.ranging = TRUE]
        /\ u = [NoTrend EXCEPT !.ema20 = p - e20, !.ranging = TRUE]
    BY <1>1, <1>5, <1>6
  <2>2. t.direction = 0 /\ t.score = 0 /\ u.direction = 0 /\ u.score = 0
    BY <2>1 DEF NoTrend, Neutral
  <2> QED BY <2>2
<1>7. CASE ~near
  <2> DEFINE d == TrendDirection(bulls, bears)
             c == TrendDirection(bears, bulls)
             full == IF 3 \in {bulls, bears} THEN 22 ELSE 8
             full2 == IF 3 \in {bears, bulls} THEN 22 ELSE 8
             plus == IF up = (d = Bullish) THEN 3 ELSE 0
             plus2 == IF up2 = (c = Bullish) THEN 3 ELSE 0
  <2>1. d \in {-1, 0, 1} /\ c = -d
    BY <1>3 DEF TrendDirection, Bullish, Bearish, Neutral
  <2>2. full \in {22, 8} /\ full2 = full
    OBVIOUS
  <2>3. /\ t.direction = d /\ t.score = IF d = 0 THEN 0 ELSE full + plus
        /\ u.direction = c /\ u.score = IF c = 0 THEN 0 ELSE full2 + plus2
    BY <1>1, <1>2, <1>5, <1>7 DEF Neutral
  <2> DEFINE flat == ~up /\ ~up2
  <2>4. up \in BOOLEAN /\ up2 \in BOOLEAN /\ (flat => ~up /\ ~up2) /\ (~flat => (up2 <=> ~up))
    OBVIOUS
  <2> HIDE DEF d, c, full, full2
  <2>5. plus \in {0, 3} /\ plus2 \in {0, 3}
    OBVIOUS
  <2>6. /\ d = 1 /\ ~flat => plus2 = plus
        /\ d = -1 /\ ~flat => plus2 = plus
        /\ d = 1 /\ flat => plus = 0 /\ plus2 = 3
        /\ d = -1 /\ flat => plus = 3 /\ plus2 = 0
    BY <2>1, <2>4 DEF Bullish
  <2> HIDE DEF plus, plus2
  <2> QED BY <2>1, <2>2, <2>3, <2>5, <2>6
<1> QED BY <1>6, <1>7

(* One RSI is above where the other is below.                              *)
LEMMA RsiSwapped ==
    ASSUME NEW gain \in Int, NEW loss \in Int
    PROVE  \A x \in Int : RsiAbove(RsiFrom(gain, loss), x) <=> RsiBelow(RsiFrom(loss, gain), 100 - x)
<1> SUFFICES ASSUME NEW x \in Int
             PROVE  RsiAbove(RsiFrom(gain, loss), x) <=> RsiBelow(RsiFrom(loss, gain), 100 - x)
  OBVIOUS
<1>1. CASE gain = 0 /\ loss = 0
  BY <1>1 DEF RsiFrom, RsiAbove, RsiBelow
<1>2. CASE ~(gain = 0 /\ loss = 0)
  <2>1. /\ RsiFrom(gain, loss) = [num |-> gain, den |-> gain + loss]
        /\ RsiFrom(loss, gain) = [num |-> loss, den |-> loss + gain]
    BY <1>2 DEF RsiFrom
  <2>2. /\ RsiAbove(RsiFrom(gain, loss), x) <=> 100 * gain > x * (gain + loss)
        /\ RsiBelow(RsiFrom(loss, gain), 100 - x) <=> 100 * loss < (100 - x) * (loss + gain)
    BY <2>1 DEF RsiAbove, RsiBelow
  <2>3. (100 - x) * (loss + gain) = 100 * loss + 100 * gain - x * (gain + loss)
    OBVIOUS
  <2>4. x * (gain + loss) \in Int
    OBVIOUS
  <2> QED BY <2>2, <2>3, <2>4
<1> QED BY <1>1, <1>2

(* Opposite directions, opposite numbers, and an RSI upside down.          *)
Opposed(d, e) == d \in Directions /\ e = -d

Negatives(x, y) == x \in Int /\ y \in Int /\ x + y = 0

Inverted(r, s) == \E gain, loss \in Int : r = RsiFrom(gain, loss) /\ s = RsiFrom(loss, gain)

(* An inverted RSI is above x where the RSI is below 100 - x.              *)
LEMMA InvertedCompares ==
    ASSUME NEW r, NEW s, Inverted(r, s)
    PROVE  /\ RsiAbove(r, 50) <=> RsiBelow(s, 50)
           /\ RsiBelow(r, 50) <=> RsiAbove(s, 50)
           /\ RsiAbove(r, 30) <=> RsiBelow(s, 70)
           /\ RsiBelow(r, 70) <=> RsiAbove(s, 30)
           /\ RsiAbove(r, 60) <=> RsiBelow(s, 40)
           /\ RsiBelow(r, 40) <=> RsiAbove(s, 60)
           /\ ~(RsiAbove(r, 50) /\ RsiBelow(r, 50))
<1>1. PICK gain \in Int, loss \in Int : r = RsiFrom(gain, loss) /\ s = RsiFrom(loss, gain)
  BY DEF Inverted
<1>2. \A x \in Int : RsiAbove(r, x) <=> RsiBelow(s, 100 - x)
  BY <1>1, RsiSwapped
<1>3. \A x \in Int : RsiAbove(s, x) <=> RsiBelow(r, 100 - x)
  BY <1>1, RsiSwapped
<1>4. ~(RsiAbove(r, 50) /\ RsiBelow(r, 50))
  BY <1>1 DEF RsiFrom, RsiAbove, RsiBelow
<1>5. 100 - 50 = 50 /\ 100 - 30 = 70 /\ 100 - 60 = 40
  OBVIOUS
<1> QED BY <1>2, <1>3, <1>4, <1>5

(* The momentum upside down.                                               *)
LEMMA AgreementReflected ==
    ASSUME NEW r, NEW s, Inverted(r, s), NEW macd, NEW macd2, Negatives(macd, macd2),
           NEW hist, NEW hist2, Negatives(hist, hist2)
    PROVE  /\ Opposed(Agreement(r, macd, hist).direction, Agreement(s, macd2, hist2).direction)
           /\ Agreement(s, macd2, hist2).score = Agreement(r, macd, hist).score
<1>1. /\ macd > 0 <=> macd2 < 0
      /\ macd < 0 <=> macd2 > 0
      /\ hist > 0 <=> hist2 < 0
      /\ hist < 0 <=> hist2 > 0
  BY DEF Negatives
<1>2. /\ RsiAbove(r, 50) <=> RsiBelow(s, 50)
      /\ RsiBelow(r, 50) <=> RsiAbove(s, 50)
      /\ RsiAbove(r, 30) <=> RsiBelow(s, 70)
      /\ RsiBelow(r, 70) <=> RsiAbove(s, 30)
      /\ ~(RsiAbove(r, 50) /\ RsiBelow(r, 50))
  BY InvertedCompares
<1> QED BY <1>1, <1>2 DEF Agreement, Opposed, Directions, Bullish, Bearish, Neutral

-----------------------------------------------------------------------------
(* Upside down: the swings and the structure.                              *)

(* Swings are positions of the series.                                     *)
LEMMA SwingsWithin ==
    ASSUME NEW v, Len(v) \in Nat
    PROVE  SwingHighs(v) \subseteq 1..Len(v) /\ SwingLows(v) \subseteq 1..Len(v)
<1>1. FractalHalf \in Nat
  BY AnalysisAssumption DEF AnalysisAssumption
<1>2. (FractalHalf + 1)..(Len(v) - FractalHalf) \subseteq 1..Len(v)
  BY <1>1
<1>3. SwingHighs(v) \subseteq (FractalHalf + 1)..(Len(v) - FractalHalf)
  BY DEF SwingHighs
<1>4. SwingLows(v) \subseteq (FractalHalf + 1)..(Len(v) - FractalHalf)
  BY DEF SwingLows
<1> QED BY <1>2, <1>3, <1>4

(* Swing highs become swing lows.                                          *)
LEMMA SwingsReflected ==
    ASSUME NEW v, NEW w, NEW p \in Int, Reflects(w, v, p)
    PROVE  SwingHighs(w) = SwingLows(v) /\ SwingLows(w) = SwingHighs(v)
<1> DEFINE inner == (FractalHalf + 1)..(Len(v) - FractalHalf)
<1>1. FractalHalf \in Nat /\ Len(v) \in Nat /\ Len(w) = Len(v)
  BY AnalysisAssumption DEF AnalysisAssumption, Reflects
<1>2. ASSUME NEW i \in inner, NEW k \in 1..FractalHalf
      PROVE  /\ w[i - k] < w[i] <=> v[i - k] > v[i]
             /\ w[i + k] < w[i] <=> v[i + k] > v[i]
             /\ w[i - k] > w[i] <=> v[i - k] < v[i]
             /\ w[i + k] > w[i] <=> v[i + k] < v[i]
  <2>1. i \in 1..Len(v) /\ i - k \in 1..Len(v) /\ i + k \in 1..Len(v)
    BY <1>1
  <2>2. /\ v[i] \in Int /\ v[i - k] \in Int /\ v[i + k] \in Int
        /\ w[i] = p - v[i] /\ w[i - k] = p - v[i - k] /\ w[i + k] = p - v[i + k]
    BY <2>1 DEF Reflects, Opposes
  <2>3. PICK x \in Int, y \in Int, z \in Int : x = v[i - k] /\ y = v[i] /\ z = v[i + k]
    BY <2>2
  <2>4. w[i - k] = p - x /\ w[i] = p - y /\ w[i + k] = p - z
    BY <2>2, <2>3
  <2>5. /\ p - x < p - y <=> x > y
        /\ p - z < p - y <=> z > y
        /\ p - x > p - y <=> x < y
        /\ p - z > p - y <=> z < y
    OBVIOUS
  <2> QED BY ONLY <2>3, <2>4, <2>5
<1>3. /\ SwingHighs(w) = {i \in inner : \A k \in 1..FractalHalf : w[i - k] < w[i] /\ w[i + k] < w[i]}
      /\ SwingLows(v) = {i \in inner : \A k \in 1..FractalHalf : v[i - k] > v[i] /\ v[i + k] > v[i]}
      /\ SwingLows(w) = {i \in inner : \A k \in 1..FractalHalf : w[i - k] > w[i] /\ w[i + k] > w[i]}
      /\ SwingHighs(v) = {i \in inner : \A k \in 1..FractalHalf : v[i - k] < v[i] /\ v[i + k] < v[i]}
  BY <1>1 DEF SwingHighs, SwingLows
<1> HIDE DEF inner
<1> QED BY <1>2, <1>3

(* Ascending swings become descending ones.                                *)
LEMMA TrendsReflected ==
    ASSUME NEW v, NEW w, NEW p \in Int, Reflects(w, v, p), NEW S, S \subseteq 1..Len(v)
    PROVE  /\ Ascending(S, w) <=> Descending(S, v)
           /\ Descending(S, w) <=> Ascending(S, v)
<1>1. ASSUME NEW i \in S, NEW j \in S
      PROVE  (w[i] < w[j] <=> v[i] > v[j]) /\ (w[i] > w[j] <=> v[i] < v[j])
  <2>1. v[i] \in Int /\ v[j] \in Int /\ w[i] = p - v[i] /\ w[j] = p - v[j]
    BY DEF Reflects, Opposes
  <2> QED BY <2>1
<1> QED BY <1>1 DEF Ascending, Descending

(* The last of some swings is one of them.                                 *)
LEMMA LastSwing ==
    ASSUME NEW n \in Nat, NEW S, S \subseteq 1..n, Cardinality(S) >= 2
    PROVE  Max(S) \in S
<1>1. S # {}
  BY FS_EmptySet
<1>2. \E k \in S : \A j \in S : j <= k
  <2>1. 1 \in Int /\ n \in Int
    OBVIOUS
  <2> QED BY <1>1, <2>1, GreatestElement
<1>3. \E k \in S : \A j \in S : k >= j
  BY <1>2
<1> QED BY <1>3 DEF Max

(* Two or more swings do not ascend and descend.                           *)
LEMMA AscendingNotDescending ==
    ASSUME NEW v, NEW n \in Nat, NEW S, S \subseteq 1..n, \A i \in S : v[i] \in Int
    PROVE  ~(Ascending(S, v) /\ Descending(S, v))
<1> SUFFICES ASSUME Ascending(S, v), Descending(S, v) PROVE FALSE
  OBVIOUS
<1>1. Max(S) \in S
  BY LastSwing DEF Ascending
<1>2. \E j \in S : j # Max(S)
  <2> SUFFICES ASSUME S = {Max(S)} PROVE FALSE
    BY <1>1
  <2>1. Cardinality(S) = 1
    BY FS_Singleton
  <2> QED BY <2>1 DEF Ascending
<1>3. PICK j \in S : j # Max(S)
  BY <1>2
<1>4. j \in Int /\ Max(S) \in Int /\ v[j] \in Int /\ v[Max(S)] \in Int
  <2>1. S \subseteq Int
    OBVIOUS
  <2> QED BY <1>1, <1>3, <2>1
<1>5. \/ v[j] < v[Max(S)] /\ v[j] > v[Max(S)]
      \/ v[Max(S)] < v[j] /\ v[Max(S)] > v[j]
  <2>1. j < Max(S) \/ Max(S) < j
    BY <1>3, <1>4
  <2> QED BY <2>1, <1>1 DEF Ascending, Descending
<1> QED BY <1>4, <1>5

(* The structure upside down, from the recent swings ...                   *)
LEMMA SwingsOfReflected ==
    ASSUME NEW p \in Int, NEW high, NEW low, NEW high2, NEW low2, NEW n \in Nat,
           Reflects(high2, low, p), Reflects(low2, high, p), Len(high) = n, Len(low) = n,
           NEW sh, NEW sl, sh \subseteq 1..n, sl \subseteq 1..n, NEW price \in Int
    PROVE  Swings(sl, sh, high2, low2, p - price) =
             [Swings(sh, sl, high, low, price) EXCEPT !.direction = -@]
<1> DEFINE Direction(u, d) == IF u THEN Bullish ELSE IF d THEN Bearish ELSE Neutral
           up == Ascending(sh, high) /\ Ascending(sl, low)
           down == Descending(sh, high) /\ Descending(sl, low)
           c == Direction(up, down)
           d == Direction(down, up)
           over == price > high[Max(sh)]
           under == price < low[Max(sl)]
           over2 == p - price > high2[Max(sl)]
           under2 == p - price < low2[Max(sh)]
           above == sh # {} /\ \A i \in sh : price > high[i]
           below == sl # {} /\ \A i \in sl : price < low[i]
           above2 == sl # {} /\ \A i \in sl : p - price > high2[i]
           below2 == sh # {} /\ \A i \in sh : p - price < low2[i]
           many == Cardinality(sh) >= 3 /\ Cardinality(sl) >= 3
           Result(e, bos, choch) ==
              [direction |-> e,
               score |-> IF e = Neutral THEN 0
                         ELSE 12 + (IF bos THEN 5 ELSE 0) + (IF many THEN 3 ELSE 0),
               bos |-> bos, choch |-> choch]
<1>1. /\ Swings(sh, sl, high, low, price) =
           Result(c, (c = Bullish /\ over) \/ (c = Bearish /\ under), c = Neutral /\ (above \/ below))
      /\ Swings(sl, sh, high2, low2, p - price) =
           Result(d, (d = Bullish /\ over2) \/ (d = Bearish /\ under2), d = Neutral /\ (above2 \/ below2))
  <2>1. /\ Ascending(sl, high2) <=> Descending(sl, low)
        /\ Descending(sl, high2) <=> Ascending(sl, low)
    BY TrendsReflected
  <2>2. /\ Ascending(sh, low2) <=> Descending(sh, high)
        /\ Descending(sh, low2) <=> Ascending(sh, high)
    BY TrendsReflected
  <2> QED BY <2>1, <2>2 DEF Swings
<1>2. /\ \A i \in sl : low[i] \in Int /\ high2[i] = p - low[i]
      /\ \A i \in sh : high[i] \in Int /\ low2[i] = p - high[i]
  BY DEF Reflects, Opposes
<1>3. above2 = below /\ below2 = above
  <2>1. ASSUME NEW i \in sl PROVE p - price > high2[i] <=> price < low[i]
    BY <1>2
  <2>2. ASSUME NEW i \in sh PROVE p - price < low2[i] <=> price > high[i]
    BY <1>2
  <2> QED BY <2>1, <2>2
<1>4. c \in {-1, 0, 1} /\ d = -c
  <2>1. ~(Ascending(sh, high) /\ Descending(sh, high))
    BY <1>2, AscendingNotDescending
  <2> QED BY <2>1 DEF Bullish, Bearish, Neutral
<1>5. /\ c = Bullish => (under2 <=> over)
      /\ c = Bearish => (over2 <=> under)
  <2>1. ASSUME c = Bullish PROVE under2 <=> over
    <3>1. up
      BY <2>1 DEF Bullish, Bearish, Neutral
    <3>2. Max(sh) \in sh
      BY <3>1, LastSwing DEF Ascending
    <3>3. PICK x \in Int : x = high[Max(sh)] /\ low2[Max(sh)] = p - x
      BY <3>2, <1>2
    <3>4. p - price < p - x <=> price > x
      OBVIOUS
    <3> QED BY <3>3, <3>4
  <2>2. ASSUME c = Bearish PROVE over2 <=> under
    <3>1. down
      BY <2>2 DEF Bullish, Bearish, Neutral
    <3>2. Max(sl) \in sl
      BY <3>1, LastSwing DEF Descending
    <3>3. PICK x \in Int : x = low[Max(sl)] /\ high2[Max(sl)] = p - x
      BY <3>2, <1>2
    <3>4. p - price > p - x <=> price < x
      OBVIOUS
    <3> QED BY <3>3, <3>4
  <2> QED BY <2>1, <2>2
<1> DEFINE bos == (c = Bullish /\ over) \/ (c = Bearish /\ under)
           bos2 == (d = Bullish /\ over2) \/ (d = Bearish /\ under2)
           choch == c = Neutral /\ (above \/ below)
           choch2 == d = Neutral /\ (above2 \/ below2)
<1>6. /\ bos2 = bos /\ choch2 = choch
      /\ c = Neutral <=> d = Neutral
  <2> HIDE DEF c, d, over, under, over2, under2, above, below, above2, below2
  <2> QED BY <1>3, <1>4, <1>5 DEF Bullish, Bearish, Neutral
<1> HIDE DEF c, d, bos, bos2, choch, choch2, many
<1>7. /\ Swings(sh, sl, high, low, price) = Result(c, bos, choch)
      /\ Swings(sl, sh, high2, low2, p - price) = Result(d, bos2, choch2)
  BY <1>1 DEF bos, bos2, choch, choch2
<1> QED BY <1>4, <1>6, <1>7

(* ... and from the candles.                                               *)
LEMMA StructureReflected ==
    ASSUME NEW p \in Int, NEW high, NEW low, NEW close, NEW high2, NEW low2, NEW close2,
           Reflects(high2, low, p), Reflects(low2, high, p), Reflects(close2, close, p),
           Len(high) = Len(close), Len(low) = Len(close), Len(close) > 0
    PROVE  /\ AnalyzeStructure(high2, low2, close2) =
                [AnalyzeStructure(high, low, close) EXCEPT !.direction = -@]
           /\ Opposed(AnalyzeStructure(high, low, close).direction,
                      AnalyzeStructure(high2, low2, close2).direction)
           /\ AnalyzeStructure(high2, low2, close2).score = AnalyzeStructure(high, low, close).score
<1> DEFINE n == Len(close)
<1>1. /\ n \in Nat /\ Len(close2) = n /\ Len(high) = n /\ Len(low) = n
      /\ close[n] \in Int /\ close2[n] = p - close[n]
  BY DEF Reflects, Opposes
<1>2. SwingHighs(high2) = SwingLows(low) /\ SwingLows(low2) = SwingHighs(high)
  BY SwingsReflected
<1>3. Recent(SwingLows(low)) \subseteq 1..n /\ Recent(SwingHighs(high)) \subseteq 1..n
  BY <1>1, SwingsWithin DEF Recent
<1>4. Swings(Recent(SwingLows(low)), Recent(SwingHighs(high)), high2, low2, p - close[n]) =
         [Swings(Recent(SwingHighs(high)), Recent(SwingLows(low)), high, low, close[n])
            EXCEPT !.direction = -@]
  <2> DEFINE sl == Recent(SwingLows(low))
             sh == Recent(SwingHighs(high))
             price == close[n]
  <2>1. sh \subseteq 1..n /\ sl \subseteq 1..n
    BY <1>3
  <2>2. price \in Int /\ n \in Nat /\ Len(high) = n /\ Len(low) = n
    BY <1>1
  <2> HIDE DEF sl, sh, price, n
  <2>3. Swings(sl, sh, high2, low2, p - price) =
           [Swings(sh, sl, high, low, price) EXCEPT !.direction = -@]
    BY <2>1, <2>2, SwingsOfReflected
  <2> QED BY <2>3 DEF sl, sh, price
<1> DEFINE Goal == AnalyzeStructure(high2, low2, close2) =
                     [AnalyzeStructure(high, low, close) EXCEPT !.direction = -@]
<1>5. ASSUME n < StructureHistory PROVE Goal
  BY <1>1, <1>5 DEF AnalyzeStructure, Neutral
<1>6. ASSUME ~(n < StructureHistory) PROVE Goal
  BY <1>1, <1>2, <1>4, <1>6 DEF AnalyzeStructure
<1>7. Goal
  BY <1>5, <1>6
<1>8. AnalyzeStructure(high, low, close).direction \in Directions
  BY StructureTyped
<1>9. DOMAIN AnalyzeStructure(high, low, close) = {"direction", "score", "bos", "choch"}
  BY DEF AnalyzeStructure, Swings
<1> DEFINE s == AnalyzeStructure(high, low, close)
           s2 == AnalyzeStructure(high2, low2, close2)
<1> HIDE DEF s, s2
<1>10. s2.direction = -s.direction /\ s2.score = s.score
  BY <1>7, <1>9 DEF s, s2
<1> QED BY <1>7, <1>8, <1>10 DEF Opposed, s, s2

-----------------------------------------------------------------------------
(* Upside down: the zones. They are the only way to cut the swings into    *)
(* chained sets that are apart, whatever end one begins at.                *)

(* v has integers on S, and w is v reflected there.                        *)
Levelled(S, v) == \A i \in S : v[i] \in Int

Turned(S, w, v, p) == \A i \in S : v[i] \in Int /\ w[i] = p - v[i]

(* No two members are within half an ATR of one another.                   *)
Separated(C, v, atr) ==
    \A Y, Z \in C : Y # Z =>
        \A i \in Y, j \in Z : 2 * (v[j] - v[i]) > atr \/ 2 * (v[i] - v[j]) > atr

(* From each swing of a member but the highest, a step of at most half an  *)
(* ATR leads up to another.                                                *)
Chained(C, v, atr) ==
    \A Z \in C : \A i, j \in Z : v[i] < v[j] =>
        \E h \in Z : v[h] > v[i] /\ 2 * (v[h] - v[i]) <= atr

(* A step of a chain does not leave a separated member.                    *)
LEMMA ChainStays ==
    ASSUME NEW v, NEW S, Levelled(S, v), NEW atr \in Nat,
           NEW C, UNION C \subseteq S, Chained(C, v, atr),
           NEW D, UNION D = S, Separated(D, v, atr),
           NEW Z \in C, NEW Y \in D, NEW i \in Z, i \in Y, NEW j \in Z, v[i] < v[j]
    PROVE  j \in Y
<1> SUFFICES ASSUME j \notin Y PROVE FALSE
  OBVIOUS
<1>1. \A h \in Z : h \in S /\ v[h] \in Int
  BY DEF Levelled
<1> DEFINE A == {v[h] : h \in {g \in Z : g \in Y /\ v[i] <= v[g] /\ v[g] < v[j]}}
<1>2. A \subseteq v[i]..v[j] /\ A # {} /\ v[i] \in Int /\ v[j] \in Int
  <2>1. v[i] \in A
    BY <1>1
  <2>2. A \subseteq v[i]..v[j]
    BY <1>1
  <2> HIDE DEF A
  <2> QED BY <2>1, <2>2, <1>1
<1>3. PICK m \in A : \A l \in A : l <= m
  <2> HIDE DEF A
  <2> QED BY <1>2, GreatestElement
<1>4. PICK h0 \in Z : h0 \in Y /\ v[i] <= v[h0] /\ v[h0] < v[j] /\ m = v[h0]
  BY <1>3
<1>5. PICK h \in Z : v[h] > v[h0] /\ 2 * (v[h] - v[h0]) <= atr
  BY <1>4 DEF Chained
<1>6. v[i] \in Int /\ v[j] \in Int /\ v[h0] \in Int /\ v[h] \in Int
  BY <1>1
<1>7. ASSUME NEW k \in Z, k \notin Y, v[h0] <= v[k], v[k] <= v[h] PROVE FALSE
  <2>1. PICK X \in D : k \in X
    BY <1>1
  <2>2. X # Y
    BY <1>7, <2>1
  <2>3. 2 * (v[k] - v[h0]) > atr \/ 2 * (v[h0] - v[k]) > atr
    BY <1>4, <2>1, <2>2 DEF Separated
  <2>4. v[k] \in Int
    BY <1>1
  <2> QED BY <1>5, <1>6, <1>7, <2>3, <2>4
<1>8. CASE h \in Y /\ v[h] < v[j]
  <2>1. v[i] <= v[h]
    BY <1>4, <1>5, <1>6
  <2>2. v[h] \in A
    BY <2>1, <1>8
  <2> HIDE DEF A
  <2>3. v[h] <= v[h0]
    BY <2>2, <1>3, <1>4
  <2> QED BY <2>3, <1>5, <1>6
<1>9. CASE ~(v[h] < v[j])
  BY <1>4, <1>6, <1>7, <1>9
<1>10. CASE h \notin Y
  BY <1>5, <1>6, <1>7, <1>10
<1> QED BY <1>8, <1>9, <1>10

(* So each chained member lies in a separated one, ...                     *)
LEMMA ChainedWithinSeparated ==
    ASSUME NEW v, NEW S, Levelled(S, v), NEW atr \in Nat,
           NEW C, UNION C = S, Chained(C, v, atr),
           NEW D, UNION D = S, Separated(D, v, atr),
           NEW Z \in C, Z # {}
    PROVE  \E Y \in D : Z \subseteq Y
<1>1. PICK i \in Z : TRUE
  OBVIOUS
<1>2. \A h \in Z : h \in S /\ v[h] \in Int
  BY DEF Levelled
<1>3. PICK Y \in D : i \in Y
  BY <1>2
<1>4. ASSUME NEW j \in Z PROVE j \in Y
  <2>1. CASE v[i] < v[j]
    BY <1>3, <2>1, ChainStays
  <2>2. PICK X \in D : j \in X
    BY <1>2
  <2>3. v[i] \in Int /\ v[j] \in Int
    BY <1>2
  <2>4. CASE v[j] < v[i]
    <3>1. i \in X
      BY <2>2, <2>4, ChainStays
    <3> SUFFICES ASSUME X # Y PROVE FALSE
      BY <2>2
    <3>2. 2 * (v[i] - v[i]) > atr
      BY <3>1, <1>3 DEF Separated
    <3> QED BY <2>3, <3>2
  <2>5. CASE v[i] = v[j]
    <3> SUFFICES ASSUME X # Y PROVE FALSE
      BY <2>2
    <3>1. 2 * (v[j] - v[i]) > atr \/ 2 * (v[i] - v[j]) > atr
      BY <1>3, <2>2 DEF Separated
    <3> QED BY <2>3, <2>5, <3>1
  <2> QED BY <2>1, <2>3, <2>4, <2>5
<1> QED BY <1>4

(* ... and two clusterings that are both are the same set of zones.        *)
LEMMA OneClustering ==
    ASSUME NEW v, NEW w, NEW p \in Int, NEW S, NEW atr \in Nat,
           Turned(S, w, v, p),
           NEW C, UNION C = S, {} \notin C, Chained(C, v, atr), Separated(C, v, atr),
           NEW D, UNION D = S, {} \notin D, Chained(D, w, atr), Separated(D, w, atr)
    PROVE  C = D
<1>1. Separated(D, v, atr) /\ Separated(C, w, atr)
  <2>1. \A i, j \in S : /\ 2 * (v[j] - v[i]) = 2 * (w[i] - w[j])
                        /\ 2 * (v[i] - v[j]) = 2 * (w[j] - w[i])
    BY DEF Turned
  <2>2. \A Y \in C : Y \subseteq S
    OBVIOUS
  <2>3. \A Y \in D : Y \subseteq S
    OBVIOUS
  <2> QED BY <2>1, <2>2, <2>3 DEF Separated
<1>2. Levelled(S, v) /\ Levelled(S, w)
  BY DEF Turned, Levelled
<1>3. \A Z \in C : \E Y \in D : Z \subseteq Y
  <2> SUFFICES ASSUME NEW Z \in C PROVE \E Y \in D : Z \subseteq Y
    OBVIOUS
  <2>1. Z # {}
    OBVIOUS
  <2> QED BY <2>1, <1>1, <1>2, ChainedWithinSeparated
<1>4. \A Y \in D : \E Z \in C : Y \subseteq Z
  <2> SUFFICES ASSUME NEW Y \in D PROVE \E Z \in C : Y \subseteq Z
    OBVIOUS
  <2>1. Y # {}
    OBVIOUS
  <2> QED BY <2>1, <1>1, <1>2, ChainedWithinSeparated
<1>5. ASSUME NEW Y \in C, NEW Z \in C, Y \subseteq Z PROVE Y = Z
  <2>1. PICK i \in Y : TRUE
    OBVIOUS
  <2>2. i \in S /\ v[i] \in Int
    BY <1>2 DEF Levelled
  <2> SUFFICES ASSUME Y # Z PROVE FALSE
    OBVIOUS
  <2>3. 2 * (v[i] - v[i]) > atr
    BY <1>5, <2>1 DEF Separated
  <2> QED BY <2>2, <2>3
<1>6. ASSUME NEW Y \in D, NEW Z \in D, Y \subseteq Z PROVE Y = Z
  <2>1. PICK i \in Y : TRUE
    OBVIOUS
  <2>2. i \in S /\ v[i] \in Int
    BY <1>2 DEF Levelled
  <2> SUFFICES ASSUME Y # Z PROVE FALSE
    OBVIOUS
  <2>3. 2 * (v[i] - v[i]) > atr
    BY <1>1, <1>6, <2>1 DEF Separated
  <2> QED BY <2>2, <2>3
<1>7. C \subseteq D
  <2> SUFFICES ASSUME NEW Z \in C PROVE Z \in D
    OBVIOUS
  <2>1. PICK Y \in D : Z \subseteq Y
    BY <1>3
  <2>2. PICK X \in C : Y \subseteq X
    BY <1>4
  <2>3. Z = X
    BY <2>1, <2>2, <1>5
  <2>4. Y = Z
    <3>1. \A i : i \in Y <=> i \in Z
      BY <2>1, <2>2, <2>3
    <3> QED BY <3>1
  <2> QED BY <2>4
<1>8. D \subseteq C
  <2> SUFFICES ASSUME NEW Z \in D PROVE Z \in C
    OBVIOUS
  <2>1. PICK Y \in C : Z \subseteq Y
    BY <1>4
  <2>2. PICK X \in D : Y \subseteq X
    BY <1>3
  <2>3. Z = X
    BY <2>1, <2>2, <1>6
  <2>4. Y = Z
    <3>1. \A i : i \in Y <=> i \in Z
      BY <2>1, <2>2, <2>3
    <3> QED BY <3>1
  <2> QED BY <2>4
<1> QED BY <1>7, <1>8

(* Components in order (AreComponents) are separated and chained.          *)
LEMMA ComponentsCluster ==
    ASSUME NEW S, NEW zs \in Seq(SUBSET S), NEW v, NEW atr, AreComponents(zs, S, v, atr)
    PROVE  /\ UNION ToSet(zs) = S /\ {} \notin ToSet(zs)
           /\ Chained(ToSet(zs), v, atr) /\ Separated(ToSet(zs), v, atr)
<1>1. ToSet(zs) = {zs[k] : k \in DOMAIN zs} /\ DOMAIN zs \subseteq Int
  BY DEF ToSet
<1>2. UNION ToSet(zs) = S /\ {} \notin ToSet(zs)
  BY <1>1 DEF AreComponents
<1>3. Chained(ToSet(zs), v, atr)
  BY <1>1 DEF AreComponents, Chained
<1>4. Separated(ToSet(zs), v, atr)
  <2> SUFFICES ASSUME NEW k \in DOMAIN zs, NEW m \in DOMAIN zs, zs[k] # zs[m],
                      NEW i \in zs[k], NEW j \in zs[m]
               PROVE  2 * (v[j] - v[i]) > atr \/ 2 * (v[i] - v[j]) > atr
    BY <1>1 DEF Separated
  <2>1. k < m \/ m < k
    BY <1>1
  <2> QED BY <2>1 DEF AreComponents
<1> QED BY <1>2, <1>3, <1>4

(* Upside down, the zones are the same sets of swings: they come in the    *)
(* reverse order and are found from the other end, but there is one        *)
(* clustering only.                                                        *)
LEMMA ZonesReflected ==
    ASSUME NEW v, NEW w, NEW p \in Int, Reflects(w, v, p), NEW S, S \subseteq 1..Len(v),
           \A i \in S : v[i] \in Nat /\ w[i] \in Nat, NEW atr \in Nat
    PROVE  ToSet(Zones(S, w, atr)) = ToSet(Zones(S, v, atr))
<1>1. Turned(S, w, v, p)
  BY DEF Reflects, Opposes, Turned
<1>2. AreComponents(Zones(S, v, atr), S, v, atr) /\ Zones(S, v, atr) \in Seq(SUBSET S)
  <2>1. Len(v) \in Nat /\ atr \in Int
    BY DEF Reflects
  <2>2. \A i \in S : v[i] \in Nat
    OBVIOUS
  <2>3. S \subseteq 1..Len(v)
    OBVIOUS
  <2> QED BY <2>1, <2>2, <2>3, ClusterMakesComponents, ZenonT(30)
<1>3. AreComponents(Zones(S, w, atr), S, w, atr) /\ Zones(S, w, atr) \in Seq(SUBSET S)
  <2>1. Len(v) \in Nat /\ atr \in Int
    BY DEF Reflects
  <2>2. \A i \in S : w[i] \in Nat
    OBVIOUS
  <2>3. S \subseteq 1..Len(v)
    OBVIOUS
  <2> QED BY <2>1, <2>2, <2>3, ClusterMakesComponents, ZenonT(30)
<1> DEFINE C == ToSet(Zones(S, v, atr))
           D == ToSet(Zones(S, w, atr))
<1>4. UNION C = S /\ {} \notin C /\ Chained(C, v, atr) /\ Separated(C, v, atr)
  BY <1>2, ComponentsCluster
<1>5. UNION D = S /\ {} \notin D /\ Chained(D, w, atr) /\ Separated(D, w, atr)
  BY <1>3, ComponentsCluster
<1> HIDE DEF C, D
<1>6. C = D
  BY <1>1, <1>4, <1>5, OneClustering
<1> QED BY <1>6 DEF C, D

-----------------------------------------------------------------------------
(* Upside down: the levels of the zones.                                   *)

(* One at the members of a zone: a zone has as many swings as these sum up *)
(* to.                                                                     *)
Members(zone, n) == [i \in 1..n |-> IF i \in zone THEN 1 ELSE 0]

(* The sum of a zone's indicator is its size.                              *)
LEMMA SumOfMembers ==
    ASSUME NEW n \in Nat, NEW zone, zone \subseteq 1..n
    PROVE  /\ SumOver(Members(zone, n), 1, n) = Cardinality(zone)
           /\ Cardinality(zone) \in Nat /\ IsFiniteSet(zone)
           /\ zone # {} => Cardinality(zone) > 0
<1> DEFINE f == Members(zone, n)
           upto(k) == {i \in zone : i <= k}
<1>1. \A i \in 1..n : f[i] = IF i \in zone THEN 1 ELSE 0
  BY DEF Members
<1> HIDE DEF f
<1>a. \A i \in zone : i \in Int /\ 1 <= i /\ i <= n
  OBVIOUS
<1>2. IsFiniteSet(zone)
  <2>1. IsFiniteSet(1..n)
    BY FS_Interval
  <2> QED BY <2>1, FS_Subset
<1>3. PICK s \in [(1 - 1)..n -> Int] : ArePartialSums(s, f, 1, n) /\ SumOver(f, 1, n) = s[n]
  <2>1. Int \in {Nat, Int} /\ 1 \in Int /\ n \in Int /\ 1 - 1 <= n
    OBVIOUS
  <2>2. \A i \in 1..n : f[i] \in Int
    BY <1>1
  <2> QED BY <2>1, <2>2, PartialSums, ZenonT(30)
<1> DEFINE T == {k \in 0..n : IsFiniteSet(upto(k)) /\ s[k] = Cardinality(upto(k))}
<1>4. 0 \in T
  <2>1. upto(0) = {}
    BY ONLY <1>a
  <2>2. s[0] = 0
    BY <1>3 DEF ArePartialSums
  <2> HIDE DEF upto
  <2> QED BY <2>1, <2>2, FS_EmptySet
<1>5. ASSUME NEW k \in 0..(n - 1), k \in T PROVE k + 1 \in T
  <2>1. k + 1 \in 1..n /\ k + 1 \in 0..n /\ (k + 1) - 1 = k
    OBVIOUS
  <2>2. s[k + 1] = s[k] + f[k + 1]
    BY <2>1, <1>3 DEF ArePartialSums
  <2>3. IsFiniteSet(upto(k)) /\ s[k] = Cardinality(upto(k))
    BY <1>5
  <2>4. CASE k + 1 \in zone
    <3>1. upto(k + 1) = upto(k) \cup {k + 1} /\ k + 1 \notin upto(k)
      BY ONLY <1>a, <2>4, k \in Int
    <3> HIDE DEF upto
    <3>2. IsFiniteSet(upto(k + 1)) /\ Cardinality(upto(k + 1)) = Cardinality(upto(k)) + 1
      BY <3>1, <2>3, FS_AddElement
    <3>3. s[k + 1] = s[k] + 1
      BY <2>1, <2>2, <2>4, <1>1
    <3> QED BY <2>1, <2>3, <3>2, <3>3
  <2>5. CASE k + 1 \notin zone
    <3>1. upto(k + 1) = upto(k)
      BY ONLY <1>a, <2>5, k \in Int
    <3> HIDE DEF upto
    <3>2. s[k + 1] = s[k] + 0
      BY <2>1, <2>2, <2>5, <1>1
    <3>3. s[k] \in Int
      BY <1>3
    <3> QED BY <2>1, <2>3, <3>1, <3>2, <3>3
  <2> QED BY <2>4, <2>5
<1>6. n \in T
  <2>1. 0 \in Int /\ n \in Int /\ n \in 0..n
    OBVIOUS
  <2> HIDE DEF T
  <2> QED BY <2>1, <1>4, <1>5, IntervalInduction
<1>7. upto(n) = zone
  BY ONLY <1>a
<1>8. SumOver(f, 1, n) = Cardinality(zone)
  <2> HIDE DEF upto
  <2> QED BY <1>3, <1>6, <1>7
<1>9. Cardinality(zone) \in Nat /\ (zone # {} => Cardinality(zone) > 0)
  BY <1>2, FS_CardinalityType, FS_EmptySet
<1> QED BY <1>2, <1>8, <1>9 DEF f

(* The mean of a zone leaves no remainder.                                 *)
ExactLevel(zone, v) ==
    Cardinality(zone) * LevelOf(zone, v).level = SumOver(InZone(zone, v), 1, Len(v))

(* The level of a zone is an integer, its touches are positive.            *)
LEMMA LevelTyped ==
    ASSUME NEW v, Len(v) \in Nat, NEW zone, zone \subseteq 1..Len(v), zone # {}, Levelled(zone, v)
    PROVE  LevelOf(zone, v) \in [level : Int, touches : Nat \ {0}]
<1> DEFINE f == InZone(zone, v)
           n == Len(v)
<1>1. \A i \in 1..n : f[i] \in Int
  BY DEF InZone, Levelled
<1>2. Int \in {Nat, Int} /\ 1 \in Int /\ n \in Int /\ 1 - 1 <= n
  OBVIOUS
<1> HIDE DEF f, n
<1>3. SumOver(f, 1, n) \in Int
  BY <1>1, <1>2, SumIn, ZenonT(30)
<1>4. Cardinality(zone) \in Nat \ {0}
  <2>1. Cardinality(zone) \in Nat /\ (zone # {} => Cardinality(zone) > 0)
    BY SumOfMembers, Zenon
  <2> QED BY <2>1
<1>5. SumOver(f, 1, n) \div Cardinality(zone) \in Int
  <2> HIDE DEF n
  <2> QED BY <1>2, <1>3, <1>4, Quotients
<1> QED BY <1>4, <1>5 DEF LevelOf, f, n

(* The mean of reflected levels is the reflected mean.                     *)
LEMMA LevelReflected ==
    ASSUME NEW v, NEW w, NEW p \in Int, Len(v) \in Nat, Len(w) = Len(v),
           NEW zone, zone \subseteq 1..Len(v), zone # {}, Turned(zone, w, v, p), ExactLevel(zone, v)
    PROVE  LevelOf(zone, w) = [level |-> p - LevelOf(zone, v).level,
                               touches |-> LevelOf(zone, v).touches]
<1> DEFINE n == Len(v)
           c == Cardinality(zone)
           f == InZone(zone, v)
           g == InZone(zone, w)
           u == Members(zone, n)
<1>1. \A i \in 1..n : u[i] \in Int
  BY DEF Members
<1>2. \A i \in 1..n : f[i] \in Int
  BY DEF InZone, Turned
<1>3. \A i \in 1..n : g[i] = p * u[i] - f[i]
  <2> SUFFICES ASSUME NEW i \in 1..n PROVE g[i] = p * u[i] - f[i]
    OBVIOUS
  <2>1. CASE i \in zone
    <3>1. u[i] = 1 /\ f[i] = v[i] /\ g[i] = w[i] /\ v[i] \in Int /\ w[i] = p - v[i]
      BY <2>1 DEF Members, InZone, Turned
    <3> QED BY <3>1
  <2>2. CASE i \notin zone
    <3>1. u[i] = 0 /\ f[i] = 0 /\ g[i] = 0
      BY <2>2 DEF Members, InZone
    <3> QED BY <3>1
  <2> QED BY <2>1, <2>2
<1>4. 1 \in Int /\ n \in Int /\ 1 - 1 <= n /\ n \in Nat
  OBVIOUS
<1>5. LevelOf(zone, v) \in [level : Int, touches : Nat \ {0}]
  BY LevelTyped DEF Turned, Levelled
<1>6. SumOver(u, 1, n) = c /\ c \in Nat \ {0}
  <2>1. SumOver(u, 1, n) = c /\ c \in Nat /\ (zone # {} => c > 0)
    BY SumOfMembers, Zenon
  <2> QED BY <2>1
<1>7. PICK l \in Int : l = LevelOf(zone, v).level
  BY <1>5
<1>8. SumOver(f, 1, n) = c * l
  BY <1>7 DEF ExactLevel
<1> HIDE DEF f, g, u
<1>9. SumOver(g, 1, n) = p * SumOver(u, 1, n) - SumOver(f, 1, n)
  <2> HIDE DEF n
  <2> QED BY <1>1, <1>2, <1>3, <1>4, SumLinear
<1> HIDE DEF n, c
<1>10. SumOver(g, 1, n) = c * (p - l)
  <2>1. p * c - c * l = c * (p - l)
    BY <1>6
  <2> QED BY <1>6, <1>8, <1>9, <2>1
<1>11. SumOver(g, 1, n) \div c = p - l
  <2>1. p - l \in Int
    OBVIOUS
  <2> QED BY <2>1, <1>6, <1>10, ExactQuotient
<1> QED BY <1>7, <1>11 DEF LevelOf, g, n, c

(* A mean is at most what bounds its values ...                            *)
LEMMA LevelAtMost ==
    ASSUME NEW v, Len(v) \in Nat, NEW zone, zone \subseteq 1..Len(v), zone # {}, Levelled(zone, v),
           ExactLevel(zone, v), NEW b \in Int, \A i \in zone : v[i] <= b
    PROVE  LevelOf(zone, v).level <= b
<1> DEFINE n == Len(v)
           c == Cardinality(zone)
           f == InZone(zone, v)
           u == Members(zone, n)
           g == [i \in 1..n |-> b * u[i] - f[i]]
<1>1. \A i \in 1..n : u[i] \in Int
  BY DEF Members
<1>2. \A i \in 1..n : f[i] \in Int
  BY DEF InZone, Levelled
<1>3. \A i \in 1..n : g[i] = b * u[i] - f[i]
  OBVIOUS
<1>4. \A i \in 1..n : g[i] \in Nat
  <2> SUFFICES ASSUME NEW i \in 1..n PROVE g[i] \in Nat
    OBVIOUS
  <2>1. CASE i \in zone
    <3>1. u[i] = 1 /\ f[i] = v[i] /\ v[i] \in Int /\ v[i] <= b
      BY <2>1 DEF Members, InZone, Levelled
    <3> QED BY <3>1
  <2>2. CASE i \notin zone
    <3>1. u[i] = 0 /\ f[i] = 0
      BY <2>2 DEF Members, InZone
    <3> QED BY <3>1
  <2> QED BY <2>1, <2>2
<1>5. 1 \in Int /\ n \in Int /\ 1 - 1 <= n /\ n \in Nat /\ Nat \in {Nat, Int}
  OBVIOUS
<1>6. SumOver(u, 1, n) = c /\ c \in Nat \ {0}
  <2>1. SumOver(u, 1, n) = c /\ c \in Nat /\ (zone # {} => c > 0)
    BY SumOfMembers, Zenon
  <2> QED BY <2>1
<1>7. PICK l \in Int : l = LevelOf(zone, v).level
  BY LevelTyped
<1>8. SumOver(f, 1, n) = c * l
  BY <1>7 DEF ExactLevel
<1> HIDE DEF f, g, u, n
<1>9. SumOver(g, 1, n) = b * SumOver(u, 1, n) - SumOver(f, 1, n)
  <2>1. 1 \in Int /\ n \in Int /\ 1 - 1 <= n
    BY <1>5
  <2> QED BY ONLY <1>1, <1>2, <1>3, <2>1, b \in Int, SumLinear
<1>10. SumOver(g, 1, n) \in Nat
  BY <1>4, <1>5, SumIn, ZenonT(30)
<1> HIDE DEF c
<1>11. c * (b - l) >= 0
  <2>1. b * c - c * l = c * (b - l)
    BY <1>6
  <2> QED BY <1>6, <1>8, <1>9, <1>10, <2>1
<1>12. b - l >= 0
  BY <1>6, <1>11
<1> QED BY <1>7, <1>12

(* ... and at least what its values are bounded by.                        *)
LEMMA LevelAtLeast ==
    ASSUME NEW v, Len(v) \in Nat, NEW zone, zone \subseteq 1..Len(v), zone # {}, Levelled(zone, v),
           ExactLevel(zone, v), NEW b \in Int, \A i \in zone : b <= v[i]
    PROVE  b <= LevelOf(zone, v).level
<1> DEFINE w == [i \in 1..Len(v) |-> 0 - v[i]]
           l == LevelOf(zone, v)
           k == LevelOf(zone, w)
<1>1. Len(w) = Len(v) /\ Turned(zone, w, v, 0) /\ Levelled(zone, w)
  BY DEF Turned, Levelled
<1>2. \A i \in zone : w[i] <= 0 - b
  BY DEF Levelled
<1> HIDE DEF w
<1>3. l.level \in Int /\ l.touches = Cardinality(zone) /\ Cardinality(zone) \in Nat \ {0}
  <2>1. l \in [level : Int, touches : Nat \ {0}]
    BY LevelTyped
  <2> QED BY <2>1, SumOfMembers DEF LevelOf
<1>4. k.level = 0 - l.level
  <2>1. 0 \in Int
    OBVIOUS
  <2>2. k = [level |-> 0 - l.level, touches |-> l.touches]
    BY <1>1, <2>1, LevelReflected, ZenonT(60)
  <2> HIDE DEF k, l
  <2> QED BY <2>2
<1>5. ExactLevel(zone, w)
  <2> DEFINE f == InZone(zone, v)
             g == InZone(zone, w)
             c == Cardinality(zone)
             zero == Members({}, Len(v))
  <2>1. \A i \in 1..Len(v) : f[i] \in Int
    BY DEF InZone, Levelled
  <2>2. \A i \in 1..Len(v) : g[i] = 0 * f[i] - f[i]
    <3> SUFFICES ASSUME NEW i \in 1..Len(v) PROVE g[i] = 0 * f[i] - f[i]
      OBVIOUS
    <3>1. CASE i \in zone
      <4>1. f[i] = v[i] /\ g[i] = w[i] /\ v[i] \in Int /\ w[i] = 0 - v[i]
        BY <3>1, <1>1 DEF InZone, Turned
      <4> QED BY <4>1
    <3>2. CASE i \notin zone
      <4>1. f[i] = 0 /\ g[i] = 0
        BY <3>2, <1>1 DEF InZone
      <4> QED BY <4>1
    <3> QED BY <3>1, <3>2
  <2>3. 1 \in Int /\ 0 \in Int /\ Len(v) \in Int /\ 1 - 1 <= Len(v)
    OBVIOUS
  <2>4. PICK a \in Int : a = l.level
    BY <1>3
  <2> HIDE DEF k, l, f, g
  <2>5. SumOver(g, 1, Len(v)) = 0 * SumOver(f, 1, Len(v)) - SumOver(f, 1, Len(v))
    BY ONLY <2>1, <2>2, <2>3, SumLinear
  <2>6. SumOver(f, 1, Len(v)) = c * a /\ c \in Nat
    BY <2>4, <1>3 DEF ExactLevel, f, l
  <2>7. SumOver(g, 1, Len(v)) = c * (0 - a)
    <3> HIDE DEF c
    <3>1. 0 * (c * a) - c * a = c * (0 - a)
      BY <2>6
    <3> QED BY <2>5, <2>6, <3>1
  <2>8. SumOver(g, 1, Len(v)) = c * k.level
    BY <2>4, <2>7, <1>4
  <2> QED BY <2>8, <1>1 DEF ExactLevel, g, k
<1>6. zone \subseteq 1..Len(w) /\ Len(w) \in Nat /\ 0 - b \in Int
  BY <1>1
<1>7. k.level <= 0 - b
  BY <1>1, <1>2, <1>5, <1>6, LevelAtMost
<1> HIDE DEF k, l
<1>8. b <= l.level
  BY <1>3, <1>4, <1>7
<1> QED BY <1>8 DEF l

(* The means of all zones leave no remainder.                              *)
ExactLevels(swings, v, atr) == \A zone \in ToSet(Zones(swings, v, atr)) : ExactLevel(zone, v)

LevelRecord == [level : Int, touches : Nat \ {0}]

(* Levels of which no two are the same, so that the nearest is unique.     *)
AreLevels(ls) ==
    /\ ls \subseteq LevelRecord
    /\ \A l, m \in ls : l.level = m.level => l = m

(* Zones more than half an ATR apart have different means.                 *)
LEMMA LevelsAreLevels ==
    ASSUME NEW v, Len(v) \in Nat, NEW S, S \subseteq 1..Len(v), \A i \in S : v[i] \in Nat,
           NEW atr \in Nat, ExactLevels(S, v, atr)
    PROVE  AreLevels(Levels(S, v, atr))
<1> DEFINE zs == Zones(S, v, atr)
<1>1. AreComponents(zs, S, v, atr) /\ zs \in Seq(SUBSET S)
  <2>1. atr \in Int
    OBVIOUS
  <2>2. \A i \in S : v[i] \in Nat
    OBVIOUS
  <2>3. S \subseteq 1..Len(v)
    OBVIOUS
  <2> QED BY <2>1, <2>2, <2>3, ClusterMakesComponents, ZenonT(30)
<1> HIDE DEF zs
<1>2. /\ DOMAIN zs \subseteq Int
      /\ ToSet(zs) = {zs[k] : k \in DOMAIN zs}
      /\ \A k \in DOMAIN zs : zs[k] \subseteq S /\ zs[k] # {} /\ ExactLevel(zs[k], v)
  BY <1>1 DEF ToSet, AreComponents, ExactLevels, zs
<1>3. \A i \in S : v[i] \in Int
  OBVIOUS
<1>4. ASSUME NEW k \in DOMAIN zs
      PROVE  /\ zs[k] \subseteq 1..Len(v) /\ zs[k] # {} /\ Levelled(zs[k], v) /\ ExactLevel(zs[k], v)
             /\ LevelOf(zs[k], v) \in LevelRecord
  <2>1. zs[k] \subseteq 1..Len(v) /\ zs[k] # {} /\ Levelled(zs[k], v) /\ ExactLevel(zs[k], v)
    BY <1>2, <1>3 DEF Levelled
  <2> QED BY <2>1, LevelTyped DEF LevelRecord
<1>5. ASSUME NEW k \in DOMAIN zs, NEW m \in DOMAIN zs, k < m
      PROVE  LevelOf(zs[k], v).level < LevelOf(zs[m], v).level
  <2>1. PICK a \in Int : a = LevelOf(zs[k], v).level
    BY <1>4 DEF LevelRecord
  <2>2. PICK b \in Int : b = LevelOf(zs[m], v).level
    BY <1>4 DEF LevelRecord
  <2>3. \A j \in zs[m] : a + 1 <= v[j]
    <3> SUFFICES ASSUME NEW j \in zs[m] PROVE a + 1 <= v[j]
      OBVIOUS
    <3>1. v[j] - 1 \in Int /\ v[j] \in Int
      <4>1. Levelled(zs[m], v)
        BY <1>4
      <4>2. v[j] \in Int
        BY <4>1 DEF Levelled
      <4> QED BY <4>2
    <3>2. \A i \in zs[k] : v[i] <= v[j] - 1
      <4> SUFFICES ASSUME NEW i \in zs[k] PROVE v[i] <= v[j] - 1
        OBVIOUS
      <4>1. 2 * (v[j] - v[i]) > atr
        <5>1. \A a1, a2 \in DOMAIN zs : a1 < a2 =>
                 \A b1 \in zs[a1], b2 \in zs[a2] : 2 * (v[b2] - v[b1]) > atr
          BY <1>1 DEF AreComponents
        <5> QED BY <5>1, <1>5
      <4>2. v[i] \in Int
        BY <1>2, <1>3
      <4> QED BY <4>1, <4>2, <3>1
    <3>3. a <= v[j] - 1
      BY <2>1, <3>1, <3>2, <1>4, LevelAtMost
    <3> QED BY <3>1, <3>3
  <2>4. a + 1 <= b
    <3>1. a + 1 \in Int
      OBVIOUS
    <3> QED BY <2>2, <2>3, <3>1, <1>4, LevelAtLeast
  <2> QED BY <2>1, <2>2, <2>4
<1>6. Levels(S, v, atr) = {LevelOf(zs[k], v) : k \in DOMAIN zs}
  BY <1>2 DEF Levels, zs
<1>7. Levels(S, v, atr) \subseteq LevelRecord
  BY <1>4, <1>6
<1>8. ASSUME NEW k \in DOMAIN zs, NEW m \in DOMAIN zs,
             LevelOf(zs[k], v).level = LevelOf(zs[m], v).level
      PROVE  k = m
  <2>1. LevelOf(zs[k], v).level \in Int /\ LevelOf(zs[m], v).level \in Int
    BY <1>4 DEF LevelRecord
  <2>2. ~(k < m) /\ ~(m < k)
    BY <2>1, <1>5, <1>8
  <2>3. k \in Int /\ m \in Int
    BY <1>2
  <2> QED BY <2>2, <2>3
<1>9. \A l, m \in Levels(S, v, atr) : l.level = m.level => l = m
  BY <1>6, <1>8
<1> QED BY <1>7, <1>9 DEF AreLevels

(* v and w are natural and reflect one another at the pivot of             *)
(* MirrorImage.                                                            *)
Twins(w, v) ==
    /\ Reflects(w, v, Pivot)
    /\ \A i \in 1..Len(v) : v[i] \in Nat /\ w[i] \in Nat

(* A level upside down, and a set of them.                                 *)
Upturned(l) == [level |-> Pivot - l.level, touches |-> l.touches]

UpturnedAll(ls) == {Upturned(l) : l \in ls}

(* The levels of a series upside down.                                     *)
LEMMA LevelsUpturned ==
    ASSUME NEW v, NEW w, Twins(w, v), NEW S, S \subseteq 1..Len(v), NEW atr \in Nat,
           ExactLevels(S, v, atr)
    PROVE  /\ AreLevels(Levels(S, v, atr))
           /\ Levels(S, w, atr) = UpturnedAll(Levels(S, v, atr))
<1> DEFINE zs == ToSet(Zones(S, v, atr))
<1>1. Pivot \in Int /\ Len(v) \in Nat /\ Len(w) = Len(v) /\ Reflects(w, v, Pivot)
  BY EngineAssumption DEF EngineAssumption, Reflects, Twins
<1>2. ToSet(Zones(S, w, atr)) = zs
  <2>1. Pivot \in Int
    BY <1>1
  <2>2. \A i \in S : v[i] \in Nat /\ w[i] \in Nat
    BY DEF Twins
  <2>3. S \subseteq 1..Len(v)
    OBVIOUS
  <2>4. Reflects(w, v, Pivot)
    BY <1>1
  <2> QED BY <2>1, <2>2, <2>3, <2>4, ZonesReflected, ZenonT(30)
<1>3. UNION zs = S /\ {} \notin zs
  <2>1. atr \in Int /\ Len(v) \in Nat
    BY <1>1
  <2>2. \A i \in S : v[i] \in Nat
    BY DEF Twins
  <2>3. S \subseteq 1..Len(v)
    OBVIOUS
  <2>4. AreComponents(Zones(S, v, atr), S, v, atr) /\ Zones(S, v, atr) \in Seq(SUBSET S)
    BY <2>1, <2>2, <2>3, ClusterMakesComponents, ZenonT(30)
  <2> QED BY <2>4, ComponentsCluster
<1>4. ASSUME NEW zone \in zs PROVE LevelOf(zone, w) = Upturned(LevelOf(zone, v))
  <2>1. zone \subseteq 1..Len(v) /\ zone # {} /\ ExactLevel(zone, v)
    BY <1>3 DEF ExactLevels
  <2>2. Turned(zone, w, v, Pivot)
    BY <1>1, <2>1 DEF Turned, Reflects, Opposes
  <2> QED BY <2>1, <2>2, <1>1, LevelReflected DEF Upturned
<1> HIDE DEF zs
<1>5. Levels(S, w, atr) = {LevelOf(zone, w) : zone \in zs}
  BY <1>2 DEF Levels
<1>6. Levels(S, v, atr) = {LevelOf(zone, v) : zone \in zs}
  BY DEF Levels, zs
<1>7. AreLevels(Levels(S, v, atr))
  <2>1. \A i \in S : v[i] \in Nat
    BY DEF Twins
  <2>2. S \subseteq 1..Len(v)
    OBVIOUS
  <2> QED BY <1>1, <2>1, <2>2, LevelsAreLevels, ZenonT(30)
<1> QED BY <1>4, <1>5, <1>6, <1>7 DEF UpturnedAll

(* What ResistanceAbove and SupportBelow choose: the nearest level, if     *)
(* there is one.                                                           *)
LEMMA LowestAbove ==
    ASSUME NEW ls, AreLevels(ls), ls # {}, NEW price \in Int, \A l \in ls : l.level > price
    PROVE  Lowest(ls) \in ls /\ \A m \in ls : m.level >= Lowest(ls).level
<1>1. PICK l0 \in ls : TRUE
  OBVIOUS
<1>2. \A l \in ls : l.level \in Int /\ l.level > price
  BY DEF AreLevels, LevelRecord
<1> DEFINE A == {l.level : l \in {m \in ls : m.level <= l0.level}}
<1>3. A \subseteq price..l0.level /\ A # {} /\ l0.level \in Int
  <2>1. l0.level \in A
    BY <1>2
  <2> QED BY <2>1, <1>2
<1>4. PICK k \in A : \A j \in A : k <= j
  <2> HIDE DEF A
  <2> QED BY <1>3, LeastElement
<1>5. PICK l \in ls : l.level = k /\ k <= l0.level
  BY <1>4
<1>6. \A m \in ls : m.level >= l.level
  <2> SUFFICES ASSUME NEW m \in ls PROVE m.level >= l.level
    OBVIOUS
  <2>1. CASE m.level <= l0.level
    <3>1. m.level \in A
      BY <2>1
    <3> HIDE DEF A
    <3> QED BY <3>1, <1>2, <1>4, <1>5
  <2>2. CASE ~(m.level <= l0.level)
    BY <2>2, <1>2, <1>5
  <2> QED BY <2>1, <2>2
<1> QED BY <1>6 DEF Lowest

(* Turned twice, a level is itself ...                                     *)
LEMMA UpturnedTwice ==
    ASSUME NEW l \in LevelRecord
    PROVE  /\ Upturned(l) \in LevelRecord /\ Upturned(Upturned(l)) = l
           /\ Upturned(l).level = Pivot - l.level /\ Upturned(l).touches = l.touches
           /\ l # NoLevel /\ MirroredLevel(l) = Upturned(l)
<1>1. Pivot \in Int
  BY EngineAssumption DEF EngineAssumption
<1>2. PICK a \in Int, t \in Nat \ {0} : l = [level |-> a, touches |-> t]
  BY DEF LevelRecord
<1>3. Upturned(l) = [level |-> Pivot - a, touches |-> t]
  BY <1>2 DEF Upturned
<1>4. Upturned(Upturned(l)) = [level |-> Pivot - (Pivot - a), touches |-> t]
  BY <1>3 DEF Upturned
<1>5. Pivot - a \in Int /\ Pivot - (Pivot - a) = a
  BY <1>1
<1>6. l # NoLevel
  BY <1>2 DEF NoLevel
<1>7. MirroredLevel(l) = [level |-> Pivot - a, touches |-> t]
  BY <1>2, <1>6 DEF MirroredLevel
<1> QED BY <1>2, <1>3, <1>4, <1>5, <1>6, <1>7 DEF LevelRecord

(* ... and turned levels are levels.                                       *)
LEMMA UpturnedLevels ==
    ASSUME NEW ls, AreLevels(ls)
    PROVE  AreLevels(UpturnedAll(ls)) /\ UpturnedAll(UpturnedAll(ls)) = ls
<1>1. \A l \in ls : /\ Upturned(l) \in LevelRecord /\ Upturned(Upturned(l)) = l
                    /\ Upturned(l).level = Pivot - l.level /\ l.level \in Int
  BY UpturnedTwice DEF AreLevels, LevelRecord
<1>2. Pivot \in Int
  BY EngineAssumption DEF EngineAssumption
<1>3. {Upturned(m) : m \in {Upturned(l) : l \in ls}} = ls
  BY <1>1
<1>4. ASSUME NEW l \in ls, NEW m \in ls, Upturned(l).level = Upturned(m).level
      PROVE  Upturned(l) = Upturned(m)
  <2>1. l.level = m.level
    BY <1>1, <1>2, <1>4
  <2>2. l = m
    BY <2>1 DEF AreLevels
  <2> QED BY <2>2
<1> QED BY <1>1, <1>3, <1>4 DEF AreLevels, UpturnedAll

(* The lowest level above is, upside down, the highest below.              *)
LEMMA NearestUpturned ==
    ASSUME NEW ls, AreLevels(ls), NEW price \in Int
    PROVE  /\ SupportBelow(UpturnedAll(ls), Pivot - price) = MirroredLevel(ResistanceAbove(ls, price))
           /\ ResistanceAbove(ls, price) \in LevelRecord \cup {NoLevel}
<1> DEFINE ms == UpturnedAll(ls)
           above == {l \in ls : l.level > price}
           below == {m \in ms : m.level < Pivot - price}
<1>1. Pivot \in Int
  BY EngineAssumption DEF EngineAssumption
<1>2. \A l \in ls : l \in LevelRecord /\ l.level \in Int /\ Upturned(l).level = Pivot - l.level
  BY UpturnedTwice DEF AreLevels, LevelRecord
<1>3. below = {Upturned(l) : l \in above}
  <2>1. \A l \in ls : Upturned(l).level < Pivot - price <=> l.level > price
    BY <1>1, <1>2
  <2> QED BY <2>1 DEF UpturnedAll
<1>4. AreLevels(above) /\ above \subseteq ls /\ \A l \in above : l.level > price
  BY DEF AreLevels
<1>5. SupportBelow(ms, Pivot - price) = Highest(below) /\ ResistanceAbove(ls, price) = Lowest(above)
  BY DEF SupportBelow, ResistanceAbove
<1> HIDE DEF ms, above, below
<1>6. CASE above = {}
  <2>1. below = {}
    BY <1>3, <1>6
  <2> QED BY <1>5, <1>6, <2>1 DEF Highest, Lowest, MirroredLevel, ms
<1>7. CASE above # {}
  <2> DEFINE low == Lowest(above)
             high == Highest(below)
  <2>1. low \in above /\ \A m \in above : m.level >= low.level
    BY <1>4, <1>7, LowestAbove
  <2> HIDE DEF low
  <2>2. Upturned(low) \in below /\ \A m \in below : m.level <= Upturned(low).level
    <3>1. \A l \in above : l.level \in Int /\ Upturned(l).level = Pivot - l.level
      BY <1>2, <1>4
    <3>2. \A l \in above : Upturned(l).level <= Upturned(low).level
      BY <3>1, <2>1, <1>1
    <3> QED BY <3>2, <2>1, <1>3
  <2>3. high \in below /\ \A m \in below : m.level <= high.level
    <3>1. \E h \in below : \A m \in below : m.level <= h.level
      BY <2>2
    <3> QED BY <3>1 DEF Highest
  <2> HIDE DEF high
  <2>4. PICK l \in above : high = Upturned(l)
    BY <2>3, <1>3
  <2>5. l = low
    <3>1. l.level \in Int /\ low.level \in Int /\ high.level = Pivot - l.level
          /\ Upturned(low).level = Pivot - low.level
      BY <2>1, <2>4, <1>2, <1>4
    <3>2. high.level <= Upturned(low).level /\ Upturned(low).level <= high.level
      BY <2>2, <2>3
    <3>3. l.level = low.level
      BY <3>1, <3>2, <1>1
    <3> QED BY <3>3, <2>1, <1>4 DEF AreLevels
  <2>6. low \in LevelRecord /\ MirroredLevel(low) = Upturned(low)
    BY <2>1, <1>2, <1>4, UpturnedTwice
  <2> QED BY <2>4, <2>5, <2>6, <1>5 DEF high, low, ms
<1> QED BY <1>6, <1>7

-----------------------------------------------------------------------------
(* Upside down: support and resistance, and the verdict.                   *)

(* The distances to the levels, and so their points, are the same.         *)
LEMMA LevelScoreReflected ==
    ASSUME NEW behind \in LevelRecord \cup {NoLevel}, NEW ahead \in LevelRecord \cup {NoLevel},
           NEW price \in Int, NEW atr \in Int
    PROVE  LevelScore(MirroredLevel(behind), MirroredLevel(ahead), Pivot - price, atr) =
             LevelScore(behind, ahead, price, atr)
<1>1. Pivot \in Int
  BY EngineAssumption DEF EngineAssumption
<1> DEFINE near(l) == l # NoLevel /\ 2 * Abs(price - l.level) <= 3 * atr
           near2(l) == l # NoLevel /\ 2 * Abs((Pivot - price) - l.level) <= 3 * atr
<1>2. ASSUME NEW l \in LevelRecord \cup {NoLevel}
      PROVE  /\ near2(MirroredLevel(l)) <=> near(l)
             /\ near(l) => MirroredLevel(l).touches = l.touches
  <2>1. CASE l = NoLevel
    BY <2>1 DEF MirroredLevel
  <2>2. CASE l \in LevelRecord
    <3>1. /\ MirroredLevel(l) \in LevelRecord /\ l # NoLevel /\ MirroredLevel(l) # NoLevel
          /\ MirroredLevel(l).level = Pivot - l.level /\ MirroredLevel(l).touches = l.touches
      BY <2>2, UpturnedTwice
    <3>2. l.level \in Int
      BY <2>2 DEF LevelRecord
    <3>3. Abs((Pivot - price) - (Pivot - l.level)) = Abs(price - l.level)
      BY <1>1, <3>2 DEF Abs, Larger
    <3> QED BY <3>1, <3>3
  <2> QED BY <2>1, <2>2
<1>3. /\ LevelScore(behind, ahead, price, atr) =
           (IF near(behind) THEN 8 + (IF behind.touches >= 2 THEN 3 ELSE 0) ELSE 0)
              + (IF near(ahead) THEN 0 ELSE 4)
      /\ LevelScore(MirroredLevel(behind), MirroredLevel(ahead), Pivot - price, atr) =
           (IF near2(MirroredLevel(behind))
            THEN 8 + (IF MirroredLevel(behind).touches >= 2 THEN 3 ELSE 0) ELSE 0)
              + (IF near2(MirroredLevel(ahead)) THEN 0 ELSE 4)
  BY DEF LevelScore
<1> HIDE DEF near, near2
<1> QED BY <1>2, <1>3

(* Support and resistance upside down.                                     *)
Exchanged(sr) == [score |-> sr.score, support |-> MirroredLevel(sr.resistance),
                  resistance |-> MirroredLevel(sr.support)]

(* The direction decides which of them the trade leans on.                 *)
LEMMA NearestExchanged ==
    ASSUME NEW support \in LevelRecord \cup {NoLevel}, NEW resistance \in LevelRecord \cup {NoLevel},
           NEW price \in Int, NEW atr \in Int, NEW direction \in Directions
    PROVE  Nearest(MirroredLevel(resistance), MirroredLevel(support), Pivot - price, atr, -direction) =
             Exchanged(Nearest(support, resistance, price, atr, direction))
<1> DEFINE s2 == MirroredLevel(resistance)
           r2 == MirroredLevel(support)
<1>1. /\ LevelScore(s2, r2, Pivot - price, atr) = LevelScore(resistance, support, price, atr)
      /\ LevelScore(r2, s2, Pivot - price, atr) = LevelScore(support, resistance, price, atr)
  BY LevelScoreReflected
<1> HIDE DEF s2, r2
<1>2. /\ Nearest(s2, r2, Pivot - price, atr, -direction).score =
           Nearest(support, resistance, price, atr, direction).score
      /\ Nearest(s2, r2, Pivot - price, atr, -direction) =
           [score |-> Nearest(s2, r2, Pivot - price, atr, -direction).score,
            support |-> s2, resistance |-> r2]
      /\ Nearest(support, resistance, price, atr, direction).support = support
      /\ Nearest(support, resistance, price, atr, direction).resistance = resistance
  BY <1>1 DEF Nearest, Directions, Bullish, Bearish, Neutral
<1> QED BY <1>2 DEF Exchanged, s2, r2

(* The nearest support becomes the nearest resistance.                     *)
LEMMA SupportResistanceReflected ==
    ASSUME NEW high, NEW low, NEW high2, NEW low2, Twins(high2, low), Twins(low2, high),
           NEW price \in Int, NEW atr \in Nat, NEW direction \in Directions,
           atr > 0 => ExactLevels(SwingHighs(high), high, atr) /\ ExactLevels(SwingLows(low), low, atr)
    PROVE  SupportResistance(high2, low2, Pivot - price, atr, -direction) =
             Exchanged(SupportResistance(high, low, price, atr, direction))
<1>1. CASE atr <= 0
  BY <1>1 DEF SupportResistance, NoSupportResistance, Exchanged, MirroredLevel
<1>2. CASE ~(atr <= 0)
  <2> DEFINE lows == Levels(SwingLows(low), low, atr)
             highs == Levels(SwingHighs(high), high, atr)
             lows2 == Levels(SwingLows(low2), low2, atr)
             highs2 == Levels(SwingHighs(high2), high2, atr)
  <2>1. /\ Pivot \in Int /\ Reflects(high2, low, Pivot) /\ Reflects(low2, high, Pivot)
        /\ Len(low) \in Nat /\ Len(high) \in Nat
    BY EngineAssumption DEF EngineAssumption, Twins, Reflects
  <2>2. /\ SwingHighs(high2) = SwingLows(low) /\ SwingLows(low2) = SwingHighs(high)
        /\ SwingLows(low) \subseteq 1..Len(low) /\ SwingHighs(high) \subseteq 1..Len(high)
    BY <2>1, SwingsReflected, SwingsWithin
  <2>3. ExactLevels(SwingHighs(high), high, atr) /\ ExactLevels(SwingLows(low), low, atr)
    BY <1>2
  <2>4. highs2 = UpturnedAll(lows) /\ AreLevels(lows)
    BY <2>1, <2>2, <2>3, LevelsUpturned
  <2>5. lows2 = UpturnedAll(highs) /\ AreLevels(highs)
    BY <2>1, <2>2, <2>3, LevelsUpturned
  <2> DEFINE support == SupportBelow(lows, price)
             resistance == ResistanceAbove(highs, price)
             support2 == SupportBelow(lows2, Pivot - price)
             resistance2 == ResistanceAbove(highs2, Pivot - price)
  <2> HIDE DEF lows, highs, lows2, highs2
  <2>6. support2 = MirroredLevel(resistance) /\ resistance \in LevelRecord \cup {NoLevel}
    BY <2>5, NearestUpturned
  <2>7. resistance2 = MirroredLevel(support) /\ support \in LevelRecord \cup {NoLevel}
    <3>1. AreLevels(highs2) /\ lows = UpturnedAll(highs2)
      BY <2>4, UpturnedLevels
    <3>2. Pivot - price \in Int /\ Pivot - (Pivot - price) = price
      BY <2>1
    <3>3. /\ SupportBelow(lows, Pivot - (Pivot - price)) = MirroredLevel(resistance2)
          /\ resistance2 \in LevelRecord \cup {NoLevel}
      BY <3>1, <3>2, NearestUpturned
    <3>4. support = MirroredLevel(resistance2)
      BY <3>2, <3>3
    <3> HIDE DEF support, resistance2
    <3>5. CASE resistance2 = NoLevel
      BY <3>4, <3>5 DEF MirroredLevel
    <3>6. CASE resistance2 \in LevelRecord
      <4>1. support = Upturned(resistance2) /\ support \in LevelRecord
        BY <3>4, <3>6, UpturnedTwice
      <4>2. Upturned(support) = resistance2 /\ MirroredLevel(support) = Upturned(support)
        BY <4>1, <3>6, UpturnedTwice
      <4> QED BY <4>1, <4>2
    <3> QED BY <3>3, <3>5, <3>6
  <2>8. /\ SupportResistance(high, low, price, atr, direction) =
             Nearest(support, resistance, price, atr, direction)
        /\ SupportResistance(high2, low2, Pivot - price, atr, -direction) =
             Nearest(support2, resistance2, Pivot - price, atr, -direction)
    BY <1>2 DEF SupportResistance, lows, highs, lows2, highs2
  <2> HIDE DEF support, resistance, support2, resistance2
  <2> QED BY <2>6, <2>7, <2>8, NearestExchanged
<1> QED BY <1>1, <1>2

(* The trend of a series upside down. A flat fast EMA is the exception:    *)
(* its slope reads "down" on both sides.                                   *)
LEMMA TrendReflected ==
    ASSUME NEW p \in Int, NEW v, NEW w, Reflects(w, v, p), Len(v) > 0,
           Len(v) >= TrendHistory =>
              /\ ExactEma(v, 1, Len(v), EmaFast) /\ ExactEma(v, 1, Len(v), EmaMiddle)
              /\ ExactEma(v, 1, Len(v), EmaSlow),
           NEW t, t = AnalyzeTrend(v), NEW u, u = AnalyzeTrend(w), u.ranging = t.ranging
    PROVE  /\ Opposed(t.direction, u.direction)
           /\ u.score = t.score +
                IF t.score > 0 /\ Ema(v, EmaFast)[Len(v)] = Ema(v, EmaFast)[Len(v) - 2]
                THEN 3 * t.direction ELSE 0
<1> DEFINE n == Len(v)
<1>1. n \in Nat /\ Len(w) = n /\ n > 0
  BY DEF Reflects
<1>2. CASE n < TrendHistory
  <2>1. t = NoTrend /\ u = NoTrend
    BY <1>1, <1>2 DEF AnalyzeTrend
  <2>2. t.direction \in {0} /\ t.score \in {0} /\ u.direction \in {0} /\ u.score \in {0}
    BY <2>1 DEF NoTrend, Neutral
  <2> QED BY <2>2 DEF Opposed, Directions, Neutral
<1>3. CASE ~(n < TrendHistory)
  <2>1. /\ EmaFast \in Nat \ {0} /\ EmaMiddle \in Nat \ {0} /\ EmaSlow \in Nat \ {0}
        /\ TrendHistory \in Nat
        /\ EmaFast + 2 <= TrendHistory /\ EmaMiddle <= TrendHistory /\ EmaSlow <= TrendHistory
    BY AnalysisAssumption DEF AnalysisAssumption
  <2>2. /\ n >= TrendHistory /\ n \in EmaFast..n /\ n - 2 \in EmaFast..n
        /\ n \in EmaMiddle..n /\ n \in EmaSlow..n
    <3> HIDE DEF n
    <3> QED BY <1>1, <1>3, <2>1
  <2>3. v[n] \in Int /\ w[n] = p - v[n]
    BY <1>1 DEF Reflects, Opposes
  <2>4. \A i \in EmaFast..n : Ema(v, EmaFast)[i] \in Int /\ Ema(w, EmaFast)[i] = p - Ema(v, EmaFast)[i]
    BY <2>1, <2>2, EmaReflected
  <2>5. \A i \in EmaMiddle..n : Ema(v, EmaMiddle)[i] \in Int /\ Ema(w, EmaMiddle)[i] = p - Ema(v, EmaMiddle)[i]
    BY <2>1, <2>2, EmaReflected
  <2>6. \A i \in EmaSlow..n : Ema(v, EmaSlow)[i] \in Int /\ Ema(w, EmaSlow)[i] = p - Ema(v, EmaSlow)[i]
    BY <2>1, <2>2, EmaReflected
  <2> DEFINE x == Ema(v, EmaFast)[n]      x2 == Ema(w, EmaFast)[n]
             y == Ema(v, EmaFast)[n - 2]  y2 == Ema(w, EmaFast)[n - 2]
             e50 == Ema(v, EmaMiddle)[n]  d50 == Ema(w, EmaMiddle)[n]
             e200 == Ema(v, EmaSlow)[n]   d200 == Ema(w, EmaSlow)[n]
             up == x > y                  up2 == x2 > y2
             price == v[n]                price2 == w[n]
  <2>7. /\ x \in Int /\ x2 = p - x /\ y \in Int /\ y2 = p - y
        /\ e50 \in Int /\ d50 = p - e50 /\ e200 \in Int /\ d200 = p - e200
        /\ price \in Int /\ price2 = p - price
    BY <2>2, <2>3, <2>4, <2>5, <2>6
  <2>8. t = Votes(price, x, e50, e200, up) /\ u = Votes(price2, x2, d50, d200, up2)
    BY <1>1, <1>3 DEF AnalyzeTrend, SlopeUp
  <2> HIDE DEF n, x, x2, y, y2, e50, d50, e200, d200, price, price2
  <2>9. up \in BOOLEAN /\ up2 \in BOOLEAN /\ ~(up /\ up2) /\ (~up /\ ~up2 <=> x = y)
    BY <2>7
  <2> HIDE DEF up, up2
  <2>10. /\ u.direction = -t.direction
         /\ u.score = t.score + IF t.score > 0 /\ ~up /\ ~up2 THEN 3 * t.direction ELSE 0
    BY <2>7, <2>8, <2>9, VotesReflected
  <2>11. t.direction \in Directions
    BY TrendTyped
  <2> QED BY <2>9, <2>10, <2>11 DEF n, x, y, Opposed
<1> QED BY <1>2, <1>3

(* The momentum of a series upside down.                                   *)
LEMMA MomentumReflected ==
    ASSUME NEW p \in Int, NEW v, NEW w, Reflects(w, v, p), Len(v) > 0,
           Len(v) >= MomentumHistory =>
              /\ ExactEma(v, 1, Len(v), MacdFast) /\ ExactEma(v, 1, Len(v), MacdSlow)
              /\ ExactEma(MacdLine(v), MacdSlow, Len(v), MacdSignal),
           NEW a, a = AnalyzeMomentum(v), NEW b, b = AnalyzeMomentum(w)
    PROVE  /\ Opposed(a.direction, b.direction) /\ b.score = a.score
           /\ RsiBelow(b.rsi, 40) <=> RsiAbove(a.rsi, 60)
           /\ RsiAbove(b.rsi, 60) <=> RsiBelow(a.rsi, 40)
<1> DEFINE n == Len(v)
<1>1. n \in Nat /\ Len(w) = n /\ n > 0
  BY DEF Reflects
<1>2. CASE n < MomentumHistory
  <2>1. a = [direction |-> Neutral, score |-> 0, rsi |-> NoRsi] /\ b = a
    BY <1>1, <1>2 DEF AnalyzeMomentum
  <2>2. a.direction \in {0} /\ b.direction \in {0} /\ b.score = a.score /\ a.rsi = NoRsi /\ b.rsi = NoRsi
    BY <2>1 DEF Neutral
  <2>3. ~RsiBelow(NoRsi, 40) /\ ~RsiAbove(NoRsi, 60)
    BY DEF NoRsi, RsiBelow, RsiAbove
  <2> QED BY <2>2, <2>3 DEF Opposed, Directions, Neutral
<1>3. CASE ~(n < MomentumHistory)
  <2>1. /\ RsiLength \in Nat \ {0} /\ MacdSlow \in Nat \ {0} /\ MacdSignal \in Nat \ {0}
        /\ MomentumHistory \in Nat
        /\ RsiLength + 1 <= MomentumHistory /\ MacdSlow + MacdSignal - 1 <= MomentumHistory
    BY AnalysisAssumption, IndicatorsAssumption DEF AnalysisAssumption, IndicatorsAssumption
  <2>2. /\ n >= MomentumHistory /\ n \in (RsiLength + 1)..n
        /\ n \in MacdSlow..n /\ n \in (MacdSlow + MacdSignal - 1)..n
    <3> HIDE DEF n
    <3> QED BY <1>1, <1>3, <2>1
  <2> DEFINE r == Rsi(v)[n]
             s == Rsi(w)[n]
  <2>3. Inverted(r, s)
    BY <2>2, RsiReflected DEF Inverted
  <2> DEFINE macd == MacdLine(v)[n]       macd2 == MacdLine(w)[n]
             hist == MacdHistogram(v)[n]  hist2 == MacdHistogram(w)[n]
  <2>4. Negatives(macd, macd2)
    <3>1. macd \in Int /\ macd2 = -macd
      BY <2>2, MacdReflected
    <3> HIDE DEF macd, macd2
    <3> QED BY <3>1 DEF Negatives
  <2>5. Negatives(hist, hist2)
    <3>1. hist \in Int /\ hist2 = -hist
      BY <2>2, MacdReflected
    <3> HIDE DEF hist, hist2
    <3> QED BY <3>1 DEF Negatives
  <2>6. a = Agreement(r, macd, hist) /\ b = Agreement(s, macd2, hist2)
    BY <1>1, <1>3 DEF AnalyzeMomentum
  <2> HIDE DEF r, s, macd, macd2, hist, hist2
  <2>7. Opposed(a.direction, b.direction) /\ b.score = a.score
    BY <2>3, <2>4, <2>5, <2>6, AgreementReflected
  <2>8. a.rsi = r /\ b.rsi = s
    BY <2>6 DEF Agreement
  <2>9. (RsiAbove(r, 60) <=> RsiBelow(s, 40)) /\ (RsiBelow(r, 40) <=> RsiAbove(s, 60))
    BY <2>3, InvertedCompares
  <2> QED BY <2>7, <2>8, <2>9
<1> QED BY <1>2, <1>3

(* The vote of opposite directions is opposite.                            *)
LEMMA MajorityReflected ==
    ASSUME NEW d1, NEW d2, NEW d3, NEW e1, NEW e2, NEW e3,
           Opposed(d1, e1), Opposed(d2, e2), Opposed(d3, e3)
    PROVE  Opposed(MajorityDirection(<<d1, d2, d3>>), MajorityDirection(<<e1, e2, e3>>))
<1> DEFINE d == <<d1, d2, d3>>
           e == <<e1, e2, e3>>
           bulls(x) == Count([i \in DOMAIN x |-> x[i] = Bullish])
           bears(x) == Count([i \in DOMAIN x |-> x[i] = Bearish])
<1>1. DOMAIN d = 1..3 /\ DOMAIN e = 1..3
  OBVIOUS
<1>2. \A i \in 1..3 : (e[i] = Bullish <=> d[i] = Bearish) /\ (e[i] = Bearish <=> d[i] = Bullish)
  BY DEF Opposed, Directions, Bullish, Bearish, Neutral
<1> HIDE DEF d, e
<1>3. bulls(e) = bears(d) /\ bears(e) = bulls(d)
  BY <1>1, <1>2 DEF Count
<1>4. bulls(d) \in Nat /\ bears(d) \in Nat
  <2>1. \A f : DOMAIN f = 1..3 => Count(f) \in Nat
    <3> SUFFICES ASSUME NEW f, DOMAIN f = 1..3 PROVE Count(f) \in Nat
      OBVIOUS
    <3>1. IsFiniteSet(1..3)
      <4>1. 1 \in Int /\ 3 \in Int
        OBVIOUS
      <4> QED BY <4>1, FS_Interval, Zenon
    <3>2. {i \in DOMAIN f : f[i]} \subseteq 1..3
      OBVIOUS
    <3>3. IsFiniteSet({i \in DOMAIN f : f[i]})
      BY <3>1, <3>2, FS_Subset
    <3> QED BY <3>3, FS_CardinalityType DEF Count
  <2> QED BY <2>1, <1>1
<1> HIDE DEF bulls, bears
<1>5. /\ MajorityDirection(d) = IF bulls(d) > bears(d) THEN Bullish
                                ELSE IF bears(d) > bulls(d) THEN Bearish ELSE Neutral
      /\ MajorityDirection(e) = IF bulls(e) > bears(e) THEN Bullish
                                ELSE IF bears(e) > bulls(e) THEN Bearish ELSE Neutral
  BY DEF MajorityDirection, bulls, bears
<1> QED BY <1>3, <1>4, <1>5 DEF d, e, Opposed, Directions, Bullish, Bearish, Neutral

(* The level of volatility decides its points.                             *)
LEMMA VolatilityScores ==
    ASSUME NEW high, NEW low, NEW close, NEW high2, NEW low2, NEW close2,
           AnalyzeVolatility(high2, low2, close2).level = AnalyzeVolatility(high, low, close).level
    PROVE  AnalyzeVolatility(high2, low2, close2).score = AnalyzeVolatility(high, low, close).score
<1> DEFINE Points(v) == /\ v.level \in {"LOW", "NORMAL", "HIGH", "EXTREME", "UNKNOWN"}
                        /\ v.level = "LOW" => v.score = 6
                        /\ v.level = "NORMAL" => v.score = 10
                        /\ v.level = "HIGH" => v.score = 5
                        /\ v.level = "EXTREME" => v.score = 2
                        /\ v.level = "UNKNOWN" => v.score = 0
<1>1. \A atr, price : Points(VolatilityOf(atr, price))
  BY DEF VolatilityOf
<1>2. Points([level |-> "UNKNOWN", score |-> 0, atr |-> NaN])
  OBVIOUS
<1>3. Points(AnalyzeVolatility(high, low, close)) /\ Points(AnalyzeVolatility(high2, low2, close2))
  <2> HIDE DEF Points
  <2> QED BY <1>1, <1>2 DEF AnalyzeVolatility
<1> QED BY <1>3

(* The series of a chart turned upside down.                               *)
LEMMA SeriesMirrored ==
    ASSUME NEW c \in Charts, Mirrored(c) \in Charts
    PROVE  /\ Len(c) \in Nat \ {0} /\ Len(Mirrored(c)) = Len(c)
           /\ Len(Highs(c)) = Len(c) /\ Len(Lows(c)) = Len(c) /\ Len(Closes(c)) = Len(c)
           /\ Twins(Highs(Mirrored(c)), Lows(c))
           /\ Twins(Lows(Mirrored(c)), Highs(c))
           /\ Twins(Closes(Mirrored(c)), Closes(c))
<1> DEFINE m == Mirrored(c)
           n == Len(c)
<1>1. c \in Seq(Candle) /\ m \in Seq(Candle) /\ c # <<>>
  BY DEF Charts
<1>2. /\ n \in Nat \ {0} /\ DOMAIN c = 1..n /\ Len(m) \in Nat /\ DOMAIN m = 1..Len(m)
      /\ \A i \in 1..n : c[i] \in Candle
      /\ \A i \in 1..Len(m) : m[i] \in Candle
  <2> HIDE DEF m, Candle
  <2> QED BY <1>1
<1>3. m = [i \in 1..n |-> [high |-> Pivot - c[i].low, low |-> Pivot - c[i].high,
                           close |-> Pivot - c[i].close]]
  BY <1>2 DEF Mirrored
<1> HIDE DEF m, n
<1>4. Len(m) = n
  <2>1. PICK k \in Nat : k = Len(m)
    BY <1>2
  <2>2. \A i : i \in 1..k <=> i \in 1..n
    <3>1. DOMAIN m = 1..n
      BY <1>3
    <3> QED BY <3>1, <2>1, <1>2
  <2>3. 1 \in 1..n /\ n \in 1..n
    BY <1>2
  <2>4. 1 \in 1..k /\ n \in 1..k
    BY <2>2, <2>3
  <2>5. k \in 1..k
    BY <2>4
  <2>6. k \in 1..n
    BY <2>2, <2>5
  <2> QED BY <2>1, <2>4, <2>6, <1>2
<1>5. ASSUME NEW i \in 1..n
      PROVE  /\ c[i].high \in Nat /\ c[i].low \in Nat /\ c[i].close \in Nat
             /\ m[i].high \in Nat /\ m[i].low \in Nat /\ m[i].close \in Nat
             /\ m[i].high = Pivot - c[i].low /\ m[i].low = Pivot - c[i].high
             /\ m[i].close = Pivot - c[i].close
  <2>1. c[i] \in Candle /\ m[i] \in Candle
    BY <1>2, <1>4
  <2>2. m[i] = [high |-> Pivot - c[i].low, low |-> Pivot - c[i].high, close |-> Pivot - c[i].close]
    BY <1>3
  <2> QED BY <2>1, <2>2 DEF Candle
<1>6. /\ Highs(c) = [i \in 1..n |-> c[i].high] /\ Highs(m) = [i \in 1..n |-> m[i].high]
      /\ Lows(c) = [i \in 1..n |-> c[i].low] /\ Lows(m) = [i \in 1..n |-> m[i].low]
      /\ Closes(c) = [i \in 1..n |-> c[i].close] /\ Closes(m) = [i \in 1..n |-> m[i].close]
  BY <1>4 DEF Highs, Lows, Closes, n
<1>7. /\ Len(Highs(c)) = n /\ Len(Lows(c)) = n /\ Len(Closes(c)) = n
      /\ Len(Highs(m)) = n /\ Len(Lows(m)) = n /\ Len(Closes(m)) = n
  BY <1>2, <1>6
<1>8. Twins(Highs(m), Lows(c))
  BY <1>2, <1>5, <1>6, <1>7 DEF Twins, Reflects, Opposes
<1>9. Twins(Lows(m), Highs(c))
  BY <1>2, <1>5, <1>6, <1>7 DEF Twins, Reflects, Opposes
<1>10. Twins(Closes(m), Closes(c))
  BY <1>2, <1>5, <1>6, <1>7 DEF Twins, Reflects, Opposes
<1> QED BY <1>2, <1>4, <1>7, <1>8, <1>9, <1>10 DEF m, n

(* The averages and the levels that the verdict on a chart reads are exact *)
(* quotients: no division had a remainder.                                 *)
ExactQuotients(c) ==
    LET high == Highs(c)
        low == Lows(c)
        close == Closes(c)
        n == Len(c)
        atr == Atr(high, low, close)[n]
    IN  /\ n >= TrendHistory =>
              \A length \in {EmaFast, EmaMiddle, EmaSlow} : ExactEma(close, 1, n, length)
        /\ n >= MomentumHistory =>
              /\ ExactEma(close, 1, n, MacdFast) /\ ExactEma(close, 1, n, MacdSlow)
              /\ ExactEma(MacdLine(close), MacdSlow, n, MacdSignal)
        /\ n >= LevelsHistory /\ atr > 0 =>
              ExactLevels(SwingHighs(high), high, atr) /\ ExactLevels(SwingLows(low), low, atr)

(* Support and resistance of a chart upside down ...                       *)
LEMMA LevelsReflectedInChart ==
    ASSUME NEW c \in Charts, Mirrored(c) \in Charts, ExactQuotients(c),
           NEW direction \in Directions
    PROVE  AnalyzeSupportResistance(Highs(Mirrored(c)), Lows(Mirrored(c)), Closes(Mirrored(c)),
                                    -direction) =
             Exchanged(AnalyzeSupportResistance(Highs(c), Lows(c), Closes(c), direction))
<1> DEFINE high == Highs(c)             low == Lows(c)             close == Closes(c)
           high2 == Highs(Mirrored(c))  low2 == Lows(Mirrored(c))  close2 == Closes(Mirrored(c))
           n == Len(c)
           atr == Atr(high, low, close)[n]
<1>1. /\ n \in Nat \ {0} /\ Len(high) = n /\ Len(low) = n /\ Len(close) = n
      /\ Twins(high2, low) /\ Twins(low2, high) /\ Twins(close2, close)
  BY SeriesMirrored
<1>2. n >= LevelsHistory /\ atr > 0 =>
         ExactLevels(SwingHighs(high), high, atr) /\ ExactLevels(SwingLows(low), low, atr)
  BY DEF ExactQuotients
<1> HIDE DEF high, low, close, high2, low2, close2
<1>3. /\ Reflects(high2, low, Pivot) /\ Reflects(low2, high, Pivot)
      /\ Reflects(close2, close, Pivot) /\ Len(close2) = n
      /\ \A i \in 1..n : high[i] \in Int /\ low[i] \in Int /\ close[i] \in Int
      /\ close2[n] = Pivot - close[n] /\ Pivot \in Int
  <2>1. Reflects(high2, low, Pivot) /\ Reflects(low2, high, Pivot) /\ Reflects(close2, close, Pivot)
    BY <1>1 DEF Twins
  <2>2. Len(close2) = n /\ close2[n] = Pivot - close[n]
    BY <1>1, <2>1 DEF Reflects, Opposes
  <2>3. \A i \in 1..n : high[i] \in Int /\ low[i] \in Int /\ close[i] \in Int
    BY <1>1, <2>1 DEF Reflects, Opposes
  <2> QED BY <2>1, <2>2, <2>3, EngineAssumption DEF EngineAssumption
<1>4. Atr(high2, low2, close2)[n] = atr
  BY <1>1, <1>3, AtrReflected
<1>5. CASE n < LevelsHistory
  <2>1. Exchanged(NoSupportResistance) = NoSupportResistance
    BY DEF Exchanged, NoSupportResistance, MirroredLevel
  <2>2. /\ AnalyzeSupportResistance(high, low, close, direction) = NoSupportResistance
        /\ AnalyzeSupportResistance(high2, low2, close2, -direction) = NoSupportResistance
    BY <1>1, <1>3, <1>5 DEF AnalyzeSupportResistance
  <2> QED BY <2>1, <2>2 DEF high, low, close, high2, low2, close2
<1>6. CASE ~(n < LevelsHistory)
  <2>a. LevelsHistory \in Nat /\ AtrLength \in Nat /\ AtrLength + 1 <= LevelsHistory
    BY AnalysisAssumption, IndicatorsAssumption DEF AnalysisAssumption, IndicatorsAssumption
  <2>1. n >= LevelsHistory /\ n >= AtrLength + 1
    <3> HIDE DEF n
    <3> QED BY <2>a, <1>1, <1>6
  <2>2. atr \in Nat
    BY <1>1, <1>3, <2>1, AtrTyped
  <2>3. close[n] \in Int
    BY <1>1, <1>3
  <2>4. atr > 0 =>
           ExactLevels(SwingHighs(high), high, atr) /\ ExactLevels(SwingLows(low), low, atr)
    BY <1>2, <2>1
  <2> HIDE DEF atr
  <2>5. SupportResistance(high2, low2, Pivot - close[n], atr, -direction) =
           Exchanged(SupportResistance(high, low, close[n], atr, direction))
    BY <1>1, <2>2, <2>3, <2>4, SupportResistanceReflected
  <2>6. /\ AnalyzeSupportResistance(high, low, close, direction) =
             SupportResistance(high, low, close[n], atr, direction)
        /\ AnalyzeSupportResistance(high2, low2, close2, -direction) =
             SupportResistance(high2, low2, Pivot - close[n], atr, -direction)
    BY <1>1, <1>3, <1>4, <1>6 DEF AnalyzeSupportResistance, atr
  <2> QED BY <2>5, <2>6 DEF high, low, close, high2, low2, close2
<1> QED BY <1>5, <1>6

(* ... and its verdict, as far as the thresholds relative to the price     *)
(* (the ranging trend, the level of volatility) do not tell the two charts *)
(* apart.                                                                  *)
LEMMA AnalyzeReflected ==
    ASSUME NEW c \in Charts, Mirrored(c) \in Charts, ExactQuotients(c),
           NEW a, a = Analyze(c), NEW m, m = Analyze(Mirrored(c)),
           m.trend.ranging = a.trend.ranging, m.volatility.level = a.volatility.level
    PROVE  /\ Opposed(a.direction, m.direction)
           /\ Opposed(a.trend.direction, m.trend.direction)
           /\ Opposed(a.momentum.direction, m.momentum.direction)
           /\ m.structure = [a.structure EXCEPT !.direction = -@]
           /\ m.sr = Exchanged(a.sr)
           /\ m.score = a.score +
                IF a.trend.score > 0 /\ Ema(Closes(c), EmaFast)[Len(c)] = Ema(Closes(c), EmaFast)[Len(c) - 2]
                THEN 3 * a.trend.direction ELSE 0
           /\ RsiBelow(m.momentum.rsi, 40) <=> RsiAbove(a.momentum.rsi, 60)
           /\ RsiAbove(m.momentum.rsi, 60) <=> RsiBelow(a.momentum.rsi, 40)
<1> DEFINE high == Highs(c)             low == Lows(c)             close == Closes(c)
           high2 == Highs(Mirrored(c))  low2 == Lows(Mirrored(c))  close2 == Closes(Mirrored(c))
           n == Len(c)
           t == AnalyzeTrend(close)                  t2 == AnalyzeTrend(close2)
           mo == AnalyzeMomentum(close)              mo2 == AnalyzeMomentum(close2)
           st == AnalyzeStructure(high, low, close)  st2 == AnalyzeStructure(high2, low2, close2)
           vo == AnalyzeVolatility(high, low, close) vo2 == AnalyzeVolatility(high2, low2, close2)
           d == MajorityDirection(<<t.direction, mo.direction, st.direction>>)
           d2 == MajorityDirection(<<t2.direction, mo2.direction, st2.direction>>)
           sr == AnalyzeSupportResistance(high, low, close, d)
           sr2 == AnalyzeSupportResistance(high2, low2, close2, d2)
           bonus == IF t.score > 0 /\ Ema(close, EmaFast)[n] = Ema(close, EmaFast)[n - 2]
                    THEN 3 * t.direction ELSE 0
<1>1. /\ n \in Nat \ {0} /\ Len(high) = n /\ Len(low) = n /\ Len(close) = n
      /\ Twins(high2, low) /\ Twins(low2, high) /\ Twins(close2, close)
  BY SeriesMirrored
<1>2. /\ n >= TrendHistory =>
           /\ ExactEma(close, 1, n, EmaFast) /\ ExactEma(close, 1, n, EmaMiddle)
           /\ ExactEma(close, 1, n, EmaSlow)
      /\ n >= MomentumHistory =>
           /\ ExactEma(close, 1, n, MacdFast) /\ ExactEma(close, 1, n, MacdSlow)
           /\ ExactEma(MacdLine(close), MacdSlow, n, MacdSignal)
  BY DEF ExactQuotients
<1>3. /\ a = Total(close[Len(close)], t, mo, st, vo, d, sr)
      /\ m = Total(close2[Len(close2)], t2, mo2, st2, vo2, d2, sr2)
  BY DEF Analyze, AnalyzeSeries, Combine
<1>sr. d \in Directions =>
         AnalyzeSupportResistance(high2, low2, close2, -d) = Exchanged(sr)
  BY LevelsReflectedInChart
<1> HIDE DEF high, low, close, high2, low2, close2
<1>4. /\ Reflects(high2, low, Pivot) /\ Reflects(low2, high, Pivot)
      /\ Reflects(close2, close, Pivot) /\ Pivot \in Int
  BY <1>1, EngineAssumption DEF Twins, EngineAssumption
<1>5. /\ a.direction = d /\ m.direction = d2 /\ a.trend = t /\ m.trend = t2
      /\ a.momentum = mo /\ m.momentum = mo2 /\ a.structure = st /\ m.structure = st2
      /\ a.volatility = vo /\ m.volatility = vo2 /\ a.sr = sr /\ m.sr = sr2
      /\ a.score = t.score + mo.score + st.score + sr.score + vo.score
      /\ m.score = t2.score + mo2.score + st2.score + sr2.score + vo2.score
  <2> HIDE DEF t, t2, mo, mo2, st, st2, vo, vo2, d, d2, sr, sr2
  <2> QED BY <1>3 DEF Total
<1>6. Opposed(t.direction, t2.direction) /\ t2.score = t.score + bonus
  <2>1. t2.ranging = t.ranging
    BY <1>5
  <2>2. Len(close) > 0 /\ Len(close) = n
    BY <1>1
  <2>3. Len(close) >= TrendHistory =>
           /\ ExactEma(close, 1, Len(close), EmaFast) /\ ExactEma(close, 1, Len(close), EmaMiddle)
           /\ ExactEma(close, 1, Len(close), EmaSlow)
    BY <1>2, <2>2
  <2>4. Opposed(t.direction, t2.direction) /\
        t2.score = t.score +
          IF t.score > 0 /\ Ema(close, EmaFast)[Len(close)] = Ema(close, EmaFast)[Len(close) - 2]
          THEN 3 * t.direction ELSE 0
    BY <1>4, <2>1, <2>2, <2>3, TrendReflected
  <2> QED BY <2>2, <2>4
<1>7. /\ Opposed(mo.direction, mo2.direction) /\ mo2.score = mo.score
      /\ RsiBelow(mo2.rsi, 40) <=> RsiAbove(mo.rsi, 60)
      /\ RsiAbove(mo2.rsi, 60) <=> RsiBelow(mo.rsi, 40)
  <2>1. Len(close) > 0
    BY <1>1
  <2>2. Len(close) >= MomentumHistory =>
           /\ ExactEma(close, 1, Len(close), MacdFast) /\ ExactEma(close, 1, Len(close), MacdSlow)
           /\ ExactEma(MacdLine(close), MacdSlow, Len(close), MacdSignal)
    BY <1>1, <1>2
  <2> QED BY <1>4, <2>1, <2>2, MomentumReflected
<1>8. /\ st2 = [st EXCEPT !.direction = -@] /\ Opposed(st.direction, st2.direction)
      /\ st2.score = st.score
  <2>1. Len(high) = Len(close) /\ Len(low) = Len(close) /\ Len(close) > 0
    BY <1>1
  <2> QED BY <1>4, <2>1, StructureReflected
<1>9. Opposed(d, d2)
  BY <1>6, <1>7, <1>8, MajorityReflected
<1>10. sr2 = Exchanged(sr) /\ sr2.score = sr.score
  <2>1. d \in Directions /\ d2 = -d
    BY <1>9 DEF Opposed
  <2>2. sr2 = Exchanged(sr)
    BY <2>1, <1>sr
  <2> QED BY <2>2 DEF Exchanged
<1>11. vo2.score = vo.score
  <2>1. vo2.level = vo.level
    BY <1>5
  <2> QED BY <2>1, VolatilityScores
<1>12. /\ t.score \in Int /\ mo.score \in Int /\ st.score \in Int /\ sr.score \in Int
       /\ vo.score \in Int /\ bonus \in Int
  <2>1. d \in Directions /\ t.direction \in Int
    BY <1>9, <1>6 DEF Opposed, Directions, Bullish, Bearish, Neutral
  <2>2. sr.score \in Int
    BY <2>1, LevelsTyped
  <2>3. t.score \in 0..25 /\ mo.score \in 0..20
    BY TrendTyped, MomentumTyped
  <2>4. st.score \in 0..20 /\ vo.score \in 0..10
    BY StructureTyped, VolatilityTyped
  <2> HIDE DEF t, mo, st, vo, d, sr
  <2>5. bonus \in Int
    <3>1. 3 * t.direction \in Int /\ 0 \in Int
      BY <2>1
    <3> QED BY <3>1
  <2> HIDE DEF bonus
  <2> QED BY <2>2, <2>3, <2>4, <2>5
<1> HIDE DEF t, t2, mo, mo2, st, st2, vo, vo2, d, d2, sr, sr2
<1>13. m.score = a.score + bonus
  <2> HIDE DEF bonus
  <2> QED BY <1>5, <1>6, <1>7, <1>8, <1>10, <1>11, <1>12
<1>14. bonus = IF a.trend.score > 0 /\ Ema(Closes(c), EmaFast)[Len(c)] = Ema(Closes(c), EmaFast)[Len(c) - 2]
               THEN 3 * a.trend.direction ELSE 0
  BY <1>5 DEF close
<1> HIDE DEF bonus
<1> QED BY <1>5, <1>6, <1>7, <1>8, <1>9, <1>10, <1>13, <1>14

-----------------------------------------------------------------------------
(* Upside down: the signal.                                                *)

(* The verdicts on the timeframes of two charts face each other when they  *)
(* and their trends are opposite, and the 15m setups are as near to their  *)
(* average and opposite in RSI.                                            *)
Facing(a1, a2) ==
    /\ DOMAIN a2 = DOMAIN a1
    /\ \A tf \in DOMAIN a1 : /\ Opposed(a1[tf].direction, a2[tf].direction)
                             /\ Opposed(a1[tf].trend.direction, a2[tf].trend.direction)
    /\ NearEma20(a2["15m"]) = NearEma20(a1["15m"])
    /\ RsiBelow(a2["15m"].momentum.rsi, 40) <=> RsiAbove(a1["15m"].momentum.rsi, 60)
    /\ RsiAbove(a2["15m"].momentum.rsi, 60) <=> RsiBelow(a1["15m"].momentum.rsi, 40)

(* Facing verdicts open the gate for opposite sides ...                    *)
LEMMA GateReflected ==
    ASSUME NEW a1, NEW a2, Facing(a1, a2)
    PROVE  MultiTimeframeGate(a2) = MirroredSide(MultiTimeframeGate(a1))
<1> DEFINE d1(tf) == a1[tf].direction
           d2(tf) == a2[tf].direction
           all == GateTimeframes \subseteq DOMAIN a1
           split1 == \E tf \in {"1h", "15m"} : d1(tf) \notin {Neutral, d1("4h")}
           split2 == \E tf \in {"1h", "15m"} : d2(tf) \notin {Neutral, d2("4h")}
<1>1. /\ MultiTimeframeGate(a1) =
            IF ~all \/ d1("4h") = Neutral \/ split1 THEN "WAIT" ELSE Side(d1("4h"))
      /\ MultiTimeframeGate(a2) =
            IF ~all \/ d2("4h") = Neutral \/ split2 THEN "WAIT" ELSE Side(d2("4h"))
  BY DEF MultiTimeframeGate, Facing
<1>2. all => \A tf \in GateTimeframes :
                /\ d1(tf) \in {Bullish, Neutral, Bearish} /\ d2(tf) = -d1(tf)
  BY DEF Facing, Opposed, Directions
<1> HIDE DEF d1, d2
<1>3. all => (split2 <=> split1)
  <2> SUFFICES ASSUME all PROVE split2 <=> split1
    OBVIOUS
  <2>1. \A tf \in {"1h", "15m"} : d2(tf) \notin {Neutral, d2("4h")} <=> d1(tf) \notin {Neutral, d1("4h")}
    BY <1>2 DEF GateTimeframes, Bullish, Bearish, Neutral
  <2> QED BY <2>1
<1>4. all => /\ d2("4h") = Neutral <=> d1("4h") = Neutral
             /\ d1("4h") # Neutral => Side(d2("4h")) = MirroredSide(Side(d1("4h")))
  BY <1>2 DEF GateTimeframes, Bullish, Bearish, Neutral, Side, MirroredSide
<1>5. MirroredSide("WAIT") = "WAIT"
  BY DEF MirroredSide
<1> HIDE DEF all, split1, split2
<1> QED BY <1>1, <1>3, <1>4, <1>5

(* ... name opposite pullbacks ...                                         *)
LEMMA PullbackReflected ==
    ASSUME NEW a1, NEW a2, Facing(a1, a2)
    PROVE  CheckPullback(a2) = MirroredSide(CheckPullback(a1))
<1> DEFINE t1 == a1["4h"].trend.direction
           t2 == a2["4h"].trend.direction
           all == {"4h", "15m"} \subseteq DOMAIN a1
           near == NearEma20(a1["15m"])
           low1 == RsiBelow(a1["15m"].momentum.rsi, 40)
           high1 == RsiAbove(a1["15m"].momentum.rsi, 60)
           low2 == RsiBelow(a2["15m"].momentum.rsi, 40)
           high2 == RsiAbove(a2["15m"].momentum.rsi, 60)
<1>1. /\ CheckPullback(a1) = IF ~all THEN "none"
                             ELSE IF near /\ t1 = Bullish /\ low1 THEN "BUY"
                             ELSE IF near /\ t1 = Bearish /\ high1 THEN "SELL" ELSE "none"
      /\ CheckPullback(a2) = IF ~all THEN "none"
                             ELSE IF near /\ t2 = Bullish /\ low2 THEN "BUY"
                             ELSE IF near /\ t2 = Bearish /\ high2 THEN "SELL" ELSE "none"
  BY DEF CheckPullback, Facing
<1>2. /\ (low2 <=> high1) /\ (high2 <=> low1)
      /\ all => t1 \in {Bullish, Neutral, Bearish} /\ t2 = -t1
  BY DEF Facing, Opposed, Directions
<1> HIDE DEF t1, t2, all, near, low1, high1, low2, high2
<1>3. all => (t2 = Bullish <=> t1 = Bearish) /\ (t2 = Bearish <=> t1 = Bullish)
              /\ ~(t1 = Bullish /\ t1 = Bearish)
  BY <1>2 DEF Bullish, Bearish, Neutral
<1>4. /\ MirroredSide("BUY") = "SELL" /\ MirroredSide("SELL") = "BUY"
      /\ MirroredSide("none") = "none"
  BY DEF MirroredSide
<1> QED BY <1>1, <1>2, <1>3, <1>4

(* ... and give opposite signals.                                          *)
LEMMA SignalReflected ==
    ASSUME NEW a1, NEW a2, Facing(a1, a2)
    PROVE  GenerateSignal(a2).direction = MirroredSide(GenerateSignal(a1).direction)
<1>1. /\ MultiTimeframeGate(a2) = MirroredSide(MultiTimeframeGate(a1))
      /\ CheckPullback(a2) = MirroredSide(CheckPullback(a1))
  BY GateReflected, PullbackReflected
<1>2. /\ MultiTimeframeGate(a1) \in {"WAIT", "BUY", "SELL"}
      /\ CheckPullback(a1) \in {"none", "BUY", "SELL"}
  BY DEF MultiTimeframeGate, Side, CheckPullback
<1>3. /\ MirroredSide("BUY") = "SELL" /\ MirroredSide("SELL") = "BUY"
      /\ MirroredSide("none") = "none" /\ MirroredSide("WAIT") = "WAIT"
  BY DEF MirroredSide
<1> QED BY <1>1, <1>2, <1>3, SignalSide

(* The verdict on another timeframe upside down faces it.                  *)
LEMMA MirroredVerdictOpposed ==
    ASSUME NEW v, IsVerdict(v)
    PROVE  /\ Opposed(v.direction, MirroredVerdict(v).direction)
           /\ Opposed(v.trend.direction, MirroredVerdict(v).trend.direction)
<1>1. /\ {"direction", "trend"} \subseteq DOMAIN v /\ "direction" \in DOMAIN v.trend
      /\ v.direction \in Directions /\ v.trend.direction \in Directions
  BY DEF IsVerdict
<1>2. /\ MirroredVerdict(v).direction = -v.direction
      /\ MirroredVerdict(v).trend.direction = -v.trend.direction
  BY <1>1 DEF MirroredVerdict
<1> QED BY <1>1, <1>2 DEF Opposed

(* Bulls and bears are judged alike. A chart of which the averages and     *)
(* levels are exact quotients, and whose mirror image is a chart (no price *)
(* is negative), gets the opposite directions, the same points but for a   *)
(* flat EMA, exchanged support and resistance and the opposite signal when *)
(* it is turned upside down.  With a remainder the model rounds down on     *)
(* both sides where the code keeps the fraction: the two verdicts then     *)
(* differ by the model's rounding and not by the code's rules.             *)
THEOREM BullsAndBearsAlike ==
    Spec => [](ExactQuotients(chart) /\ Mirrored(chart) \in Charts => MirrorImage)
<1>1. Current => (ExactQuotients(chart) /\ Mirrored(chart) \in Charts => MirrorImage)
  <2> SUFFICES ASSUME Current, ExactQuotients(chart), Mirrored(chart) \in Charts,
                      NEW m, m = Analyze(Mirrored(chart)),
                      m.trend.ranging = analysis.trend.ranging,
                      m.volatility.level = analysis.volatility.level,
                      NearEma20(m) = NearEma20(analysis)
               PROVE  /\ m.direction = -analysis.direction
                      /\ m.trend.direction = -analysis.trend.direction
                      /\ m.momentum.direction = -analysis.momentum.direction
                      /\ m.structure = [analysis.structure EXCEPT !.direction = -@]
                      /\ m.sr = [score |-> analysis.sr.score,
                                 support |-> MirroredLevel(analysis.sr.resistance),
                                 resistance |-> MirroredLevel(analysis.sr.support)]
                      /\ m.score = analysis.score + FlatBonus
                      /\ GenerateSignal([tf \in DOMAIN others \cup {"15m"} |->
                            IF tf = "15m" THEN m ELSE MirroredVerdict(others[tf])]).direction
                           = MirroredSide(signal.direction)
    BY DEF MirrorImage, Opposite
  <2> DEFINE a2 == [tf \in DOMAIN others \cup {"15m"} |->
                      IF tf = "15m" THEN m ELSE MirroredVerdict(others[tf])]
             a1 == AnalysesOf(analysis)
             close == Closes(chart)
             bonus == IF analysis.trend.score > 0
                         /\ Ema(close, EmaFast)[Len(chart)] = Ema(close, EmaFast)[Len(chart) - 2]
                      THEN 3 * analysis.trend.direction ELSE 0
  <2>1. chart \in Charts /\ analysis = Analyze(chart) /\ signal = GenerateSignal(a1)
    BY DEF Current
  <2>2. /\ Opposed(analysis.direction, m.direction)
        /\ Opposed(analysis.trend.direction, m.trend.direction)
        /\ Opposed(analysis.momentum.direction, m.momentum.direction)
        /\ m.structure = [analysis.structure EXCEPT !.direction = -@]
        /\ m.sr = Exchanged(analysis.sr)
        /\ m.score = analysis.score + bonus
        /\ RsiBelow(m.momentum.rsi, 40) <=> RsiAbove(analysis.momentum.rsi, 60)
        /\ RsiAbove(m.momentum.rsi, 60) <=> RsiBelow(analysis.momentum.rsi, 40)
    BY <2>1, AnalyzeReflected
  <2>3. bonus = FlatBonus
    BY DEF FlatBonus
  <2>4. Facing(a1, a2)
    <3>1. DOMAIN a1 = DOMAIN others \cup {"15m"} /\ DOMAIN a2 = DOMAIN a1
      BY DEF AnalysesOf
    <3>2. a1["15m"] = analysis /\ a2["15m"] = m
      BY DEF AnalysesOf
    <3>3. ASSUME NEW tf \in DOMAIN a1
          PROVE  /\ Opposed(a1[tf].direction, a2[tf].direction)
                 /\ Opposed(a1[tf].trend.direction, a2[tf].trend.direction)
      <4>1. CASE tf = "15m"
        BY <2>2, <3>2, <4>1
      <4>2. CASE tf # "15m"
        <5>1. tf \in DOMAIN others /\ a1[tf] = others[tf] /\ a2[tf] = MirroredVerdict(others[tf])
          BY <3>1, <4>2 DEF AnalysesOf
        <5>2. IsVerdict(others[tf])
          BY <5>1 DEF Current
        <5> HIDE DEF a1, a2
        <5> QED BY <5>1, <5>2, MirroredVerdictOpposed
      <4> QED BY <4>1, <4>2
    <3> HIDE DEF a1, a2
    <3> QED BY <2>2, <3>1, <3>2, <3>3 DEF Facing
  <2>5. GenerateSignal(a2).direction = MirroredSide(signal.direction)
    <3> HIDE DEF a1, a2
    <3> QED BY <2>1, <2>4, SignalReflected
  <2> HIDE DEF bonus
  <2> QED BY <2>2, <2>3, <2>5 DEF Opposed, Exchanged
<1> QED BY <1>1, CurrentAlways, PTL

(* What of the mirror image needs no exact quotients: the structure, the   *)
(* ATR, the sides of the RSI and the zones.                                *)
ShapeReflected ==
    LET m == Mirrored(chart)
        verdict == Analyze(m)
        atr == analysis.volatility.atr
    IN  /\ verdict.structure = [analysis.structure EXCEPT !.direction = -@]
        /\ verdict.volatility.atr = atr
        /\ RsiBelow(verdict.momentum.rsi, 40) <=> RsiAbove(analysis.momentum.rsi, 60)
        /\ RsiAbove(verdict.momentum.rsi, 60) <=> RsiBelow(analysis.momentum.rsi, 40)
        /\ ToSet(Zones(SwingLows(Lows(m)), Lows(m), atr)) =
              ToSet(Zones(SwingHighs(Highs(chart)), Highs(chart), atr))
        /\ ToSet(Zones(SwingHighs(Highs(m)), Highs(m), atr)) =
              ToSet(Zones(SwingLows(Lows(chart)), Lows(chart), atr))

(* The RSI of a series and of its reflection.                              *)
LEMMA RsiSidesReflected ==
    ASSUME NEW p \in Int, NEW v, NEW w, Reflects(w, v, p), Len(v) > 0,
           NEW r, r = AnalyzeMomentum(v).rsi, NEW s, s = AnalyzeMomentum(w).rsi
    PROVE  /\ RsiBelow(s, 40) <=> RsiAbove(r, 60)
           /\ RsiAbove(s, 60) <=> RsiBelow(r, 40)
<1> DEFINE n == Len(v)
<1>1. n \in Nat /\ Len(w) = n /\ n > 0
  BY DEF Reflects
<1>2. CASE n < MomentumHistory
  <2>1. r = NoRsi /\ s = NoRsi
    BY <1>1, <1>2 DEF AnalyzeMomentum
  <2>2. /\ ~RsiBelow(NoRsi, 40) /\ ~RsiAbove(NoRsi, 60)
        /\ ~RsiBelow(NoRsi, 60) /\ ~RsiAbove(NoRsi, 40)
    BY DEF NoRsi, RsiBelow, RsiAbove
  <2> QED BY <2>1, <2>2
<1>3. CASE ~(n < MomentumHistory)
  <2>1. /\ RsiLength \in Nat \ {0} /\ MomentumHistory \in Nat
        /\ RsiLength + 1 <= MomentumHistory
    BY AnalysisAssumption, IndicatorsAssumption DEF AnalysisAssumption, IndicatorsAssumption
  <2>2. n \in (RsiLength + 1)..n
    <3> HIDE DEF n
    <3> QED BY <1>1, <1>3, <2>1
  <2>3. Inverted(Rsi(v)[n], Rsi(w)[n])
    BY <2>2, RsiReflected DEF Inverted
  <2>4. r = Rsi(v)[n] /\ s = Rsi(w)[n]
    BY <1>1, <1>3 DEF AnalyzeMomentum, Agreement
  <2> QED BY <2>3, <2>4, InvertedCompares
<1> QED BY <1>2, <1>3

(* Bulls and bears are seen alike: of every chart whose mirror image is a  *)
(* chart, whatever the remainders of its averages, the mirror image has    *)
(* the opposite structure with the same points, break and change of        *)
(* character, the same ATR, an RSI as far on the other side of 50, and its *)
(* support zones are the very swings of the resistance zones.              *)
THEOREM ShapesAreReflected == Spec => [](Mirrored(chart) \in Charts => ShapeReflected)
<1>1. Current => (Mirrored(chart) \in Charts => ShapeReflected)
  <2> SUFFICES ASSUME Current, Mirrored(chart) \in Charts PROVE ShapeReflected
    OBVIOUS
  <2> DEFINE high == Highs(chart)             low == Lows(chart)
             close == Closes(chart)
             high2 == Highs(Mirrored(chart))  low2 == Lows(Mirrored(chart))
             close2 == Closes(Mirrored(chart))
             n == Len(chart)
             verdict == Analyze(Mirrored(chart))
             atr == analysis.volatility.atr
  <2>1. chart \in Charts /\ analysis = Analyze(chart)
    BY DEF Current
  <2>2. /\ n \in Nat \ {0} /\ Len(high) = n /\ Len(low) = n /\ Len(close) = n
        /\ Twins(high2, low) /\ Twins(low2, high) /\ Twins(close2, close)
    BY <2>1, SeriesMirrored
  <2>3. /\ analysis.structure = AnalyzeStructure(high, low, close)
        /\ analysis.momentum = AnalyzeMomentum(close)
        /\ analysis.volatility = AnalyzeVolatility(high, low, close)
        /\ verdict.structure = AnalyzeStructure(high2, low2, close2)
        /\ verdict.momentum = AnalyzeMomentum(close2)
        /\ verdict.volatility = AnalyzeVolatility(high2, low2, close2)
    BY <2>1 DEF Analyze, AnalyzeSeries, Combine, Total
  <2>4. atr \in Nat
    BY <2>1, AnalyzeGivesVerdict DEF IsVerdict
  <2> HIDE DEF high, low, close, high2, low2, close2, verdict
  <2>5. /\ Reflects(high2, low, Pivot) /\ Reflects(low2, high, Pivot)
        /\ Reflects(close2, close, Pivot) /\ Pivot \in Int
    BY <2>2, EngineAssumption DEF Twins, EngineAssumption
  <2>6. verdict.structure = [analysis.structure EXCEPT !.direction = -@]
    <3>1. Len(high) = Len(close) /\ Len(low) = Len(close) /\ Len(close) > 0
      BY <2>2
    <3> QED BY <2>3, <2>5, <3>1, StructureReflected
  <2>7. verdict.volatility.atr = atr
    <3>1. Atr(high2, low2, close2) = Atr(high, low, close)
      BY <2>2, <2>5, AtrReflected
    <3>2. Len(close2) = Len(close)
      BY <2>5 DEF Reflects
    <3> QED BY <2>3, <3>1, <3>2, VolatilityTyped
  <2>8. /\ RsiBelow(verdict.momentum.rsi, 40) <=> RsiAbove(analysis.momentum.rsi, 60)
        /\ RsiAbove(verdict.momentum.rsi, 60) <=> RsiBelow(analysis.momentum.rsi, 40)
    <3>1. Len(close) > 0
      BY <2>2
    <3>2. /\ verdict.momentum.rsi = AnalyzeMomentum(close2).rsi
          /\ analysis.momentum.rsi = AnalyzeMomentum(close).rsi
      BY <2>3
    <3> QED BY ONLY <2>5, <3>1, <3>2, RsiSidesReflected
  <2>9. /\ SwingLows(low2) = SwingHighs(high) /\ SwingHighs(high2) = SwingLows(low)
        /\ SwingHighs(high) \subseteq 1..Len(high) /\ SwingLows(low) \subseteq 1..Len(low)
    <3>1. Len(high) \in Nat /\ Len(low) \in Nat
      BY <2>2
    <3>2. SwingHighs(high) \subseteq 1..Len(high) /\ SwingLows(low) \subseteq 1..Len(low)
      BY <3>1, SwingsWithin
    <3> QED BY <2>5, <3>2, SwingsReflected
  <2> HIDE DEF atr
  <2>10. ToSet(Zones(SwingHighs(high), low2, atr)) = ToSet(Zones(SwingHighs(high), high, atr))
    <3> DEFINE S == SwingHighs(high)
    <3>1. S \subseteq 1..Len(high)
      BY <2>9
    <3>2. \A i \in S : high[i] \in Nat /\ low2[i] \in Nat
      BY <2>2, <3>1 DEF Twins
    <3> HIDE DEF S
    <3> QED BY <2>4, <2>5, <3>1, <3>2, ZonesReflected DEF S
  <2>11. ToSet(Zones(SwingLows(low), high2, atr)) = ToSet(Zones(SwingLows(low), low, atr))
    <3> DEFINE S == SwingLows(low)
    <3>1. S \subseteq 1..Len(low)
      BY <2>9
    <3>2. \A i \in S : low[i] \in Nat /\ high2[i] \in Nat
      BY <2>2, <3>1 DEF Twins
    <3> HIDE DEF S
    <3> QED BY <2>4, <2>5, <3>1, <3>2, ZonesReflected DEF S
  <2> QED
    BY <2>6, <2>7, <2>8, <2>9, <2>10, <2>11
       DEF ShapeReflected, high, low, high2, low2, verdict, atr
<1> QED BY <1>1, CurrentAlways, PTL
=============================================================================
