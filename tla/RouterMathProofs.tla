-------------------------- MODULE RouterMathProofs --------------------------
(***************************************************************************)
(* Bounds of the program's arithmetic, for every amount, rate and time,    *)
(* and the sums its ledgers are stated with.                               *)
(***************************************************************************)
EXTENDS RouterMath, Functions, FiniteSetTheorems, WellFoundedInduction, TLAPS

----------------------------------------------------------------------------
(* Arithmetic. *)

\* A basis-point rate of at most 100% yields no more than the amount.
LEMMA ApplyBpsType ==
  ASSUME NEW a \in Nat, NEW b \in Nat
  PROVE  /\ ApplyBps(a, b) \in Nat
         /\ b <= 10000 => ApplyBps(a, b) <= a
<1>1. a * b \in Nat
  OBVIOUS
<1>2. ASSUME b <= 10000 PROVE a * b <= a * 10000
  BY <1>2
<1>3. \A x \in Nat : x \div 10000 \in Nat
  OBVIOUS
<1>4. \A x \in Nat : x <= a * 10000 => x \div 10000 <= a
  OBVIOUS
<1> QED
  BY <1>1, <1>2, <1>3, <1>4 DEF ApplyBps, BASIS_POINTS_DIVISOR

\* Truncated proportions: a part of the time vests at most the total, and more
\* time never less.
LEMMA ProportionBounds ==
  ASSUME NEW t \in Nat, NEW d \in Nat \ {0}, NEW x \in Nat, x <= d
  PROVE  (t * x) \div d \in Nat /\ (t * x) \div d <= t
<1>1. t * x \in Nat /\ t * x <= t * d
  OBVIOUS
<1>2. \A y \in Nat : y <= t * d => y \div d \in Nat /\ y \div d <= t
  OBVIOUS
<1> QED
  BY <1>1, <1>2

LEMMA ProportionMonotone ==
  ASSUME NEW t \in Nat, NEW d \in Nat \ {0}, NEW x \in Nat, NEW y \in Nat, x <= y
  PROVE  (t * x) \div d <= (t * y) \div d
<1>1. t * x \in Nat /\ t * y \in Nat /\ t * x <= t * y
  OBVIOUS
<1>2. \A p, q \in Nat : p <= q => p \div d <= q \div d
  OBVIOUS
<1> QED
  BY <1>1, <1>2

\* Measured uptime is a rate between 0 and 100%, whatever the counters hold.
LEMMA UptimeBpsType ==
  ASSUME NEW h \in Nat, NEW x \in Nat
  PROVE  UptimeBps(h, x) \in Nat /\ UptimeBps(h, x) <= 10000
<1>1. CASE x = 0
  BY <1>1 DEF UptimeBps
<1>2. CASE x # 0
  <2> DEFINE m == Lesser(h, x)
  <2>0. UptimeBps(h, x) = (m * 10000) \div x
    BY <1>2 DEF UptimeBps, BASIS_POINTS_DIVISOR
  <2>1. m \in Nat /\ m <= x
    BY DEF Lesser
  <2> HIDE DEF m
  <2>2. (10000 * m) \div x \in Nat /\ (10000 * m) \div x <= 10000
    BY <1>2, <2>1, ProportionBounds
  <2>3. 10000 * m = m * 10000
    BY <2>1
  <2> QED
    BY <2>0, <2>2, <2>3
<1> QED
  BY <1>1, <1>2

\* Neither the uptime nor the tier can raise a reward above its base.
LEMMA TieredRewardType ==
  ASSUME NEW base \in Nat, NEW u \in Nat, u <= 10000
  PROVE  TieredReward(base, u) \in Nat /\ TieredReward(base, u) <= base
<1> DEFINE m == PerformanceTier(u).reward_multiplier_bps
           b == ApplyBps(base, u)
<1>2. b \in Nat /\ b <= base
  BY ApplyBpsType
<1>3. m \in Nat /\ m <= 10000
  BY DEF PerformanceTier, Tier
<1>4. TieredReward(base, u) = ApplyBps(b, m)
  BY DEF TieredReward
<1> HIDE DEF b, m
<1>5. ApplyBps(b, m) \in Nat /\ ApplyBps(b, m) <= b
  BY <1>2, <1>3, ApplyBpsType
<1> QED
  BY <1>2, <1>4, <1>5

\* A slash never exceeds the collateral it was computed from.
LEMMA SlashForType ==
  ASSUME NEW s \in Nat, NEW u \in Nat
  PROVE  SlashFor(s, u) \in Nat /\ SlashFor(s, u) <= s
<1> DEFINE m == PerformanceTier(u).slash_bps
<1>1. m \in Nat
  BY DEF PerformanceTier, Tier
<1>2. SlashFor(s, u) = Lesser(ApplyBps(s, m), s)
  BY DEF SlashFor
<1> HIDE DEF m
<1>3. ApplyBps(s, m) \in Nat
  BY <1>1, ApplyBpsType
<1> QED
  BY <1>2, <1>3 DEF Lesser

----------------------------------------------------------------------------
(* Vesting and the epoch clock. *)

\* Few heartbeats either are all that was asked for, and nothing is slashed, or are
\* not enough to be paid anything: of two heartbeats no record is paid and slashed.
LEMMA PaidOrSlashed ==
  ASSUME NEW h \in 0 .. 2, NEW x \in Nat \ {0}, NEW base \in Nat, NEW s \in Nat
  PROVE  \/ TieredReward(base, UptimeBps(h, x)) = 0
         \/ SlashFor(s, UptimeBps(h, x)) = 0
PROOF
  <1> DEFINE u == UptimeBps(h, x)
  <1>0. h \in Nat /\ x \in Nat
    OBVIOUS
  <1>1. u = (Lesser(h, x) * 10000) \div x
    BY DEF UptimeBps, BASIS_POINTS_DIVISOR
  <1>2. u \in Nat
    BY <1>0, UptimeBpsType
  <1>3. u < 7000 \/ u = 10000
    <2>1. CASE h = 0
      BY <1>1, <2>1 DEF Lesser
    <2>2. CASE h # 0 /\ x <= h
      <3>1. x = 1 \/ x = 2
        BY <2>2
      <3>2. u = (x * 10000) \div x
        BY <1>1, <2>2 DEF Lesser
      <3> HIDE DEF u
      <3> QED
        BY <3>1, <3>2
    <2>3. CASE h # 0 /\ x > h
      <3>1. u = (h * 10000) \div x
        BY <1>1, <2>3 DEF Lesser
      <3> HIDE DEF u
      <3>2. CASE h = 1
        <4>1. x >= 2 /\ u = 10000 \div x
          BY <2>3, <3>1, <3>2
        <4>2. u * x <= 10000
          BY <1>2, <4>1
        <4>3. ASSUME u >= 7000 PROVE FALSE
          <5>1. u * x >= 7000 * 2
            BY <1>2, <4>1, <4>3
          <5> QED
            BY <1>2, <4>2, <5>1
        <4> QED
          BY <1>2, <4>3
      <3>3. CASE h = 2
        <4>1. x >= 3 /\ u = 20000 \div x
          BY <2>3, <3>1, <3>3
        <4>2. u * x <= 20000
          BY <1>2, <4>1
        <4>3. ASSUME u >= 7000 PROVE FALSE
          <5>1. u * x >= 7000 * 3
            BY <1>2, <4>1, <4>3
          <5> QED
            BY <1>2, <4>2, <5>1
        <4> QED
          BY <1>2, <4>3
      <3> QED
        BY <2>3, <3>2, <3>3
    <2> QED
      BY <2>1, <2>2, <2>3
  <1> HIDE DEF u
  <1>4. CASE u < 7000
    <2>1. PerformanceTier(u).reward_multiplier_bps = 0
      BY <1>2, <1>4 DEF PerformanceTier, Tier
    <2>2. ApplyBps(base, u) \in Nat
      BY <1>2, ApplyBpsType
    <2>3. TieredReward(base, u) = (ApplyBps(base, u) * 0) \div 10000
      BY <2>1 DEF TieredReward, ApplyBps, BASIS_POINTS_DIVISOR
    <2> QED
      BY <2>2, <2>3 DEF u
  <1>5. CASE u = 10000
    <2>1. PerformanceTier(u).slash_bps = 0
      BY <1>5 DEF PerformanceTier, Tier
    <2>2. SlashFor(s, u) = Lesser((s * 0) \div 10000, s)
      BY <2>1 DEF SlashFor, ApplyBps, BASIS_POINTS_DIVISOR
    <2> QED
      BY <2>2 DEF Lesser, u
  <1> QED
    BY <1>3, <1>4, <1>5

\* Whatever share of the total has vested is an integer.
LEMMA VestedAmountType ==
  ASSUME NEW total \in Nat, NEW start \in Int, NEW cliff \in Int, NEW duration \in Int,
         NEW at \in Int
  PROVE  VestedAmount(total, start, cliff, duration, at) \in Nat
<1>1. CASE duration > 0 /\ at < start + duration
  <2> DEFINE x == Greater(at - start, 0)
  <2>1. x \in Nat /\ x <= duration /\ duration \in Nat \ {0}
    BY <1>1 DEF Greater
  <2>2. VestedAmount(total, start, cliff, duration, at) =
          IF at < start + cliff THEN 0 ELSE (total * x) \div duration
    BY <1>1 DEF VestedAmount
  <2> HIDE DEF x
  <2>3. (total * x) \div duration \in Nat
    BY <2>1, ProportionBounds
  <2> QED
    BY <2>2, <2>3
<1>2. CASE ~(duration > 0 /\ at < start + duration)
  BY <1>2 DEF VestedAmount
<1> QED
  BY <1>1, <1>2

\* Time never takes back what has vested, and no more than the total vests.
LEMMA VestedAmountMonotone ==
  ASSUME NEW total \in Nat, NEW start \in Nat, NEW cliff \in Int, NEW duration \in Int,
         NEW t \in Nat, NEW u \in Nat, t <= u
  PROVE  /\ VestedAmount(total, start, cliff, duration, t)
              <= VestedAmount(total, start, cliff, duration, u)
         /\ VestedAmount(total, start, cliff, duration, u) <= total
<1> DEFINE V(z) == VestedAmount(total, start, cliff, duration, z)
           x == Greater(t - start, 0)
           y == Greater(u - start, 0)
<1>1. V(t) \in Nat /\ V(u) \in Nat
  <2>1. start \in Int /\ t \in Int /\ u \in Int
    OBVIOUS
  <2> QED
    BY <2>1, VestedAmountType
<1>2. CASE t < start + cliff
  <2>1. V(t) = 0
    BY <1>2 DEF VestedAmount
  <2>2. V(u) <= total
    <3>1. CASE duration > 0 /\ u < start + duration
      <4>1. y \in Nat /\ y <= duration /\ duration \in Nat \ {0}
        BY <3>1 DEF Greater
      <4>2. V(u) = IF u < start + cliff THEN 0 ELSE (total * y) \div duration
        BY <3>1 DEF VestedAmount
      <4> HIDE DEF V, y
      <4>3. (total * y) \div duration <= total
        BY <4>1, ProportionBounds
      <4> QED
        BY <4>2, <4>3
    <3>2. CASE ~(duration > 0 /\ u < start + duration)
      BY <3>2 DEF VestedAmount
    <3> QED
      BY <3>1, <3>2
  <2> HIDE DEF V
  <2>3. V(t) <= V(u)
    BY <1>1, <2>1
  <2> QED
    BY <2>2, <2>3 DEF V
<1>3. CASE t >= start + cliff /\ duration > 0 /\ u < start + duration
  <2>1. /\ x \in Nat /\ y \in Nat /\ x <= y /\ y <= duration
        /\ duration \in Nat \ {0}
    BY <1>3 DEF Greater
  <2>2. V(t) = (total * x) \div duration /\ V(u) = (total * y) \div duration
    BY <1>3 DEF VestedAmount
  <2> HIDE DEF V, x, y
  <2>3. V(t) <= V(u)
    BY <2>1, <2>2, ProportionMonotone
  <2>4. V(u) <= total
    BY <2>1, <2>2, ProportionBounds
  <2> QED
    BY <2>3, <2>4 DEF V
<1>4. CASE t >= start + cliff /\ ~(duration > 0 /\ u < start + duration)
  <2>1. V(u) = total
    BY <1>4 DEF VestedAmount
  <2>2. V(t) <= total
    <3>1. CASE duration > 0 /\ t < start + duration
      <4>1. x \in Nat /\ x <= duration /\ duration \in Nat \ {0}
        BY <3>1 DEF Greater
      <4>2. V(t) = (total * x) \div duration
        BY <1>4, <3>1 DEF VestedAmount
      <4> HIDE DEF V, x
      <4>3. (total * x) \div duration <= total
        BY <4>1, ProportionBounds
      <4> QED
        BY <4>2, <4>3
    <3>2. CASE ~(duration > 0 /\ t < start + duration)
      BY <1>4, <3>2 DEF VestedAmount
    <3> QED
      BY <3>1, <3>2
  <2> HIDE DEF V
  <2>3. V(t) <= V(u) /\ V(u) <= total
    BY <2>1, <2>2
  <2> QED
    BY <2>3 DEF V
<1> QED
  BY <1>2, <1>3, <1>4

\* The clock is inside the window of the epoch it is in.
LEMMA EpochContainsNow ==
  ASSUME NEW g \in Nat, NEW d \in Nat \ {0}, NEW t \in Nat, g <= t
  PROVE  /\ EpochStart(g, d, EpochNumberAt(g, d, t)) <= t
         /\ t < EpochEnd(g, d, EpochNumberAt(g, d, t))
<1>1. CASE t = g
  BY <1>1 DEF EpochNumberAt, EpochStart, EpochEnd
<1>2. CASE t > g
  <2> DEFINE a == t - g
             n == a \div d
  <2>1. a \in Nat /\ EpochNumberAt(g, d, t) = n
    BY <1>2 DEF EpochNumberAt
  <2>2. n * d <= a /\ a < n * d + d /\ n \in Nat
    <3> HIDE DEF a
    <3> QED
      BY <2>1
  <2>3. t = g + a
    OBVIOUS
  <2> HIDE DEF a, n
  <2> QED
    BY <2>1, <2>2, <2>3 DEF EpochStart, EpochEnd
<1> QED
  BY <1>1, <1>2

----------------------------------------------------------------------------
(* Induction, stated for a set so that the provers can instantiate it. *)

\* Otherwise the complement has a least element, and it is neither zero nor a
\* successor.
LEMMA SetInduction ==
  ASSUME NEW T \in SUBSET Nat, 0 \in T, \A n \in T : n + 1 \in T
  PROVE  T = Nat
<1> SUFFICES ASSUME T # Nat PROVE FALSE
  OBVIOUS
<1> DEFINE M == Nat \ T
           R == OpToRel(<, Nat)
<1>1. M \subseteq Nat /\ M # {}
  OBVIOUS
<1>2. IsWellFoundedOn(R, Nat)
  BY NatLessThanWellFounded
<1>3. \A p, q \in Nat : <<p, q>> \in R <=> p < q
  BY DEF OpToRel
<1> HIDE DEF M, R
<1>4. PICK m \in M : \A y \in M : ~ (<<y, m>> \in R)
  BY <1>1, <1>2, WFMin
<1>5. m \in Nat /\ m # 0 /\ m - 1 \in Nat /\ m - 1 < m
  BY <1>1, <1>4 DEF M
<1>6. m - 1 \in T
  BY <1>3, <1>4, <1>5 DEF M
<1>7. m \in T
  BY <1>5, <1>6
<1> QED
  BY <1>4, <1>7 DEF M

----------------------------------------------------------------------------
(* The emission curve.  Its recursion is over the years, so that it has a   *)
(* solution and what it computes are proved by induction.                   *)

\* g is a solution of the recursion of EpochEmission on the years of D.
Decays(g, initial, bps, D) ==
  g = [year \in D |-> IF year = 0 THEN initial ELSE ApplyBps(g[year - 1], bps)]

\* Two solutions agree on the years both cover.
LEMMA DecayAgrees ==
  ASSUME NEW a, NEW b, NEW p \in Nat, NEW q \in Nat
  PROVE  \A g, h : Decays(g, a, b, 0 .. p) /\ Decays(h, a, b, 0 .. q) =>
           \A n \in Nat : n <= p /\ n <= q => g[n] = h[n]
<1> SUFFICES ASSUME NEW g, Decays(g, a, b, 0 .. p), NEW h, Decays(h, a, b, 0 .. q)
             PROVE  \A n \in Nat : n <= p /\ n <= q => g[n] = h[n]
  OBVIOUS
<1> DEFINE T == {n \in Nat : n <= p /\ n <= q => g[n] = h[n]}
<1>0. /\ \A n \in 0 .. p : g[n] = IF n = 0 THEN a ELSE ApplyBps(g[n - 1], b)
      /\ \A n \in 0 .. q : h[n] = IF n = 0 THEN a ELSE ApplyBps(h[n - 1], b)
  BY DEF Decays
<1>1. 0 \in T
  BY <1>0
<1>2. ASSUME NEW n \in T PROVE n + 1 \in T
  <2>1. ASSUME n + 1 <= p, n + 1 <= q PROVE g[n + 1] = h[n + 1]
    <3>1. /\ n + 1 \in 0 .. p /\ n + 1 \in 0 .. q /\ n + 1 # 0 /\ (n + 1) - 1 = n
          /\ g[n] = h[n]
      BY <2>1
    <3> QED
      BY <1>0, <3>1
  <2> QED
    BY <2>1
<1>3. T = Nat
  <2> HIDE DEF T
  <2>1. T \in SUBSET Nat
    BY DEF T
  <2> QED
    BY <1>1, <1>2, <2>1, SetInduction
<1> QED
  BY <1>3

\* For any number of years there is a solution.
LEMMA DecayPrefix ==
  ASSUME NEW a, NEW b
  PROVE  \A n \in Nat : \E g : Decays(g, a, b, 0 .. n)
<1> DEFINE T == {m \in Nat : \E g : Decays(g, a, b, 0 .. m)}
<1>1. 0 \in T
  <2> DEFINE g == [year \in 0 .. 0 |-> a]
  <2>1. Decays(g, a, b, 0 .. 0)
    BY DEF Decays
  <2> QED
    BY <2>1
<1>2. ASSUME NEW m \in T PROVE m + 1 \in T
  <2>1. m \in Nat /\ \E g : Decays(g, a, b, 0 .. m)
    OBVIOUS
  <2>2. PICK g : Decays(g, a, b, 0 .. m)
    BY <2>1
  <2> DEFINE D == 0 .. m + 1
             h == [year \in D |-> IF year = 0 THEN a ELSE ApplyBps(g[year - 1], b)]
  <2>3. \A year \in D : year # 0 => year - 1 \in 0 .. m /\ year - 1 \in D
    BY <2>1
  <2>4. \A year \in 0 .. m : year \in D
    BY <2>1
  <2>5. \A year \in 0 .. m : g[year] = IF year = 0 THEN a ELSE ApplyBps(g[year - 1], b)
    BY <2>2 DEF Decays
  <2> HIDE DEF D
  <2>6. \A year \in D : h[year] = IF year = 0 THEN a ELSE ApplyBps(g[year - 1], b)
    OBVIOUS
  <2>7. h = [year \in D |-> h[year]]
    OBVIOUS
  <2> HIDE DEF h
  <2>8. \A year \in 0 .. m : h[year] = g[year]
    BY <2>4, <2>5, <2>6
  <2>9. ASSUME NEW year \in D
        PROVE  h[year] = IF year = 0 THEN a ELSE ApplyBps(h[year - 1], b)
    <3>1. year # 0 => h[year - 1] = g[year - 1]
      BY <2>3, <2>8
    <3> QED
      BY <2>6, <3>1
  <2>10. Decays(h, a, b, D)
    BY <2>7, <2>9 DEF Decays
  <2>11. m + 1 \in Nat /\ \E e : Decays(e, a, b, 0 .. m + 1)
    BY <2>1, <2>10 DEF D
  <2> QED
    BY <2>11
<1>3. T = Nat
  <2> HIDE DEF T
  <2>1. T \in SUBSET Nat
    BY DEF T
  <2> QED
    BY <1>1, <1>2, <2>1, SetInduction
<1> QED
  BY <1>3

\* The prefixes join to a solution on all years.
LEMMA DecaySolves ==
  ASSUME NEW a, NEW b
  PROVE  \E g : Decays(g, a, b, Nat)
<1> DEFINE c == [n \in Nat |-> CHOOSE g : Decays(g, a, b, 0 .. n)]
           s == [n \in Nat |-> c[n][n]]
<1>1. ASSUME NEW n \in Nat PROVE Decays(c[n], a, b, 0 .. n)
  <2>1. \E g : Decays(g, a, b, 0 .. n)
    BY DecayPrefix
  <2> QED
    BY <2>1
<1> HIDE DEF c
<1>2. \A n \in Nat : s[n] = c[n][n]
  OBVIOUS
<1>3. s = [n \in Nat |-> s[n]]
  OBVIOUS
<1> HIDE DEF s
<1>4. ASSUME NEW n \in Nat PROVE s[n] = IF n = 0 THEN a ELSE ApplyBps(s[n - 1], b)
  <2>1. c[n][n] = IF n = 0 THEN a ELSE ApplyBps(c[n][n - 1], b)
    <3>1. Decays(c[n], a, b, 0 .. n) /\ n \in 0 .. n
      BY <1>1
    <3> QED
      BY <3>1 DEF Decays
  <2>2. CASE n = 0
    BY <1>2, <2>1, <2>2
  <2>3. CASE n # 0
    <3>1. PICK m \in Nat : m = n - 1
      BY <2>3
    <3>2. Decays(c[n], a, b, 0 .. n) /\ Decays(c[m], a, b, 0 .. m)
      BY <1>1
    <3>3. \A k \in Nat : k <= n /\ k <= m => c[n][k] = c[m][k]
      <4>1. \A g, h : Decays(g, a, b, 0 .. n) /\ Decays(h, a, b, 0 .. m) =>
              \A k \in Nat : k <= n /\ k <= m => g[k] = h[k]
        BY DecayAgrees
      <4> QED
        BY <3>2, <4>1, Zenon
    <3> QED
      BY <1>2, <2>1, <2>3, <3>1, <3>3
  <2> QED
    BY <2>2, <2>3
<1>5. Decays(s, a, b, Nat)
  BY <1>3, <1>4 DEF Decays
<1> QED
  BY <1>5

\* An epoch never emits more than the first one: decay shrinks the budget.
LEMMA EpochEmissionType ==
  ASSUME NEW initial \in Nat, NEW e \in Nat, NEW y \in Nat, NEW bps \in Nat, bps <= 10000
  PROVE  EpochEmission(initial, e, y, bps) \in 0 .. initial
<1> DEFINE Sol(g) == Decays(g, initial, bps, Nat)
           d == CHOOSE g : Sol(g)
<1>0. \A x \in Nat : ApplyBps(x, bps) \in Nat /\ ApplyBps(x, bps) <= x
  <2> HIDE DEF d, Sol
  <2> TAKE x \in Nat
  <2> QED
    BY ApplyBpsType
<1>1. \E g : Decays(g, initial, bps, Nat)
  BY DecaySolves
<1>2. Sol(d)
  BY <1>1
<1>3. EpochEmission(initial, e, y, bps) = IF y = 0 THEN initial ELSE d[e \div y]
  BY DEF EpochEmission, Decays
<1> HIDE DEF d
<1>4. \A n \in Nat : d[n] \in 0 .. initial
  <2> DEFINE T == {n \in Nat : d[n] \in 0 .. initial}
  <2>0. \A n \in Nat : d[n] = IF n = 0 THEN initial ELSE ApplyBps(d[n - 1], bps)
    BY <1>2 DEF Decays
  <2>1. 0 \in T
    BY <2>0
  <2>2. ASSUME NEW n \in T PROVE n + 1 \in T
    <3>1. n + 1 \in Nat /\ n + 1 # 0 /\ (n + 1) - 1 = n /\ d[n] \in Nat /\ d[n] <= initial
      OBVIOUS
    <3>2. d[n + 1] = ApplyBps(d[n], bps)
      BY <2>0, <3>1
    <3>3. ApplyBps(d[n], bps) \in Nat /\ ApplyBps(d[n], bps) <= d[n]
      <4>1. d[n] \in Nat
        BY <3>1
      <4> QED
        BY <1>0, <4>1
    <3> QED
      BY <3>1, <3>2, <3>3
  <2>3. T = Nat
    <3> HIDE DEF T
    <3>1. T \in SUBSET Nat
      BY DEF T
    <3> QED
      BY <2>1, <2>2, <3>1, SetInduction
  <2> QED
    BY <2>3
<1>5. y # 0 => e \div y \in Nat
  OBVIOUS
<1> QED
  BY <1>3, <1>4, <1>5

----------------------------------------------------------------------------
(* Sums over finite sets: SumFunctionOnSet does not depend on the order in  *)
(* which its recursion takes the elements.                                  *)

\* The element the recursion takes first.
First(s) == CHOOSE x \in s : TRUE

\* g is a solution of the recursion on the sets of D.
Solves(g, f, D) ==
  g = [s \in D |-> IF s = {} THEN 0 ELSE f[First(s)] + g[s \ {First(s)}]]

Agree(f, e, S) == \A x \in S : f[x] = e[x]

LEMMA FirstOfSet ==
  ASSUME NEW s, IsFiniteSet(s), s # {}
  PROVE  /\ First(s) \in s
         /\ IsFiniteSet(s \ {First(s)})
         /\ Cardinality(s) \in Nat \ {0}
         /\ Cardinality(s \ {First(s)}) = Cardinality(s) - 1
<1>1. First(s) \in s
  BY DEF First
<1>2. Cardinality(s) \in Nat /\ Cardinality(s) # 0
  BY FS_CardinalityType, FS_EmptySet
<1> QED
  BY <1>1, <1>2, FS_RemoveElement

LEMMA RemoveOne ==
  ASSUME NEW s, IsFiniteSet(s), NEW x \in s
  PROVE  /\ IsFiniteSet(s \ {x})
         /\ Cardinality(s) \in Nat \ {0}
         /\ Cardinality(s \ {x}) = Cardinality(s) - 1
<1>1. Cardinality(s) \in Nat /\ Cardinality(s) # 0
  BY FS_CardinalityType, FS_EmptySet
<1> QED
  BY <1>1, FS_RemoveElement

\* The recursion has a solution on the subsets of every finite set.
LEMMA SumExists ==
  ASSUME NEW S, IsFiniteSet(S), NEW f, \A x \in S : f[x] \in Int
  PROVE  \E g \in [SUBSET S -> Int] : Solves(g, f, SUBSET S)
<1> DEFINE Small(n) == {s \in SUBSET S : Cardinality(s) <= n}
           T == {n \in Nat : \E g \in [Small(n) -> Int] : Solves(g, f, Small(n))}
<1>0. \A s \in SUBSET S : IsFiniteSet(s) /\ Cardinality(s) \in Nat
                          /\ Cardinality(s) <= Cardinality(S)
  BY FS_Subset, FS_CardinalityType
<1>1. 0 \in T
  <2> DEFINE g == [s \in Small(0) |-> 0]
  <2>1. \A s \in Small(0) : s = {}
    BY <1>0, FS_EmptySet
  <2>2. g \in [Small(0) -> Int] /\ Solves(g, f, Small(0))
    BY <2>1 DEF Solves
  <2> QED
    BY <2>2
<1>2. ASSUME NEW n \in T PROVE n + 1 \in T
  <2>1. n \in Nat
    OBVIOUS
  <2>2. PICK g \in [Small(n) -> Int] : Solves(g, f, Small(n))
    OBVIOUS
  <2> DEFINE h == [s \in Small(n + 1) |->
                    IF s = {} THEN 0 ELSE f[First(s)] + g[s \ {First(s)}]]
  <2>3. ASSUME NEW s \in Small(n + 1), s # {}
        PROVE  First(s) \in S /\ s \ {First(s)} \in Small(n)
    BY <1>0, <2>1, <2>3, FirstOfSet
  <2>4. h \in [Small(n + 1) -> Int]
    <3>1. ASSUME NEW s \in Small(n + 1), s # {}
          PROVE  f[First(s)] + g[s \ {First(s)}] \in Int
      BY <2>2, <2>3, <3>1
    <3> HIDE DEF Small
    <3> QED
      BY <3>1 DEF Solves
  <2>5. Small(n) \subseteq Small(n + 1)
    BY <1>0, <2>1
  <2>6. \A s \in Small(n) : h[s] = g[s]
    BY <2>2, <2>5 DEF Solves
  <2> HIDE DEF Small
  <2>7. Solves(h, f, Small(n + 1))
    BY <2>3, <2>6 DEF Solves
  <2> HIDE DEF h
  <2> QED
    BY <2>1, <2>4, <2>7
<1>3. T = Nat
  <2> HIDE DEF T
  <2>1. T \in SUBSET Nat
    BY DEF T
  <2> QED
    BY <1>1, <1>2, <2>1, SetInduction
<1>4. Cardinality(S) \in Nat /\ Small(Cardinality(S)) = SUBSET S
  BY <1>0, FS_CardinalityType
<1>5. Cardinality(S) \in T
  BY <1>3, <1>4
<1> HIDE DEF Small
<1>6. PICK g \in [Small(Cardinality(S)) -> Int] : Solves(g, f, Small(Cardinality(S)))
  BY <1>5
<1> QED
  BY <1>4, <1>6, Zenon

\* Solutions agree wherever the summed functions do.
LEMMA SumUnique ==
  ASSUME NEW S, NEW T, IsFiniteSet(T), T \subseteq S, NEW f, NEW e,
         Agree(f, e, T)
  PROVE  \A g, h : Solves(g, f, SUBSET S) /\ Solves(h, e, SUBSET T) => g[T] = h[T]
<1> SUFFICES ASSUME NEW g, Solves(g, f, SUBSET S), NEW h, Solves(h, e, SUBSET T)
             PROVE  g[T] = h[T]
  OBVIOUS
<1> DEFINE A == {n \in Nat : \A s \in SUBSET T : Cardinality(s) = n => g[s] = h[s]}
<1>0. \A s \in SUBSET T : IsFiniteSet(s) /\ Cardinality(s) \in Nat
  BY FS_Subset, FS_CardinalityType
<1>1. /\ \A s \in SUBSET T : g[s] = IF s = {} THEN 0 ELSE f[First(s)] + g[s \ {First(s)}]
      /\ \A s \in SUBSET T : h[s] = IF s = {} THEN 0 ELSE e[First(s)] + h[s \ {First(s)}]
      /\ \A x \in T : f[x] = e[x]
  BY DEF Solves, Agree
<1>2. 0 \in A
  BY <1>0, <1>1, FS_EmptySet
<1>3. ASSUME NEW n \in A PROVE n + 1 \in A
  <2>1. ASSUME NEW s \in SUBSET T, Cardinality(s) = n + 1 PROVE g[s] = h[s]
    <3>1. s # {} /\ n \in Nat
      BY <1>0, <2>1, FS_EmptySet
    <3>2. First(s) \in T /\ s \ {First(s)} \in SUBSET T /\ Cardinality(s \ {First(s)}) = n
      BY <1>0, <2>1, <3>1, FirstOfSet
    <3>3. g[s \ {First(s)}] = h[s \ {First(s)}]
      BY <3>2
    <3> QED
      BY <1>1, <3>1, <3>2, <3>3
  <2> QED
    BY <2>1
<1>4. A = Nat
  <2> HIDE DEF A
  <2>1. A \in SUBSET Nat
    BY DEF A
  <2> QED
    BY <1>2, <1>3, <2>1, SetInduction
<1> QED
  BY <1>0, <1>4

\* What the definition computes is a solution.
LEMMA SumSolves ==
  ASSUME NEW S, IsFiniteSet(S), NEW f, \A x \in S : f[x] \in Int
  PROVE  \E g \in [SUBSET S -> Int] :
           Solves(g, f, SUBSET S) /\ SumFunctionOnSet(f, S) = g[S]
<1> DEFINE Sol(g) == Solves(g, f, SUBSET S)
           c == CHOOSE g : Sol(g)
<1>1. SumFunctionOnSet(f, S) = c[S]
  BY DEF SumFunctionOnSet, FoldFunctionOnSet, MapThenFoldSet, Solves, First
<1>2. PICK g \in [SUBSET S -> Int] : Sol(g)
  BY SumExists
<1>3. Sol(c)
  BY <1>2
<1> HIDE DEF c
<1>4. Agree(f, f, S)
  BY DEF Agree
<1>5. S \subseteq S
  OBVIOUS
<1>6. Solves(c, f, SUBSET S) /\ Solves(g, f, SUBSET S)
  BY <1>2, <1>3
<1>7. c[S] = g[S]
  <2>1. \A p, q : Solves(p, f, SUBSET S) /\ Solves(q, f, SUBSET S) => p[S] = q[S]
    BY <1>4, <1>5, SumUnique
  <2> QED
    BY <1>6, <2>1, Zenon
<1> QED
  BY <1>1, <1>2, <1>7

\* The sum over the empty set.
LEMMA SumEmpty == \A f : SumFunctionOnSet(f, {}) = 0
<1> SUFFICES ASSUME NEW f PROVE SumFunctionOnSet(f, {}) = 0
  OBVIOUS
<1>1. IsFiniteSet({}) /\ \A x \in {} : f[x] \in Int
  BY FS_EmptySet
<1>2. PICK g \in [SUBSET {} -> Int] :
        Solves(g, f, SUBSET {}) /\ SumFunctionOnSet(f, {}) = g[{}]
  BY <1>1, SumSolves
<1> QED
  BY <1>2 DEF Solves

\* Sums are integers, and only depend on the values summed.
LEMMA SumInt ==
  ASSUME NEW S, IsFiniteSet(S), NEW f, \A x \in S : f[x] \in Int
  PROVE  SumFunctionOnSet(f, S) \in Int
<1>1. PICK g \in [SUBSET S -> Int] : Solves(g, f, SUBSET S) /\ SumFunctionOnSet(f, S) = g[S]
  BY SumSolves
<1> QED
  BY <1>1

LEMMA SumSame ==
  ASSUME NEW S, IsFiniteSet(S), NEW f, \A x \in S : f[x] \in Int,
         NEW e, \A x \in S : e[x] = f[x]
  PROVE  SumFunctionOnSet(e, S) = SumFunctionOnSet(f, S)
<1>1. PICK g \in [SUBSET S -> Int] :
        Solves(g, f, SUBSET S) /\ SumFunctionOnSet(f, S) = g[S]
  BY SumSolves
<1>2. PICK h \in [SUBSET S -> Int] :
        Solves(h, e, SUBSET S) /\ SumFunctionOnSet(e, S) = h[S]
  BY SumSolves
<1>3. Agree(f, e, S)
  BY DEF Agree
<1>4. S \subseteq S
  OBVIOUS
<1>5. g[S] = h[S]
  <2>1. \A p, q : Solves(p, f, SUBSET S) /\ Solves(q, e, SUBSET S) => p[S] = q[S]
    BY <1>3, <1>4, SumUnique
  <2> QED
    BY <1>1, <1>2, <2>1, Zenon
<1> QED
  BY <1>1, <1>2, <1>5

\* The recursion takes its first element.
LEMMA SumFirst ==
  ASSUME NEW S, IsFiniteSet(S), S # {}, NEW f, \A x \in S : f[x] \in Int
  PROVE  SumFunctionOnSet(f, S) = f[First(S)] + SumFunctionOnSet(f, S \ {First(S)})
<1> DEFINE T == S \ {First(S)}
<1>1. PICK g \in [SUBSET S -> Int] :
        Solves(g, f, SUBSET S) /\ SumFunctionOnSet(f, S) = g[S]
  BY SumSolves
<1>2. IsFiniteSet(T) /\ T \subseteq S
  BY FirstOfSet
<1>3. g[S] = f[First(S)] + g[T]
  BY <1>1 DEF Solves
<1> HIDE DEF T
<1>4. PICK h \in [SUBSET T -> Int] :
        Solves(h, f, SUBSET T) /\ SumFunctionOnSet(f, T) = h[T]
  BY <1>2, SumSolves
<1>5. Agree(f, f, T)
  BY DEF Agree
<1>6. g[T] = h[T]
  <2>1. \A p, q : Solves(p, f, SUBSET S) /\ Solves(q, f, SUBSET T) => p[T] = q[T]
    BY <1>2, <1>5, SumUnique
  <2> QED
    BY <1>1, <1>4, <2>1, Zenon
<1> QED
  BY <1>1, <1>3, <1>4, <1>6 DEF T

\* Any element may be taken first.
LEMMA SumStep ==
  ASSUME NEW S, IsFiniteSet(S), NEW f, \A x \in S : f[x] \in Int, NEW y \in S
  PROVE  SumFunctionOnSet(f, S) = f[y] + SumFunctionOnSet(f, S \ {y})
<1> DEFINE Sum(s) == SumFunctionOnSet(f, s)
           Ok(s) == \A x \in s : Sum(s) = f[x] + Sum(s \ {x})
           A == {n \in Nat : \A s \in SUBSET S : Cardinality(s) = n => Ok(s)}
<1>0. \A s \in SUBSET S : IsFiniteSet(s) /\ Cardinality(s) \in Nat /\ Sum(s) \in Int
  <2> SUFFICES ASSUME NEW s \in SUBSET S
               PROVE  IsFiniteSet(s) /\ Cardinality(s) \in Nat /\ Sum(s) \in Int
    OBVIOUS
  <2>1. IsFiniteSet(s)
    BY FS_Subset
  <2> QED
    BY <2>1, FS_CardinalityType, SumInt
<1>1. 0 \in A
  BY <1>0, FS_EmptySet
<1>2. ASSUME NEW n \in A PROVE n + 1 \in A
  <2>1. ASSUME NEW s \in SUBSET S, Cardinality(s) = n + 1, NEW x \in s
        PROVE  Sum(s) = f[x] + Sum(s \ {x})
    <3> DEFINE c == First(s)
               u == s \ {x}
               v == s \ {c}
               w == s \ {x, c}
    <3>1. IsFiniteSet(s) /\ s # {} /\ n \in Nat
      BY <1>0
    <3>2. c \in s /\ Cardinality(v) = n /\ Cardinality(u) = n
      BY <2>1, <3>1, FirstOfSet, RemoveOne
    <3>3. Sum(s) = f[c] + Sum(v)
      BY <3>1, SumFirst
    <3>4. CASE x # c
      <4>1. x \in v /\ c \in u /\ v \ {x} = w /\ u \ {c} = w
        BY <3>2, <3>4
      <4>2. Ok(v) /\ Ok(u)
        BY <3>2
      <4> HIDE DEF u, v, w, c, Sum
      <4>3. Sum(v) = f[x] + Sum(w) /\ Sum(u) = f[c] + Sum(w)
        BY <4>1, <4>2
      <4>4. Sum(w) \in Int /\ f[x] \in Int /\ f[c] \in Int
        BY <1>0, <3>2 DEF w
      <4> QED
        BY <3>3, <4>3, <4>4 DEF u
    <3> QED
      BY <3>3, <3>4
  <2> QED
    BY <2>1
<1>3. A = Nat
  <2> HIDE DEF A
  <2>1. A \in SUBSET Nat
    BY DEF A
  <2> QED
    BY <1>1, <1>2, <2>1, SetInduction
<1>4. Ok(S)
  BY <1>0, <1>3
<1> QED
  BY <1>4

\* One summand changes.
LEMMA SumUpdate ==
  ASSUME NEW S, IsFiniteSet(S), NEW f, \A x \in S : f[x] \in Int,
         NEW y \in S, NEW e, e[y] \in Int, \A x \in S \ {y} : e[x] = f[x]
  PROVE  SumFunctionOnSet(e, S) = SumFunctionOnSet(f, S) + (e[y] - f[y])
<1>1. IsFiniteSet(S \ {y})
  BY FS_Subset
<1>2. \A x \in S : e[x] \in Int
  OBVIOUS
<1>3. SumFunctionOnSet(f, S \ {y}) \in Int
  BY <1>1, SumInt
<1>4. SumFunctionOnSet(e, S \ {y}) = SumFunctionOnSet(f, S \ {y})
  BY <1>1, SumSame
<1>5. /\ SumFunctionOnSet(f, S) = f[y] + SumFunctionOnSet(f, S \ {y})
      /\ SumFunctionOnSet(e, S) = e[y] + SumFunctionOnSet(e, S \ {y})
  BY <1>2, SumStep
<1> QED
  BY <1>3, <1>4, <1>5

\* A sum of naturals is a natural and covers each of them.
LEMMA SumNat ==
  ASSUME NEW S, IsFiniteSet(S), NEW f, \A x \in S : f[x] \in Nat
  PROVE  /\ SumFunctionOnSet(f, S) \in Nat
         /\ \A x \in S : f[x] <= SumFunctionOnSet(f, S)
<1> DEFINE Sum(s) == SumFunctionOnSet(f, s)
           A == {n \in Nat : \A s \in SUBSET S : Cardinality(s) = n => Sum(s) \in Nat}
<1>0. \A s \in SUBSET S : IsFiniteSet(s) /\ Cardinality(s) \in Nat
  BY FS_Subset, FS_CardinalityType
<1>1. 0 \in A
  BY <1>0, FS_EmptySet, SumEmpty
<1>2. ASSUME NEW n \in A PROVE n + 1 \in A
  <2>1. ASSUME NEW s \in SUBSET S, Cardinality(s) = n + 1 PROVE Sum(s) \in Nat
    <3>1. IsFiniteSet(s) /\ s # {} /\ n \in Nat
      BY <1>0, <2>1, FS_EmptySet
    <3>2. First(s) \in s /\ Cardinality(s \ {First(s)}) = Cardinality(s) - 1
      BY <3>1, FirstOfSet
    <3>3. Sum(s \ {First(s)}) \in Nat
      BY <2>1, <3>1, <3>2
    <3>4. Sum(s) = f[First(s)] + Sum(s \ {First(s)})
      BY <3>1, SumFirst
    <3> QED
      BY <3>2, <3>3, <3>4
  <2> QED
    BY <2>1
<1>3. A = Nat
  <2> HIDE DEF A
  <2>1. A \in SUBSET Nat
    BY DEF A
  <2> QED
    BY <1>1, <1>2, <2>1, SetInduction
<1>4. \A s \in SUBSET S : Sum(s) \in Nat
  BY <1>0, <1>3
<1>5. ASSUME NEW x \in S PROVE f[x] <= Sum(S)
  <2>1. Sum(S) = f[x] + Sum(S \ {x})
    BY SumStep
  <2>2. Sum(S \ {x}) \in Nat
    BY <1>4
  <2> QED
    BY <2>1, <2>2
<1> QED
  BY <1>4, <1>5

\* Nothing adds up to nothing.
LEMMA SumOfNone ==
  ASSUME NEW S, IsFiniteSet(S), NEW f, \A x \in S : f[x] = 0
  PROVE  SumFunctionOnSet(f, S) = 0
<1> DEFINE Sum(s) == SumFunctionOnSet(f, s)
           A == {n \in Nat : \A s \in SUBSET S : Cardinality(s) = n => Sum(s) = 0}
<1>0. \A s \in SUBSET S : IsFiniteSet(s) /\ Cardinality(s) \in Nat
  BY FS_Subset, FS_CardinalityType
<1>1. 0 \in A
  BY <1>0, FS_EmptySet, SumEmpty
<1>2. ASSUME NEW n \in A PROVE n + 1 \in A
  <2>1. ASSUME NEW s \in SUBSET S, Cardinality(s) = n + 1 PROVE Sum(s) = 0
    <3>1. IsFiniteSet(s) /\ s # {} /\ n \in Nat
      BY <1>0, <2>1, FS_EmptySet
    <3>2. First(s) \in s /\ Cardinality(s \ {First(s)}) = Cardinality(s) - 1
      BY <3>1, FirstOfSet
    <3>3. Sum(s \ {First(s)}) = 0
      BY <2>1, <3>1, <3>2
    <3>4. Sum(s) = f[First(s)] + Sum(s \ {First(s)})
      BY <3>1, SumFirst
    <3> QED
      BY <3>2, <3>3, <3>4
  <2> QED
    BY <2>1
<1>3. A = Nat
  <2> HIDE DEF A
  <2>1. A \in SUBSET Nat
    BY DEF A
  <2> QED
    BY <1>1, <1>2, <2>1, SetInduction
<1> QED
  BY <1>0, <1>3
=============================================================================
