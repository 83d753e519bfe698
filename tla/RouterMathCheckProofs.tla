------------------------ MODULE RouterMathCheckProofs ------------------------
(***************************************************************************)
(* What the arithmetic achieves, for every input: the checks of            *)
(* RouterMathCheck without their bounds.                                   *)
(***************************************************************************)
EXTENDS RouterMathCheck, RouterMathProofs

\* What a behavior draws.
DrawnWell == NothingDrawn \/ input \in Cases

LEMMA DrawsWell == CheckSpec => []DrawnWell
<1>1. NothingDrawn => DrawnWell
  BY DEF DrawnWell
<1>2. DrawnWell /\ [Draw]_input => DrawnWell'
  BY DEF DrawnWell, Draw, NothingDrawn
<1> QED
  BY <1>1, <1>2, PTL DEF CheckSpec

\* A truncated quotient lies within one divisor below what it divides.
LEMMA QuotientBounds ==
  ASSUME NEW y \in Nat, NEW d \in Nat \ {0}
  PROVE  /\ y \div d \in Nat
         /\ (y \div d) * d <= y
         /\ y < ((y \div d) + 1) * d
<1> DEFINE q == y \div d
<1>1. q \in Nat /\ q * d <= y /\ y < q * d + d
  OBVIOUS
<1> HIDE DEF q
<1>2. (q + 1) * d = q * d + d
  BY <1>1
<1> QED
  BY <1>1, <1>2 DEF q

LEMMA ClockCase ==
  ASSUME DrawnWell, Drawn("clock")
  PROVE  /\ input.duration \in Nat \ {0} /\ input.interval \in Nat \ {0}
         /\ input.at \in Nat
<1>1. input \in [kind: {"clock"}, duration: Durations, interval: Intervals, at: 0 .. MaxAt]
  BY DEF DrawnWell, NothingDrawn, Drawn, Cases
<1>2. input.duration \in Durations /\ input.interval \in Intervals /\ input.at \in 0 .. MaxAt
  BY <1>1
<1>3. input.duration \in Nat \ {0}
  BY <1>2, RouterMathCheckAssumption
<1>4. input.interval \in Nat \ {0}
  BY <1>2, RouterMathCheckAssumption
<1>5. input.at \in Nat
  BY <1>2, RouterMathCheckAssumption
<1> QED
  BY <1>3, <1>4, <1>5

LEMMA VestingCase ==
  ASSUME DrawnWell, Drawn("vesting")
  PROVE  /\ input.total \in Nat /\ input.cliff \in Nat /\ input.duration \in Nat
         /\ input.at \in Nat
<1>1. input \in [kind: {"vesting"}, total: Totals, cliff: Durations \cup {0},
                duration: Durations \cup {0}, at: 0 .. MaxAt]
  BY DEF DrawnWell, NothingDrawn, Drawn, Cases
<1>2. /\ input.total \in Totals /\ input.cliff \in Durations \cup {0}
      /\ input.duration \in Durations \cup {0} /\ input.at \in 0 .. MaxAt
  BY <1>1
<1>3. input.total \in Nat
  BY <1>2, RouterMathCheckAssumption
<1>4. Durations \cup {0} \subseteq Nat
  BY RouterMathCheckAssumption
<1>5. input.at \in Nat
  BY <1>2, RouterMathCheckAssumption
<1> QED
  BY <1>2, <1>3, <1>4, <1>5

----------------------------------------------------------------------------
(* Vesting. *)

\* VestingFollowsTheLine: nothing before the cliff, everything at the end, never
\* less than a second earlier, and the floor of the straight line in between.
THEOREM VestingSafe == CheckSpec => []VestingFollowsTheLine
<1>1. DrawnWell => VestingFollowsTheLine
  <2> SUFFICES ASSUME DrawnWell, Drawn("vesting"), input.cliff <= input.duration
               PROVE  LET V(t) == VestedAmount(input.total, 0, input.cliff, input.duration, t)
                      IN  /\ V(input.at) \in 0 .. input.total
                          /\ V(input.at) <= V(input.at + 1)
                          /\ input.at < input.cliff => V(input.at) = 0
                          /\ input.at >= input.duration => V(input.at) = input.total
                          /\ input.cliff <= input.at /\ input.at < input.duration =>
                               /\ V(input.at) * input.duration <= input.total * input.at
                               /\ (V(input.at) + 1) * input.duration > input.total * input.at
    BY DEF VestingFollowsTheLine
  <2> DEFINE total == input.total
             cliff == input.cliff
             duration == input.duration
             at == input.at
             V(t) == VestedAmount(total, 0, cliff, duration, t)
  <2>1. total \in Nat /\ cliff \in Nat /\ duration \in Nat /\ at \in Nat /\ cliff <= duration
    BY VestingCase
  <2> HIDE DEF total, cliff, duration, at
  <2>2. V(at) \in Nat /\ V(at) <= total /\ V(at) <= V(at + 1)
    <3>1. /\ 0 \in Nat /\ at + 1 \in Nat /\ at <= at + 1 /\ at <= at
          /\ 0 \in Int /\ cliff \in Int /\ duration \in Int /\ at \in Int
      BY <2>1
    <3>2. V(at) \in Nat
      BY <2>1, <3>1, VestedAmountType
    <3>3. V(at) <= V(at + 1)
      BY <2>1, <3>1, VestedAmountMonotone
    <3>4. V(at) <= total
      BY <2>1, <3>1, VestedAmountMonotone
    <3> QED
      BY <3>2, <3>3, <3>4
  <2>3. at < cliff => V(at) = 0
    <3>1. 0 + cliff = cliff
      BY <2>1
    <3> QED
      BY <3>1, Zenon DEF VestedAmount
  <2>4. at >= duration => V(at) = total
    <3>1. 0 + duration = duration /\ (at >= duration => ~(at < 0 + cliff))
      BY <2>1
    <3> QED
      BY <3>1, Zenon DEF VestedAmount
  <2>5. ASSUME cliff <= at, at < duration
        PROVE  V(at) * duration <= total * at /\ (V(at) + 1) * duration > total * at
    <3>1. duration \in Nat \ {0}
      BY <2>1, <2>5
    <3>2. V(at) = (total * at) \div duration
      BY <2>1, <2>5, <3>1 DEF VestedAmount, Greater
    <3>3. total * at \in Nat
      BY <2>1
    <3> HIDE DEF V
    <3> QED
      BY <3>1, <3>2, <3>3, QuotientBounds
  <2> QED
    BY <2>1, <2>2, <2>3, <2>4, <2>5 DEF total, cliff, duration, at
<1> QED
  BY <1>1, DrawsWell, PTL

----------------------------------------------------------------------------
(* The epoch clock. *)

\* EpochWindowsPartitionTime: the epoch number of an instant names the one window
\* that contains it.
THEOREM WindowsSafe == CheckSpec => []EpochWindowsPartitionTime
<1>1. DrawnWell => EpochWindowsPartitionTime
  <2> SUFFICES ASSUME DrawnWell, Drawn("clock") PROVE EpochWindowsPartitionTime
    BY DEF EpochWindowsPartitionTime
  <2> DEFINE d == input.duration
             t == 7 + input.at
             n == EpochNumberAt(7, d, t)
  <2>1. d \in Nat \ {0} /\ t \in Nat /\ 7 <= t
    BY ClockCase
  <2>2. n \in Int
    <3> HIDE DEF t, d
    <3>1. \A y \in Int : y \div d \in Int
      BY <2>1
    <3> QED
      BY <2>1, <3>1 DEF EpochNumberAt
  <2>3. EpochStart(7, d, n) <= t /\ t < EpochEnd(7, d, n)
    <3> HIDE DEF t, d
    <3> QED
      BY <2>1, EpochContainsNow
  <2>4. EpochEnd(7, d, n) = EpochStart(7, d, n + 1)
    <3> HIDE DEF n, d
    <3>1. (n + 1) * d = n * d + d
      BY <2>1, <2>2
    <3>2. n * d \in Int
      BY <2>1, <2>2
    <3> QED
      BY <2>1, <3>1, <3>2 DEF EpochStart, EpochEnd
  <2> QED
    BY <2>3, <2>4 DEF EpochWindowsPartitionTime
<1> QED
  BY <1>1, DrawsWell, PTL

\* As many whole intervals as fit into an epoch, a beat of each phase falls into.
LEMMA BeatsSuffice ==
  ASSUME NEW d \in Nat, NEW i \in Nat \ {0}, NEW phase \in 0 .. i - 1
  PROVE  LET beats == {k \in 0 .. d : phase + k * i < d}
         IN  Cardinality(beats) \in Nat /\ d \div i <= Cardinality(beats)
<1> DEFINE beats == {k \in 0 .. d : phase + k * i < d}
           q == d \div i
<1>1. q \in Nat /\ q * i <= d
  BY QuotientBounds
<1> HIDE DEF q
<1>2. ASSUME NEW k \in 0 .. q - 1 PROVE k \in beats
  <2>1. k \in Nat /\ k + 1 <= q
    BY <1>1, <1>2
  <2>2. (k + 1) * i <= q * i
    BY <1>1, <2>1
  <2>3. (k + 1) * i = k * i + i /\ k <= k * i /\ k * i \in Nat
    BY <2>1
  <2>4. phase + k * i < d
    BY <1>1, <2>2, <2>3
  <2> QED
    BY <1>1, <2>1, <2>3, <2>4
<1>3. IsFiniteSet(0 .. d) /\ beats \subseteq 0 .. d
  BY FS_Interval
<1>4. IsFiniteSet(beats)
  BY <1>3, FS_Subset
<1>5. Cardinality(0 .. q - 1) = q
  <2>1. 0 \in Int /\ q - 1 \in Int
    BY <1>1
  <2>2. Cardinality(0 .. q - 1) = IF 0 > q - 1 THEN 0 ELSE (q - 1) - 0 + 1
    BY <2>1, FS_Interval
  <2> QED
    BY <1>1, <2>2
<1>6. 0 .. q - 1 \subseteq beats
  BY <1>2
<1> HIDE DEF beats
<1>7. Cardinality(0 .. q - 1) <= Cardinality(beats)
  BY <1>4, <1>6, FS_Subset
<1> QED
  BY <1>4, <1>5, <1>7, FS_CardinalityType DEF beats, q

\* PunctualDeviceEarnsFull: the expected count is never more than a device that
\* beats every interval delivers, whatever its phase.
THEOREM PunctualSafe == CheckSpec => []PunctualDeviceEarnsFull
<1>1. DrawnWell => PunctualDeviceEarnsFull
  <2> SUFFICES ASSUME DrawnWell, Drawn("clock"),
                      input.duration >= MIN_HEARTBEATS_PER_EPOCH * input.interval
               PROVE  LET phase == input.at % input.interval
                          beats == {k \in 0 .. input.duration :
                                      phase + k * input.interval < input.duration}
                      IN  UptimeBps(Cardinality(beats),
                            ExpectedHeartbeats(input.duration, input.interval)) = 10000
    BY DEF PunctualDeviceEarnsFull
  <2> DEFINE d == input.duration
             i == input.interval
             phase == input.at % i
             beats == {k \in 0 .. d : phase + k * i < d}
             x == ExpectedHeartbeats(d, i)
             h == Cardinality(beats)
  <2>1. d \in Nat /\ i \in Nat \ {0} /\ input.at \in Nat /\ d >= i
    BY ClockCase DEF MIN_HEARTBEATS_PER_EPOCH
  <2> HIDE DEF d, i
  <2>2. phase \in 0 .. i - 1
    BY <2>1
  <2> HIDE DEF phase
  <2>3. h \in Nat /\ d \div i <= h
    BY <2>1, <2>2, BeatsSuffice
  <2>4. d \div i \in Nat /\ d \div i >= 1
    BY <2>1
  <2>5. x = d \div i
    BY <2>4 DEF ExpectedHeartbeats, Greater
  <2> HIDE DEF x, h
  <2>6. x \in Nat \ {0} /\ x <= h
    BY <2>3, <2>4, <2>5
  <2>7. Lesser(h, x) = x
    BY <2>3, <2>6 DEF Lesser
  <2>8. (x * 10000) \div x = 10000
    BY <2>6
  <2>9. UptimeBps(h, x) = 10000
    BY <2>6, <2>7, <2>8 DEF UptimeBps, BASIS_POINTS_DIVISOR
  <2> QED
    BY <2>9 DEF h, x, beats, phase, i, d
<1> QED
  BY <1>1, DrawsWell, PTL
=============================================================================
