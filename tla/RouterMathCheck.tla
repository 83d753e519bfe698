-------------------------- MODULE RouterMathCheck --------------------------
(***************************************************************************)
(* The arithmetic of RouterMath against what it is meant to achieve, over  *)
(* bounded inputs.  A behavior draws one input: every property is a        *)
(* statement about the drawn input.                                        *)
(***************************************************************************)
EXTENDS RouterMath, FiniteSets

CONSTANTS
  Totals,       \* amounts
  Durations,    \* epoch, cliff and vesting lengths, in seconds
  Intervals,    \* heartbeat intervals
  MaxAt         \* last instant considered

ASSUME RouterMathCheckAssumption ==
  /\ Totals \subseteq Nat
  /\ Durations \subseteq Nat \ {0} /\ Intervals \subseteq Nat \ {0}
  /\ MaxAt \in Nat

VARIABLE input

Cases ==
  [kind: {"vesting"}, total: Totals, cliff: Durations \cup {0},
   duration: Durations \cup {0}, at: 0 .. MaxAt]
  \cup [kind: {"clock"}, duration: Durations, interval: Intervals, at: 0 .. MaxAt]

NothingDrawn == input = [kind |-> "none"]
Draw == NothingDrawn /\ \E c \in Cases : input' = c

CheckSpec == NothingDrawn /\ [][Draw]_input

Drawn(kind) == input.kind = kind

----------------------------------------------------------------------------
\* Vesting never releases before the cliff or beyond the total, never takes back
\* what had vested a second earlier, pays all at the end, and is never ahead of
\* the straight line measured from the start (math.rs:78-104).
VestingFollowsTheLine ==
  Drawn("vesting") /\ input.cliff <= input.duration =>
    LET V(t) == VestedAmount(input.total, 0, input.cliff, input.duration, t)
    IN  /\ V(input.at) \in 0 .. input.total
        /\ V(input.at) <= V(input.at + 1)
        /\ input.at < input.cliff => V(input.at) = 0
        /\ input.at >= input.duration => V(input.at) = input.total
        /\ input.cliff <= input.at /\ input.at < input.duration =>
             /\ V(input.at) * input.duration <= input.total * input.at
             /\ (V(input.at) + 1) * input.duration > input.total * input.at

\* Every instant lies in the window of its epoch number, and in no other: what a
\* heartbeat and a finalization compute apart always agrees.
EpochWindowsPartitionTime ==
  Drawn("clock") =>
    LET g == 7
        n == EpochNumberAt(g, input.duration, g + input.at)
    IN  /\ EpochStart(g, input.duration, n) <= g + input.at
        /\ g + input.at < EpochEnd(g, input.duration, n)
        /\ EpochEnd(g, input.duration, n) = EpochStart(g, input.duration, n + 1)

\* A device that beats exactly every interval, whatever its phase against the
\* epoch boundary, delivers the expected count in every epoch: full uptime is
\* reachable.  Dividing with rounding up, as state/epoch.rs:22 has it, breaks this.
PunctualDeviceEarnsFull ==
  Drawn("clock") /\ input.duration >= MIN_HEARTBEATS_PER_EPOCH * input.interval =>
    LET phase == input.at % input.interval
        beats == {k \in 0 .. input.duration :
                    phase + k * input.interval < input.duration}
    IN  UptimeBps(Cardinality(beats),
                  ExpectedHeartbeats(input.duration, input.interval)) = 10000
=============================================================================
