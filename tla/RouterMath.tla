----------------------------- MODULE RouterMath -----------------------------
(***************************************************************************)
(* The pure arithmetic of the RouterPulse program: programs/routerpulse/   *)
(* src/math.rs, uptime.rs and the epoch clock of state/protocol.rs.        *)
(*                                                                         *)
(* Amounts are u64 in the program and every intermediate product of        *)
(* math.rs is a u128, so the operators below are plain integer arithmetic; *)
(* where the program narrows or checks a result, the CALLER tests Fits.    *)
(* Seconds are i64 and heartbeat counts u32 or u64: neither comes near its *)
(* limit within centuries of a clock that counts seconds and of epochs     *)
(* shorter than 2^32 intervals, so their width is not modelled.            *)
(***************************************************************************)
EXTENDS Integers

CONSTANT MaxU64          \* the largest u64: a checked result above it is an error

ASSUME MaxU64Assumption == MaxU64 \in Nat

BASIS_POINTS_DIVISOR == 10000
MIN_HEARTBEATS_PER_EPOCH == 2
MAX_SCORE == 100
SUSPENSION_THRESHOLD == 20
LATE_DROP == 10          \* uptime.rs: points lost by a late heartbeat
PENALTY_DROP == 20       \* apply_penalty.rs: points lost by a manual penalty
REINSTATED_SCORE == 50   \* admin.rs: score after reinstatement

\* A checked u64 operation succeeds exactly when its result is a u64.
Fits(x) == x \in 0 .. MaxU64

Lesser(a, b)  == IF a <= b THEN a ELSE b
Greater(a, b) == IF a >= b THEN a ELSE b
SaturatingSub(a, b) == IF a >= b THEN a - b ELSE 0

----------------------------------------------------------------------------
(* Basis points and performance tiers. *)

ApplyBps(amount, bps) == (amount * bps) \div BASIS_POINTS_DIVISOR

Tier(reward, slash) == [reward_multiplier_bps |-> reward, slash_bps |-> slash]

PerformanceTier(uptime_bps) ==
  IF uptime_bps >= 9900 THEN Tier(10000, 0)
  ELSE IF uptime_bps >= 9500 THEN Tier(9000, 0)
  ELSE IF uptime_bps >= 9000 THEN Tier(7500, 100)
  ELSE IF uptime_bps >= 8000 THEN Tier(5000, 500)
  ELSE IF uptime_bps >= 7000 THEN Tier(2500, 800)
  ELSE Tier(0, 1000)

\* finalize_router_epoch: uptime of a closed epoch, never above 100%.
UptimeBps(heartbeats, expected) ==
  IF expected = 0 THEN 0
  ELSE (Lesser(heartbeats, expected) * BASIS_POINTS_DIVISOR) \div expected

\* finalize_router_epoch: uptime scales the base reward, then the tier does.
TieredReward(base, uptime_bps) ==
  ApplyBps(ApplyBps(base, uptime_bps),
           PerformanceTier(uptime_bps).reward_multiplier_bps)

SlashFor(staked, uptime_bps) ==
  Lesser(ApplyBps(staked, PerformanceTier(uptime_bps).slash_bps), staked)

----------------------------------------------------------------------------
(* Emission curve: geometric decay once per "year" of epochs.  The loop of  *)
(* math.rs stops early at zero; zero stays zero, so the stop is not a case. *)

EpochEmission(initial, epoch_number, epochs_per_year, decay_bps) ==
  LET Decayed[year \in Nat] ==
        IF year = 0 THEN initial ELSE ApplyBps(Decayed[year - 1], decay_bps)
  IN  IF epochs_per_year = 0 THEN initial
      ELSE Decayed[epoch_number \div epochs_per_year]

----------------------------------------------------------------------------
(* Vesting: nothing before the cliff, all at start + duration, linear in    *)
(* between.                                                                 *)

\* Linear part measured from the cliff and not from the start (mutation).
VestedAmountFromCliff(total, start, cliff, duration, at) ==
  IF at < start + cliff THEN 0
  ELSE IF duration <= 0 \/ at >= start + duration THEN total
  ELSE (total * (at - start - cliff)) \div duration

VestedAmount(total, start, cliff, duration, at) ==
  IF at < start + cliff THEN 0
  ELSE IF duration <= 0 \/ at >= start + duration THEN total
  ELSE (total * Greater(at - start, 0)) \div duration

----------------------------------------------------------------------------
(* Live score of a router (uptime.rs). *)

Calculate(current_score, elapsed, interval) ==
  LET was_on_time == elapsed <= interval
  IN  [new_score    |-> IF was_on_time THEN Lesser(current_score + 1, MAX_SCORE)
                                       ELSE SaturatingSub(current_score, LATE_DROP),
       missed_count |-> IF was_on_time THEN 0 ELSE 1]

ShouldSuspend(score) == score <= SUSPENSION_THRESHOLD

----------------------------------------------------------------------------
(* The epoch clock (state/protocol.rs). *)

\* Rounds the epoch number up (mutation).
EpochNumberAtRoundedUp(genesis_time, epoch_duration, ts) ==
  IF ts <= genesis_time \/ epoch_duration <= 0 THEN 0
  ELSE (ts - genesis_time + epoch_duration - 1) \div epoch_duration

EpochNumberAt(genesis_time, epoch_duration, ts) ==
  IF ts <= genesis_time \/ epoch_duration <= 0 THEN 0
  ELSE (ts - genesis_time) \div epoch_duration

EpochStart(genesis_time, epoch_duration, epoch_number) ==
  genesis_time + epoch_number * epoch_duration

EpochEnd(genesis_time, epoch_duration, epoch_number) ==
  EpochStart(genesis_time, epoch_duration, epoch_number) + epoch_duration

\* The rounding the comment of state/epoch.rs announces (mutation).
ExpectedHeartbeatsRoundedUp(epoch_duration, heartbeat_interval) ==
  Greater((epoch_duration + heartbeat_interval - 1) \div heartbeat_interval, 1)

\* heartbeat.rs: the denominator of uptime_bps, fixed when the record opens.
ExpectedHeartbeats(epoch_duration, heartbeat_interval) ==
  Greater(epoch_duration \div heartbeat_interval, 1)
=============================================================================
