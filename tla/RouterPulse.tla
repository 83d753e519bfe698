----------------------------- MODULE RouterPulse -----------------------------
(***************************************************************************)
(* The on-chain program (routerpulse/programs/routerpulse/src): one action *)
(* per instruction, over the accounts the instruction reads and writes.    *)
(*                                                                         *)
(* A Solana transaction is atomic: an instruction that fails a require!,   *)
(* an account constraint or a checked operation leaves no trace, so it is  *)
(* a stuttering step and only successful executions are steps.  The clock  *)
(* only moves between transactions.                                        *)
(*                                                                         *)
(* Abstracted data: the router id, coordinates, registered_at and          *)
(* last_claim_time are written and never read by the program; bumps, rent  *)
(* and account addresses are Anchor's.  A router r is its PDA, whose seeds *)
(* fix the owner (OwnerOf) that must sign for it; the one authority is     *)
(* whoever performs the governance actions.                                *)
(***************************************************************************)
EXTENDS RouterMath, FiniteSets, Functions

CONSTANTS
  Routers,          \* router PDAs
  Wallets,          \* holders of a reward-token account
  OwnerOf,          \* [Routers -> Wallets], fixed by the PDA seeds
  DeviceKeys,       \* keys a device may hold
  NoKey,            \* the zeroed key of an account that does not exist
  Epochs,           \* epoch numbers a run may open (bound)
  Configs,          \* ProtocolConfig values offered to initialize_protocol
  RewardRates,      \* rates offered to update_reward_rate
  StakeAmounts, UnstakeAmounts, GenesisAmounts, BurnAmounts,
  GiftAmounts,      \* plain SPL transfers between token accounts
  TickSteps,        \* seconds between two observed clock values
  StartTime,        \* clock when the program is deployed
  MaxTime,          \* last clock value of a run (bound)
  MaxKeyVersion     \* stands for u16::MAX (bound)

\* Types only: everything else about a configuration is tested on chain.
ConfigType ==
  [reward_rate: Nat, penalty_bps: Nat, heartbeat_interval: Int,
   epoch_duration: Int, min_stake: Nat, stake_lock_duration: Int,
   reward_cliff_duration: Int, reward_vesting_duration: Int,
   initial_emission_per_epoch: {x \in Nat : Fits(x)}, epochs_per_year: Nat,
   emission_decay_bps: Nat, genesis_allocation: Nat]

ASSUME RouterPulseAssumption ==
  /\ IsFiniteSet(Routers) /\ IsFiniteSet(Epochs) /\ IsFiniteSet(Wallets)
  /\ OwnerOf \in [Routers -> Wallets]
  /\ NoKey \notin DeviceKeys
  /\ Epochs \subseteq Nat
  /\ Configs \subseteq ConfigType
  /\ RewardRates \subseteq Nat
  /\ StakeAmounts \subseteq Nat /\ UnstakeAmounts \subseteq Nat
  /\ GenesisAmounts \subseteq Nat /\ BurnAmounts \subseteq Nat
  /\ GiftAmounts \subseteq Nat
  /\ TickSteps \subseteq Nat \ {0}
  /\ StartTime \in Nat \ {0}
  /\ MaxTime \in Nat
  /\ MaxKeyVersion \in Nat

VARIABLES
  now,        \* Clock::get().unix_timestamp
  config,     \* Protocol: the fields only initialize_protocol writes
  protocol,   \* Protocol: the fields later instructions write
  router,     \* [Routers -> Router account]
  stake,      \* [Routers -> Stake account]
  repoch,     \* [Routers -> [Epochs -> RouterEpoch account]]
  emission,   \* [Epochs -> EmissionSchedule account]
  vesting,    \* [Routers -> [Epochs -> RewardVesting account]]
  vault,      \* balance of the stake vault
  treasury,   \* balance of the treasury
  wallet      \* [Wallets -> balance]

accounts == <<router, stake, repoch, emission, vesting>>
tokens   == <<vault, treasury, wallet>>
vars     == <<now, config, protocol, accounts, tokens>>

----------------------------------------------------------------------------
(* Accounts that do not exist yet: zeroed bytes, as Anchor allocates them.  *)

NoConfig == [reward_rate |-> 0, penalty_bps |-> 0, heartbeat_interval |-> 0,
  epoch_duration |-> 0, min_stake |-> 0, stake_lock_duration |-> 0,
  reward_cliff_duration |-> 0, reward_vesting_duration |-> 0,
  initial_emission_per_epoch |-> 0, epochs_per_year |-> 0,
  emission_decay_bps |-> 0, genesis_allocation |-> 0]
NoProtocol == [initialized |-> FALSE, genesis_time |-> 0, reward_rate |-> 0,
  is_paused |-> FALSE, genesis_minted |-> 0, total_routers |-> 0,
  total_rewards_distributed |-> 0, total_staked |-> 0, total_slashed |-> 0,
  total_minted |-> 0, total_burned |-> 0]
\* RouterStatus::Active is the enum's first variant, hence the zero byte.
NoRouter == [exists |-> FALSE, device_pubkey |-> NoKey, device_key_version |-> 0,
  last_heartbeat |-> 0, uptime_score |-> 0, total_rewards |-> 0,
  total_penalties |-> 0, heartbeat_count |-> 0, missed_heartbeats |-> 0,
  staked_amount |-> 0, status |-> "Active"]
NoStake == [amount |-> 0, total_slashed |-> 0, locked_until |-> 0, created_at |-> 0]
NoRouterEpoch == [start_time |-> 0, end_time |-> 0, heartbeats |-> 0,
  expected_heartbeats |-> 0, finalized |-> FALSE, claimed |-> FALSE,
  uptime_bps |-> 0, reward_amount |-> 0, slash_amount |-> 0, slashed |-> FALSE]
NoEmission == [total_emission |-> 0, allocated |-> 0, created_at |-> 0]
NoVesting == [total_amount |-> 0, claimed_amount |-> 0, start_time |-> 0,
  cliff_duration |-> 0, vesting_duration |-> 0]

\* An account exists once its creating instruction has run.
StakeExists(r) == stake[r].created_at # 0
EpochOpened(r, e) == repoch[r][e].expected_heartbeats # 0
Granted(r, e) == vesting[r][e].total_amount # 0

Running == protocol.initialized /\ ~protocol.is_paused

Init ==
  /\ now = StartTime
  /\ config = NoConfig
  /\ protocol = NoProtocol
  /\ router = [r \in Routers |-> NoRouter]
  /\ stake = [r \in Routers |-> NoStake]
  /\ repoch = [r \in Routers |-> [e \in Epochs |-> NoRouterEpoch]]
  /\ emission = [e \in Epochs |-> NoEmission]
  /\ vesting = [r \in Routers |-> [e \in Epochs |-> NoVesting]]
  /\ vault = 0 /\ treasury = 0
  /\ wallet = [w \in Wallets |-> 0]

----------------------------------------------------------------------------
(* Deployment, genesis distribution and the environment.                    *)

ValidConfig(c) ==
  /\ c.reward_rate > 0
  /\ c.penalty_bps <= 10000
  /\ c.heartbeat_interval >= 60
  /\ c.epoch_duration >= c.heartbeat_interval * MIN_HEARTBEATS_PER_EPOCH
  /\ c.emission_decay_bps \in 1 .. 10000
  /\ c.reward_vesting_duration >= c.reward_cliff_duration
  /\ c.reward_cliff_duration >= 0

InitializeProtocol(c) ==
  /\ ~protocol.initialized
  /\ ValidConfig(c)
  /\ config' = c
  /\ protocol' = [NoProtocol EXCEPT !.initialized = TRUE, !.genesis_time = now,
                                    !.reward_rate = c.reward_rate]
  /\ UNCHANGED <<now, accounts, tokens>>

\* The clock is observed from initialization on.
Tick(d) ==
  /\ protocol.initialized
  /\ now + d <= MaxTime
  /\ now' = now + d
  /\ UNCHANGED <<config, protocol, accounts, tokens>>

\* total_burned forgets the burn (mutation).
BurnTreasuryUnrecorded(amount) ==
  /\ protocol.initialized
  /\ amount > 0 /\ treasury >= amount
  /\ treasury' = treasury - amount
  /\ UNCHANGED <<now, config, protocol, accounts, vault, wallet>>

BurnTreasury(amount) ==
  /\ protocol.initialized
  /\ amount > 0 /\ treasury >= amount
  /\ Fits(protocol.total_burned + amount)
  /\ treasury' = treasury - amount
  /\ protocol' = [protocol EXCEPT !.total_burned = @ + amount]
  /\ UNCHANGED <<now, config, accounts, vault, wallet>>

MintGenesis(w, amount) ==
  /\ protocol.initialized
  /\ amount > 0
  /\ amount <= SaturatingSub(config.genesis_allocation, protocol.genesis_minted)
  /\ Fits(protocol.genesis_minted + amount) /\ Fits(protocol.total_minted + amount)
  /\ wallet' = [wallet EXCEPT ![w] = @ + amount]
  /\ protocol' = [protocol EXCEPT !.genesis_minted = @ + amount,
                                  !.total_minted = @ + amount]
  /\ UNCHANGED <<now, config, accounts, vault, treasury>>

\* A holder sends tokens to anyone, the protocol's own accounts included: the
\* token program asks nobody else.
HolderTransfer(w, amount) ==
  /\ wallet[w] >= amount
  /\ \/ \E x \in Wallets \ {w} :
          /\ wallet' = [wallet EXCEPT ![w] = @ - amount, ![x] = @ + amount]
          /\ UNCHANGED <<vault, treasury>>
     \/ /\ wallet' = [wallet EXCEPT ![w] = @ - amount]
        /\ vault' = vault + amount
        /\ UNCHANGED treasury
     \/ /\ wallet' = [wallet EXCEPT ![w] = @ - amount]
        /\ treasury' = treasury + amount
        /\ UNCHANGED vault
  /\ UNCHANGED <<now, config, protocol, accounts>>

----------------------------------------------------------------------------
(* Router identity.                                                         *)

\* The handler never assigns status: the zeroed account reads as Active.
RegisterRouter(r, k) ==
  /\ Running
  /\ ~router[r].exists
  /\ Fits(protocol.total_routers + 1)
  /\ router' = [router EXCEPT ![r] =
       [NoRouter EXCEPT !.exists = TRUE, !.device_pubkey = k,
                        !.last_heartbeat = now, !.uptime_score = MAX_SCORE]]
  /\ protocol' = [protocol EXCEPT !.total_routers = @ + 1]
  /\ UNCHANGED <<now, config, stake, repoch, emission, vesting, tokens>>

RotateDeviceKey(r, k) ==
  /\ router[r].exists
  /\ k # router[r].device_pubkey
  /\ router[r].device_key_version < MaxKeyVersion
  /\ router' = [router EXCEPT ![r].device_pubkey = k,
                              ![r].device_key_version = @ + 1]
  /\ UNCHANGED <<now, config, protocol, stake, repoch, emission, vesting, tokens>>

----------------------------------------------------------------------------
(* Collateral.                                                              *)

\* Top-ups leave an earlier lock in place (mutation).
LockFirstStakeOnly(r) ==
  IF StakeExists(r) THEN stake[r].locked_until
                    ELSE now + config.stake_lock_duration

\* Every top-up pushes the lock forward.
LockUntil(r) == now + config.stake_lock_duration

StakeCollateral(r, amount) ==
  LET w == OwnerOf[r]
      total == stake[r].amount + amount
  IN  /\ Running
      /\ router[r].exists
      /\ amount > 0 /\ wallet[w] >= amount
      /\ Fits(total) /\ Fits(protocol.total_staked + amount)
      /\ wallet' = [wallet EXCEPT ![w] = @ - amount]
      /\ vault' = vault + amount
      /\ stake' = [stake EXCEPT ![r] =
           [stake[r] EXCEPT !.amount = total,
                            !.locked_until = LockUntil(r),
                            !.created_at = IF @ = 0 THEN now ELSE @]]
      /\ router' = [router EXCEPT ![r].staked_amount = total]
      /\ protocol' = [protocol EXCEPT !.total_staked = @ + amount]
      /\ UNCHANGED <<now, config, repoch, emission, vesting, treasury>>

\* Only a router that is not Active may go below the minimum.
KeepsMinimum(r, remaining) ==
  router[r].status = "Active" => remaining >= config.min_stake

\* The mirror on the router is not refreshed (mutation).
UnstakeStaleMirror(r, amount) ==
  LET remaining == stake[r].amount - amount
  IN  /\ Running
      /\ StakeExists(r)
      /\ amount > 0 /\ amount <= stake[r].amount
      /\ now >= stake[r].locked_until
      /\ KeepsMinimum(r, remaining)
      /\ vault >= amount
      /\ vault' = vault - amount
      /\ wallet' = [wallet EXCEPT ![OwnerOf[r]] = @ + amount]
      /\ stake' = [stake EXCEPT ![r].amount = remaining]
      /\ protocol' = [protocol EXCEPT !.total_staked = SaturatingSub(@, amount)]
      /\ UNCHANGED <<now, config, router, repoch, emission, vesting, treasury>>

Unstake(r, amount) ==
  LET remaining == stake[r].amount - amount
  IN  /\ Running
      /\ StakeExists(r)
      /\ amount > 0 /\ amount <= stake[r].amount
      /\ now >= stake[r].locked_until
      /\ KeepsMinimum(r, remaining)
      /\ vault >= amount
      /\ vault' = vault - amount
      /\ wallet' = [wallet EXCEPT ![OwnerOf[r]] = @ + amount]
      /\ stake' = [stake EXCEPT ![r].amount = remaining]
      /\ router' = [router EXCEPT ![r].staked_amount = remaining]
      /\ protocol' = [protocol EXCEPT !.total_staked = SaturatingSub(@, amount)]
      /\ UNCHANGED <<now, config, repoch, emission, vesting, treasury>>

----------------------------------------------------------------------------
(* Heartbeats.                                                              *)

\* The router after scoring the time since its last heartbeat.
Scored(r) ==
  LET res == Calculate(router[r].uptime_score, now - router[r].last_heartbeat,
                       config.heartbeat_interval)
  IN  [router[r] EXCEPT !.uptime_score = res.new_score,
         !.missed_heartbeats = @ + res.missed_count,
         !.status = IF ShouldSuspend(res.new_score) /\ @ = "Active"
                    THEN "Suspended" ELSE @]

FreshRouterEpoch(e) ==
  [NoRouterEpoch EXCEPT
    !.start_time = EpochStart(protocol.genesis_time, config.epoch_duration, e),
    !.end_time = EpochEnd(protocol.genesis_time, config.epoch_duration, e),
    !.expected_heartbeats =
        ExpectedHeartbeats(config.epoch_duration, config.heartbeat_interval)]

\* The epoch record a heartbeat finds, opened by the first one of the epoch.
OpenRouterEpoch(r, e) ==
  IF EpochOpened(r, e) THEN repoch[r][e] ELSE FreshRouterEpoch(e)

\* A finalized record may be written again (mutation).
OpenForWriting(ep) == TRUE

\* heartbeat and finalize_router_epoch both refuse a finalized record.
Unsettled(ep) == ~ep.finalized

\* The caller's epoch number is not compared with the clock's (mutation).
AnyEpoch(e) == TRUE

\* The epoch the caller names must be the one the clock is in.
CurrentEpoch(e) ==
  e = EpochNumberAt(protocol.genesis_time, config.epoch_duration, now)

FirstBeat(r) == router[r].heartbeat_count = 0

MayHeartbeat(k, r, e) ==
  /\ Running
  /\ router[r].exists /\ k = router[r].device_pubkey
  /\ CurrentEpoch(e)
  /\ router[r].status \notin {"Suspended", "Decommissioned"}
  /\ router[r].staked_amount >= config.min_stake
  /\ FirstBeat(r) \/ now > router[r].last_heartbeat
  /\ Unsettled(OpenRouterEpoch(r, e))

\* The device k signs; the epoch number e is the caller's argument.
Heartbeat(k, r, e) ==
  LET live  == IF FirstBeat(r) THEN [router[r] EXCEPT !.status = "Active"] ELSE Scored(r)
      ep    == OpenRouterEpoch(r, e)
  IN  /\ MayHeartbeat(k, r, e)
      /\ router' = [router EXCEPT ![r] =
           [live EXCEPT !.last_heartbeat = now, !.heartbeat_count = @ + 1]]
      /\ repoch' = [repoch EXCEPT ![r][e] = [ep EXCEPT !.heartbeats = @ + 1]]
      /\ UNCHANGED <<now, config, protocol, stake, emission, vesting, tokens>>

----------------------------------------------------------------------------
(* Closing an epoch and paying for it.                                      *)

\* remaining() ignores what earlier routers were allocated (mutation).
RemainingWhole(em) == em.total_emission

Remaining(em) == SaturatingSub(em.total_emission, em.allocated)

\* The budget is reopened by every finalization (mutation).
OpenEmissionAgain(e) ==
  [total_emission |-> EpochEmission(config.initial_emission_per_epoch, e,
                        config.epochs_per_year, config.emission_decay_bps),
   allocated |-> 0, created_at |-> now]

\* The epoch's budget, opened by the first router finalized in it.
OpenEmission(e) ==
  IF emission[e].created_at # 0 THEN emission[e]
  ELSE [total_emission |-> EpochEmission(config.initial_emission_per_epoch, e,
                             config.epochs_per_year, config.emission_decay_bps),
        allocated |-> 0, created_at |-> now]

\* A pause stops the keeper too (mutation).
KeeperStopsInPause == Running

\* Finalization and slashing are permissionless and not stopped by a pause.
KeeperMayRun == protocol.initialized

WindowClosed(ep) == now >= ep.end_time

MeasuredUptime(ep) == UptimeBps(ep.heartbeats, ep.expected_heartbeats)
BaseReward(ep) == (ep.end_time - ep.start_time) * protocol.reward_rate
Reward(ep, em) == Lesser(TieredReward(BaseReward(ep), MeasuredUptime(ep)), Remaining(em))

MayFinalize(r, e) ==
  LET ep == repoch[r][e]
      em == OpenEmission(e)
  IN  /\ KeeperMayRun
      /\ EpochOpened(r, e) /\ StakeExists(r)
      /\ Fits(em.total_emission)
      /\ Unsettled(ep) /\ WindowClosed(ep)
      /\ Fits(BaseReward(ep)) /\ Fits(em.allocated + Reward(ep, em))

FinalizeRouterEpoch(r, e) ==
  LET ep     == repoch[r][e]
      em     == OpenEmission(e)
      uptime == MeasuredUptime(ep)
      reward == Reward(ep, em)
  IN  /\ MayFinalize(r, e)
      /\ emission' = [emission EXCEPT ![e] = [em EXCEPT !.allocated = @ + reward]]
      /\ repoch' = [repoch EXCEPT ![r][e] =
           [ep EXCEPT !.uptime_bps = uptime, !.reward_amount = reward,
                      !.slash_amount = SlashFor(stake[r].amount, uptime),
                      !.finalized = TRUE]]
      /\ UNCHANGED <<now, config, protocol, router, stake, vesting, tokens>>

\* The claimed flag alone stops a second claim; the mutated form forgets it.
ClaimRecordedLoosely(r, e) == repoch[r][e]

ClaimRecorded(r, e) == [repoch[r][e] EXCEPT !.claimed = TRUE]

\* Grants the right to mint; moves no tokens.
ClaimReward(r, e) ==
  LET reward == repoch[r][e].reward_amount
  IN  /\ Running
      /\ router[r].status # "Decommissioned"
      /\ repoch[r][e].finalized /\ ~repoch[r][e].claimed
      /\ reward > 0
      /\ ~Granted(r, e)                       \* Anchor init of the vesting account
      /\ Fits(router[r].total_rewards + reward)
      /\ Fits(protocol.total_rewards_distributed + reward)
      /\ repoch' = [repoch EXCEPT ![r][e] = ClaimRecorded(r, e)]
      /\ vesting' = [vesting EXCEPT ![r][e] =
           [total_amount |-> reward, claimed_amount |-> 0, start_time |-> now,
            cliff_duration |-> config.reward_cliff_duration,
            vesting_duration |-> config.reward_vesting_duration]]
      /\ router' = [router EXCEPT ![r].total_rewards = @ + reward]
      /\ protocol' = [protocol EXCEPT !.total_rewards_distributed = @ + reward]
      /\ UNCHANGED <<now, config, stake, emission, tokens>>

Vested(v, at) == VestedAmount(v.total_amount, v.start_time, v.cliff_duration,
                              v.vesting_duration, at)

\* Pays the whole vested amount every time (mutation).
ReleasableAgain(v) == Vested(v, now)

\* Pays a schedule once only (mutation).
ReleasableOnce(v) == IF v.claimed_amount > 0 THEN 0 ELSE Vested(v, now)

Releasable(v) == SaturatingSub(Vested(v, now), v.claimed_amount)

ClaimVested(r, e) ==
  LET released == Releasable(vesting[r][e])
  IN  /\ Running
      /\ Granted(r, e)
      /\ released > 0
      /\ Fits(vesting[r][e].claimed_amount + released)
      /\ Fits(protocol.total_minted + released)
      /\ wallet' = [wallet EXCEPT ![OwnerOf[r]] = @ + released]
      /\ vesting' = [vesting EXCEPT ![r][e].claimed_amount = @ + released]
      /\ protocol' = [protocol EXCEPT !.total_minted = @ + released]
      /\ UNCHANGED <<now, config, router, stake, repoch, emission, vault, treasury>>

\* Without the second clamp of slash_router.rs:31 (mutation).
SlashDueStale(r, e) == repoch[r][e].slash_amount

\* The slash fixed at finalization, clamped again to what is left.
SlashDue(r, e) == Lesser(repoch[r][e].slash_amount, stake[r].amount)

\* Slashes again whatever was slashed before (mutation).
SlashPendingAgain(r, e) == repoch[r][e].finalized

SlashPending(r, e) == repoch[r][e].finalized /\ ~repoch[r][e].slashed

MaySlash(r, e) ==
  LET amount == SlashDue(r, e)
  IN  /\ KeeperMayRun
      /\ EpochOpened(r, e) /\ StakeExists(r)
      /\ SlashPending(r, e)
      /\ amount > 0 /\ vault >= amount
      /\ Fits(stake[r].total_slashed + amount)
      /\ Fits(router[r].total_penalties + amount)
      /\ Fits(protocol.total_slashed + amount)

SlashRouter(r, e) ==
  LET amount == SlashDue(r, e)
      left   == SaturatingSub(stake[r].amount, amount)
  IN  /\ MaySlash(r, e)
      /\ repoch' = [repoch EXCEPT ![r][e].slashed = TRUE]
      /\ vault' = vault - amount
      /\ treasury' = treasury + amount
      /\ stake' = [stake EXCEPT ![r] =
           [stake[r] EXCEPT !.amount = left, !.total_slashed = @ + amount]]
      /\ router' = [router EXCEPT ![r] =
           [router[r] EXCEPT !.staked_amount = left, !.total_penalties = @ + amount]]
      /\ protocol' = [protocol EXCEPT !.total_staked = SaturatingSub(@, amount),
                                      !.total_slashed = @ + amount]
      /\ UNCHANGED <<now, config, emission, vesting, wallet>>

----------------------------------------------------------------------------
(* Governance.  None of these is stopped by a pause.                        *)

\* The u8 score wraps instead of saturating (mutation).
PenalizedWrapping(r, penalty) ==
  [router[r] EXCEPT !.uptime_score = (@ - PENALTY_DROP) % 256]

\* The score drops and the suspension check is missing (mutation).
PenalizedUnchecked(r, penalty) ==
  [router[r] EXCEPT !.total_rewards = SaturatingSub(@, penalty),
                    !.total_penalties = @ + penalty,
                    !.uptime_score = SaturatingSub(@, PENALTY_DROP)]

Penalized(r, penalty) ==
  LET score == SaturatingSub(router[r].uptime_score, PENALTY_DROP)
  IN  [router[r] EXCEPT !.total_rewards = SaturatingSub(@, penalty),
         !.total_penalties = @ + penalty,
         !.uptime_score = score,
         !.status = IF ShouldSuspend(score) /\ @ = "Active" THEN "Suspended" ELSE @]

\* The product is a checked u64 here, not a u128: large earnings make it fail.
PenaltyProduct(r) == router[r].total_rewards * config.penalty_bps
Penalty(r) == PenaltyProduct(r) \div BASIS_POINTS_DIVISOR

MayPenalize(r) ==
  /\ protocol.initialized
  /\ router[r].exists /\ router[r].status # "Decommissioned"
  /\ Fits(PenaltyProduct(r)) /\ Fits(router[r].total_penalties + Penalty(r))

ApplyPenalty(r) ==
  /\ MayPenalize(r)
  /\ router' = [router EXCEPT ![r] = Penalized(r, Penalty(r))]
  /\ UNCHANGED <<now, config, protocol, stake, repoch, emission, vesting, tokens>>

MayReinstate(r) == router[r].exists /\ router[r].status = "Suspended"

ReinstateRouter(r) ==
  /\ MayReinstate(r)
  /\ router' = [router EXCEPT ![r].status = "Active",
                              ![r].uptime_score = REINSTATED_SCORE]
  /\ UNCHANGED <<now, config, protocol, stake, repoch, emission, vesting, tokens>>

DecommissionRouter(r) ==
  /\ router[r].exists /\ router[r].status # "Decommissioned"
  /\ router' = [router EXCEPT ![r].status = "Decommissioned"]
  /\ UNCHANGED <<now, config, protocol, stake, repoch, emission, vesting, tokens>>

PauseProtocol ==
  /\ Running
  /\ protocol' = [protocol EXCEPT !.is_paused = TRUE]
  /\ UNCHANGED <<now, config, accounts, tokens>>

ResumeProtocol ==
  /\ protocol.initialized /\ protocol.is_paused
  /\ protocol' = [protocol EXCEPT !.is_paused = FALSE]
  /\ UNCHANGED <<now, config, accounts, tokens>>

UpdateRewardRate(rate) ==
  /\ protocol.initialized
  /\ rate > 0
  /\ protocol' = [protocol EXCEPT !.reward_rate = rate]
  /\ UNCHANGED <<now, config, accounts, tokens>>

----------------------------------------------------------------------------
Operator(r) ==
  \/ \E k \in DeviceKeys : RegisterRouter(r, k) \/ RotateDeviceKey(r, k)
  \/ \E k \in DeviceKeys, e \in Epochs : Heartbeat(k, r, e)
  \/ \E amount \in StakeAmounts : StakeCollateral(r, amount)
  \/ \E amount \in UnstakeAmounts : Unstake(r, amount)
  \/ \E e \in Epochs : ClaimReward(r, e) \/ ClaimVested(r, e)

Keeper(r) == \E e \in Epochs : FinalizeRouterEpoch(r, e) \/ SlashRouter(r, e)

Authority ==
  \/ \E c \in Configs : InitializeProtocol(c)
  \/ \E w \in Wallets, amount \in GenesisAmounts : MintGenesis(w, amount)
  \/ \E amount \in BurnAmounts : BurnTreasury(amount)
  \/ PauseProtocol \/ ResumeProtocol
  \/ \E rate \in RewardRates : UpdateRewardRate(rate)
  \/ \E r \in Routers : ApplyPenalty(r) \/ ReinstateRouter(r) \/ DecommissionRouter(r)

Environment ==
  \/ \E d \in TickSteps : Tick(d)
  \/ \E w \in Wallets, amount \in GiftAmounts : HolderTransfer(w, amount)

Next ==
  \/ \E r \in Routers : Operator(r) \/ Keeper(r)
  \/ Authority \/ Environment

Spec == Init /\ [][Next]_vars

----------------------------------------------------------------------------
(* Types. *)

Statuses == {"Active", "Inactive", "Suspended", "Decommissioned"}

ProtocolType ==
  [initialized: BOOLEAN, genesis_time: Nat, reward_rate: Nat, is_paused: BOOLEAN,
   genesis_minted: Nat, total_routers: Nat, total_rewards_distributed: Nat,
   total_staked: Nat, total_slashed: Nat, total_minted: Nat, total_burned: Nat]
RouterType ==
  [exists: BOOLEAN, device_pubkey: DeviceKeys \cup {NoKey}, device_key_version: Nat,
   last_heartbeat: Nat, uptime_score: 0 .. MAX_SCORE, total_rewards: Nat,
   total_penalties: Nat, heartbeat_count: Nat, missed_heartbeats: Nat,
   staked_amount: Nat, status: Statuses]
StakeType == [amount: Nat, total_slashed: Nat, locked_until: Int, created_at: Nat]
RouterEpochType ==
  [start_time: Int, end_time: Int, heartbeats: Nat, expected_heartbeats: Nat,
   finalized: BOOLEAN, claimed: BOOLEAN, uptime_bps: Nat,
   reward_amount: Nat, slash_amount: Nat, slashed: BOOLEAN]
EmissionType == [total_emission: Nat, allocated: Nat, created_at: Nat]
VestingType == [total_amount: Nat, claimed_amount: Nat, start_time: Nat,
                cliff_duration: Int, vesting_duration: Int]

TypeOK ==
  /\ now \in Nat \ {0}
  /\ config \in ConfigType
  /\ protocol.initialized => ValidConfig(config)
  /\ protocol \in ProtocolType
  /\ router \in [Routers -> RouterType]
  /\ stake \in [Routers -> StakeType]
  /\ repoch \in [Routers -> [Epochs -> RouterEpochType]]
  /\ emission \in [Epochs -> EmissionType]
  /\ vesting \in [Routers -> [Epochs -> VestingType]]
  /\ vault \in Nat /\ treasury \in Nat
  /\ wallet \in [Wallets -> Nat]

----------------------------------------------------------------------------
(* Ledger sums, for the conservation properties. *)

SumOver(S, f) == SumFunctionOnSet(f, S)
TotalStaked  == SumOver(Routers, [r \in Routers |-> stake[r].amount])
TotalWallets == SumOver(Wallets, wallet)
Pairs == Routers \X Epochs
TotalReleased ==
  SumOver(Pairs, [p \in Pairs |-> vesting[p[1]][p[2]].claimed_amount])
TotalGranted ==
  SumOver(Pairs, [p \in Pairs |-> vesting[p[1]][p[2]].total_amount])
SlashesOf(r) == SumOver(Epochs, [e \in Epochs |->
                   IF repoch[r][e].slashed THEN repoch[r][e].slash_amount ELSE 0])

----------------------------------------------------------------------------
(* Safety. *)

\* One shared vault holds every operator's collateral: it always covers the sum
\* of the positions, the saturating subtractions on total_staked never saturate
\* (it stays the exact sum), and every slashed token is in the treasury or burned.
VaultBacksStake ==
  /\ vault >= TotalStaked
  /\ protocol.total_staked = TotalStaked
  /\ treasury + protocol.total_burned >= protocol.total_slashed

\* Supply is minted by genesis distribution and vested rewards only, and the
\* counters of the Protocol account explain every right granted and every token in
\* circulation.
SupplyAccounted ==
  /\ protocol.total_rewards_distributed = TotalGranted
  /\ protocol.total_minted = protocol.genesis_minted + TotalReleased
  /\ protocol.genesis_minted <= config.genesis_allocation
  /\ vault + treasury + TotalWallets = protocol.total_minted - protocol.total_burned

\* In whatever order routers finalize, an epoch never allocates more than its
\* budget.
EmissionWithinBudget ==
  \A e \in Epochs : emission[e].allocated <= emission[e].total_emission

\* A vesting right exists exactly for a claimed epoch, for the amount locked in at
\* finalization.
GrantMatchesEpoch ==
  \A r \in Routers, e \in Epochs :
    /\ repoch[r][e].claimed <=> Granted(r, e)
    /\ Granted(r, e) => /\ repoch[r][e].finalized
                        /\ vesting[r][e].total_amount = repoch[r][e].reward_amount

\* Never more is minted for an epoch than its schedule has vested by now.
ReleasedOnSchedule ==
  \A r \in Routers, e \in Epochs :
    vesting[r][e].claimed_amount <= Vested(vesting[r][e], now)

\* Router.staked_amount, which gates heartbeats, equals Stake.amount after every
\* interleaving of stake, unstake and slash (state/router.rs:70-74).
MirrorInSync == \A r \in Routers : router[r].staked_amount = stake[r].amount

\* Whichever path lowers the score (a late heartbeat or a penalty), no router is
\* left Active at or below the suspension threshold.
ActiveAboveThreshold ==
  \A r \in Routers :
    router[r].exists /\ router[r].status = "Active" => ~ShouldSuspend(router[r].uptime_score)

\* No epoch is slashed twice nor for more than was fixed when it was finalized.
SlashedAsFixed ==
  /\ \A r \in Routers : stake[r].total_slashed <= SlashesOf(r)
  /\ protocol.total_slashed =
       SumOver(Routers, [r \in Routers |-> stake[r].total_slashed])

\* An epoch is finalized only after its window; its record keeps the window of
\* its own number.
FinalizedAfterWindow ==
  \A r \in Routers, e \in Epochs :
    /\ repoch[r][e].finalized => now >= repoch[r][e].end_time
    /\ EpochOpened(r, e) =>
         /\ repoch[r][e].start_time =
              EpochStart(protocol.genesis_time, config.epoch_duration, e)
         /\ repoch[r][e].end_time =
              EpochEnd(protocol.genesis_time, config.epoch_duration, e)

\* Accounts come into being in order: an epoch record only after deployment, a
\* settlement only of an opened record and a reward or a slash only by settlement,
\* collateral only for a registered router.
\* No router is ever Inactive: the status the enum reserves for one without a
\* heartbeat is assigned nowhere.
AccountsInOrder ==
  /\ protocol.initialized => protocol.genesis_time <= now
  /\ \A r \in Routers :
       /\ router[r].status # "Inactive"
       /\ ~router[r].exists =>
            /\ router[r].status = "Active"
            /\ ~StakeExists(r) /\ stake[r].amount = 0
       /\ \A e \in Epochs :
            /\ EpochOpened(r, e) => protocol.initialized
            /\ repoch[r][e].finalized => EpochOpened(r, e)
            /\ ~repoch[r][e].finalized => /\ repoch[r][e].reward_amount = 0
                                          /\ repoch[r][e].slash_amount = 0

\* Whoever turns the crank is refused only what the record itself forbids: once the
\* window of an opened record has closed it can be finalized, whatever the operator
\* did with the collateral meanwhile and however much the others were allocated,
\* unless no collateral was ever asked for or one epoch's reward overflows; a pending
\* slash of a position that is left can be executed and a router be penalized, unless
\* the protocol has paid and minted more than its counters hold.
NeverBlocked ==
  LET paid == protocol.total_rewards_distributed
  IN  \A r \in Routers :
        /\ \A e \in Epochs :
             /\ EpochOpened(r, e) /\ Unsettled(repoch[r][e]) /\ WindowClosed(repoch[r][e]) =>
                  \/ MayFinalize(r, e)
                  \/ config.min_stake = 0 /\ ~StakeExists(r)
                  \/ ~Fits(config.epoch_duration * protocol.reward_rate)
             /\ SlashPending(r, e) /\ SlashDue(r, e) > 0 =>
                  MaySlash(r, e) \/ ~Fits(paid + protocol.total_minted)
        /\ router[r].exists /\ router[r].status # "Decommissioned" =>
             \/ MayPenalize(r)
             \/ ~Fits(paid * config.penalty_bps) \/ ~Fits(paid + protocol.total_minted)

\* The inductive invariant of the proofs: each of these needs some of the others.
ProgramInv ==
  /\ TypeOK
  /\ AccountsInOrder
  /\ FinalizedAfterWindow
  /\ MirrorInSync
  /\ ActiveAboveThreshold
  /\ EmissionWithinBudget
  /\ GrantMatchesEpoch
  /\ ReleasedOnSchedule

----------------------------------------------------------------------------
(* What a step may never do. *)

\* Heartbeats are counted only while the clock is inside the record's window and
\* the router's collateral position, not just its mirror, meets the minimum.
HeartbeatCounted(r, e) ==
  repoch'[r][e].heartbeats # repoch[r][e].heartbeats =>
    /\ repoch'[r][e].start_time <= now /\ now < repoch'[r][e].end_time
    /\ stake[r].amount >= config.min_stake

\* Once finalized, the window, the measured uptime, the reward and the slash are
\* frozen, and claimed and slashed are only ever set.
EpochFrozen(r, e) ==
  LET old == repoch[r][e]
      new == repoch'[r][e]
  IN  old.finalized =>
        /\ new.finalized
        /\ new.start_time = old.start_time /\ new.end_time = old.end_time
        /\ new.heartbeats = old.heartbeats
        /\ new.uptime_bps = old.uptime_bps
        /\ new.reward_amount = old.reward_amount
        /\ new.slash_amount = old.slash_amount
        /\ old.claimed => new.claimed
        /\ old.slashed => new.slashed

\* A position shrinks only by a slash newly executed, for at most its amount, or
\* after its lock, and every top-up sets that lock anew from its own time.
CollateralDebit(r) ==
  /\ stake'[r].amount < stake[r].amount =>
       \/ \E e \in Epochs :
            /\ repoch'[r][e].slashed /\ ~repoch[r][e].slashed
            /\ stake[r].amount - stake'[r].amount <= repoch[r][e].slash_amount
       \/ now >= stake[r].locked_until
  /\ stake'[r].amount > stake[r].amount =>
       stake'[r].locked_until = now + config.stake_lock_duration
  /\ stake'[r].amount <= stake[r].amount => stake'[r].locked_until = stake[r].locked_until

\* Decommissioning is final: no reinstatement, no heartbeat, no new right to mint.
Retired(r) ==
  router[r].status = "Decommissioned" =>
    /\ router'[r].status = "Decommissioned"
    /\ router'[r].heartbeat_count = router[r].heartbeat_count
    /\ \A e \in Epochs : Granted(r, e)' => Granted(r, e)

HeartbeatsInWindow == [][\A r \in Routers, e \in Epochs : HeartbeatCounted(r, e)]_vars
FrozenAfterFinalize == [][\A r \in Routers, e \in Epochs : EpochFrozen(r, e)]_vars
CollateralDebits == [][\A r \in Routers : CollateralDebit(r)]_vars
DecommissionedIsFinal == [][\A r \in Routers : Retired(r)]_vars

----------------------------------------------------------------------------
(* The reward side implements its abstract specification. *)

Issuance == INSTANCE RewardIssuance WITH
  opened <- [e \in Epochs |-> emission[e].created_at # 0],
  pool   <- [e \in Epochs |-> emission[e].total_emission - emission[e].allocated],
  locked <- [r \in Routers |-> [e \in Epochs |-> repoch[r][e].finalized]],
  award  <- [r \in Routers |-> [e \in Epochs |-> repoch[r][e].reward_amount]],
  minted <- [r \in Routers |-> [e \in Epochs |-> vesting[r][e].claimed_amount]]

\* Finalizations lock awards out of one pool per epoch, claims mint against them,
\* and no other instruction touches either.
ImplementsIssuance == Issuance!Spec

----------------------------------------------------------------------------
(* Progress.  The clock advances; finalization and slashing are             *)
(* permissionless, so some keeper runs them while they are enabled; the     *)
(* operator claims; a pause does not last for ever.                         *)

KeeperFairness ==
  /\ \A d \in TickSteps : WF_vars(Tick(d))
  /\ \A r \in Routers, e \in Epochs :
       /\ WF_vars(FinalizeRouterEpoch(r, e))
       /\ WF_vars(SlashRouter(r, e))

ClaimFairness ==
  /\ WF_vars(ResumeProtocol)
  /\ \A r \in Routers, e \in Epochs : SF_vars(ClaimVested(r, e))

\* Every epoch a router took part in is eventually closed, paused or not: the
\* collateral that let it heartbeat left a Stake account for finalization to load.
EpochsSettle ==
  \A r \in Routers, e \in Epochs : EpochOpened(r, e) ~> repoch[r][e].finalized

\* A slash that was fixed is eventually executed, unless the operator has emptied
\* the position meanwhile.
SlashesExecute ==
  \A r \in Routers, e \in Epochs :
    repoch[r][e].finalized /\ repoch[r][e].slash_amount > 0
      ~> repoch[r][e].slashed \/ stake[r].amount = 0

\* A granted reward is eventually minted in full, whatever happens to the router
\* after the grant and however often the protocol pauses, when its schedule ends
\* within the clock's bound.
GrantsVestFully ==
  \A r \in Routers, e \in Epochs :
    (/\ Granted(r, e)
     /\ vesting[r][e].start_time + vesting[r][e].vesting_duration <= MaxTime)
      ~> vesting[r][e].claimed_amount = vesting[r][e].total_amount

----------------------------------------------------------------------------
(* What comments of the program say and the program does not do. *)

\* unstake.rs:31-33: below the minimum only after decommissioning.
WithdrawsBelowMinimumOnlyDecommissioned ==
  [][\A r \in Routers, amount \in UnstakeAmounts :
       Unstake(r, amount) /\ stake'[r].amount < config.min_stake
         => router[r].status = "Decommissioned"]_vars
=============================================================================
