------------------------- MODULE RouterPulseProofs -------------------------
(***************************************************************************)
(* Type correctness and safety of the on-chain program, for every choice   *)
(* of the constants.                                                       *)
(*                                                                         *)
(* Types first: one lemma per instruction proves the variables it writes   *)
(* and lists the ones it leaves alone.  Then which instruction may change  *)
(* which account, and what it does to it.  ProgramInv is inductive; what   *)
(* the runs check follows from it.                                         *)
(***************************************************************************)
EXTENDS RouterPulse, RouterMathProofs

----------------------------------------------------------------------------
(* A transaction is any instruction with any amount.  The clients of the    *)
(* program choose their own amounts, so what a step does is proved of       *)
(* transactions; the steps of Next are among them.                          *)

ByOperator(r) ==
  \/ \E k \in DeviceKeys : RegisterRouter(r, k) \/ RotateDeviceKey(r, k)
  \/ \E k \in DeviceKeys, e \in Epochs : Heartbeat(k, r, e)
  \/ \E amount \in Nat : StakeCollateral(r, amount)
  \/ \E amount \in Nat : Unstake(r, amount)
  \/ \E e \in Epochs : ClaimReward(r, e) \/ ClaimVested(r, e)

ByAuthority ==
  \/ \E c \in Configs : InitializeProtocol(c)
  \/ \E w \in Wallets, amount \in Nat : MintGenesis(w, amount)
  \/ \E amount \in Nat : BurnTreasury(amount)
  \/ PauseProtocol \/ ResumeProtocol
  \/ \E rate \in Nat : UpdateRewardRate(rate)
  \/ \E r \in Routers : ApplyPenalty(r) \/ ReinstateRouter(r) \/ DecommissionRouter(r)

Transaction ==
  \/ \E r \in Routers : ByOperator(r) \/ Keeper(r)
  \/ ByAuthority \/ Environment

LEMMA StepSends == [Next]_vars => [Transaction]_vars
<1> SUFFICES ASSUME [Next]_vars PROVE [Transaction]_vars
  OBVIOUS
<1>0. /\ StakeAmounts \subseteq Nat /\ UnstakeAmounts \subseteq Nat
      /\ GenesisAmounts \subseteq Nat /\ BurnAmounts \subseteq Nat /\ RewardRates \subseteq Nat
  BY RouterPulseAssumption
<1>1. ASSUME NEW r \in Routers, Operator(r) PROVE ByOperator(r)
  BY <1>0, <1>1 DEF Operator, ByOperator
<1>2. ASSUME Authority PROVE ByAuthority
  BY <1>0, <1>2 DEF Authority, ByAuthority
<1> QED
  BY <1>1, <1>2 DEF Next, Transaction

----------------------------------------------------------------------------
(* Zeroed accounts. *)

LEMMA ZeroTypes ==
  /\ NoConfig \in ConfigType /\ NoProtocol \in ProtocolType
  /\ NoRouter \in RouterType /\ NoStake \in StakeType
  /\ NoRouterEpoch \in RouterEpochType
  /\ NoEmission \in EmissionType /\ NoVesting \in VestingType
<1>1. NoConfig \in ConfigType
  BY MaxU64Assumption DEF NoConfig, ConfigType, Fits
<1>2. NoProtocol \in ProtocolType
  BY DEF NoProtocol, ProtocolType
<1>3. NoRouter \in RouterType
  BY DEF NoRouter, RouterType, Statuses, MAX_SCORE
<1>4. NoRouterEpoch \in RouterEpochType
  BY DEF NoRouterEpoch, RouterEpochType
<1>5. NoStake \in StakeType /\ NoEmission \in EmissionType /\ NoVesting \in VestingType
  BY DEF NoStake, StakeType, NoEmission, EmissionType, NoVesting, VestingType
<1> QED
  BY <1>1, <1>2, <1>3, <1>4, <1>5

LEMMA ScoreConstants ==
  /\ 0 \in 0 .. MAX_SCORE /\ MAX_SCORE \in 0 .. MAX_SCORE
  /\ REINSTATED_SCORE \in 0 .. MAX_SCORE
  /\ \A s \in 0 .. MAX_SCORE, d \in Nat : SaturatingSub(s, d) \in 0 .. MAX_SCORE
  BY DEF MAX_SCORE, REINSTATED_SCORE, SaturatingSub

\* The type correctness of one variable, by name.
LEMMA TypeParts ==
  ASSUME TypeOK
  PROVE  /\ now \in Nat /\ now # 0 /\ config \in ConfigType
         /\ protocol \in ProtocolType /\ router \in [Routers -> RouterType]
         /\ stake \in [Routers -> StakeType]
         /\ repoch \in [Routers -> [Epochs -> RouterEpochType]]
         /\ emission \in [Epochs -> EmissionType]
         /\ vesting \in [Routers -> [Epochs -> VestingType]]
         /\ vault \in Nat /\ treasury \in Nat /\ wallet \in [Wallets -> Nat]
  BY DEF TypeOK

THEOREM InitType == Init => TypeOK
<1> SUFFICES ASSUME Init PROVE TypeOK
  OBVIOUS
<1>1. ~protocol.initialized
  BY DEF Init, NoProtocol
<1> QED
  BY <1>1, ZeroTypes, RouterPulseAssumption DEF Init, TypeOK

----------------------------------------------------------------------------
(* Deployment, genesis distribution and the environment. *)

LEMMA InitializeProtocolType ==
  ASSUME TypeOK, NEW c \in Configs, InitializeProtocol(c)
  PROVE  TypeOK'
<1>1. config' = c /\ c \in ConfigType /\ ValidConfig(c)
  BY RouterPulseAssumption DEF InitializeProtocol
<1>2. protocol' \in ProtocolType
  <2>1. protocol' = [NoProtocol EXCEPT !.initialized = TRUE, !.genesis_time = now,
                                       !.reward_rate = c.reward_rate]
    BY DEF InitializeProtocol
  <2>2. c.reward_rate \in Nat
    BY <1>1 DEF ConfigType
  <2> QED
    BY <2>1, <2>2, ZeroTypes, TypeParts DEF ProtocolType
<1>3. UNCHANGED <<now, router, stake, repoch, emission, vesting, vault, treasury, wallet>>
  BY DEF InitializeProtocol, accounts, tokens
<1> QED
  BY <1>1, <1>2, <1>3 DEF TypeOK

LEMMA TickType ==
  ASSUME TypeOK, NEW d \in TickSteps, Tick(d)
  PROVE  TypeOK'
<1>1. now' \in Nat \ {0}
  BY TypeParts, RouterPulseAssumption DEF Tick
<1>2. UNCHANGED <<config, protocol, router, stake, repoch, emission, vesting, vault,
                  treasury, wallet>>
  BY DEF Tick, accounts, tokens
<1> QED
  BY <1>1, <1>2 DEF TypeOK

LEMMA BurnTreasuryType ==
  ASSUME TypeOK, NEW amount \in Nat, BurnTreasury(amount)
  PROVE  TypeOK'
<1>1. treasury' \in Nat
  BY TypeParts DEF BurnTreasury
<1>2. protocol' \in ProtocolType /\ protocol'.initialized = protocol.initialized
  <2> DEFINE a == protocol.total_burned + amount
  <2>1. a \in Nat
    BY TypeParts DEF ProtocolType
  <2>2. protocol' = [protocol EXCEPT !.total_burned = a]
    BY DEF BurnTreasury
  <2> HIDE DEF a
  <2> QED
    BY <2>1, <2>2, TypeParts DEF ProtocolType
<1>3. UNCHANGED <<now, config, router, stake, repoch, emission, vesting, vault, wallet>>
  BY DEF BurnTreasury, accounts
<1> QED
  BY <1>1, <1>2, <1>3 DEF TypeOK

LEMMA MintGenesisType ==
  ASSUME TypeOK, NEW w \in Wallets, NEW amount \in Nat, MintGenesis(w, amount)
  PROVE  TypeOK'
<1>1. wallet' \in [Wallets -> Nat]
  BY TypeParts DEF MintGenesis
<1>2. protocol' \in ProtocolType /\ protocol'.initialized = protocol.initialized
  <2> DEFINE a == protocol.genesis_minted + amount
             b == protocol.total_minted + amount
  <2>1. a \in Nat /\ b \in Nat
    BY TypeParts DEF ProtocolType
  <2>2. protocol' = [protocol EXCEPT !.genesis_minted = a, !.total_minted = b]
    BY DEF MintGenesis
  <2> HIDE DEF a, b
  <2> QED
    BY <2>1, <2>2, TypeParts DEF ProtocolType
<1>3. UNCHANGED <<now, config, router, stake, repoch, emission, vesting, vault, treasury>>
  BY DEF MintGenesis, accounts
<1> QED
  BY <1>1, <1>2, <1>3 DEF TypeOK

LEMMA HolderTransferType ==
  ASSUME TypeOK, NEW w \in Wallets, NEW amount \in GiftAmounts, HolderTransfer(w, amount)
  PROVE  TypeOK'
<1>0. amount \in Nat /\ wallet[w] >= amount
  BY RouterPulseAssumption DEF HolderTransfer
<1>1. wallet' \in [Wallets -> Nat] /\ vault' \in Nat /\ treasury' \in Nat
  <2>1. CASE \E x \in Wallets \ {w} :
          /\ wallet' = [wallet EXCEPT ![w] = @ - amount, ![x] = @ + amount]
          /\ UNCHANGED <<vault, treasury>>
    BY <1>0, <2>1, TypeParts
  <2>2. CASE /\ wallet' = [wallet EXCEPT ![w] = @ - amount]
             /\ vault' = vault + amount
             /\ UNCHANGED treasury
    BY <1>0, <2>2, TypeParts
  <2>3. CASE /\ wallet' = [wallet EXCEPT ![w] = @ - amount]
             /\ treasury' = treasury + amount
             /\ UNCHANGED vault
    BY <1>0, <2>3, TypeParts
  <2> QED
    BY <2>1, <2>2, <2>3 DEF HolderTransfer
<1>2. UNCHANGED <<now, config, protocol, router, stake, repoch, emission, vesting>>
  BY DEF HolderTransfer, accounts
<1> QED
  BY <1>1, <1>2 DEF TypeOK

----------------------------------------------------------------------------
(* Router identity and governance. *)

LEMMA RegisterRouterType ==
  ASSUME TypeOK, NEW r \in Routers, NEW k \in DeviceKeys \cup {NoKey},
         RegisterRouter(r, k)
  PROVE  TypeOK'
<1>1. protocol' \in ProtocolType /\ protocol'.initialized = protocol.initialized
  <2> DEFINE a == protocol.total_routers + 1
  <2>1. a \in Nat
    BY TypeParts DEF ProtocolType
  <2>2. protocol' = [protocol EXCEPT !.total_routers = a]
    BY DEF RegisterRouter
  <2> HIDE DEF a
  <2> QED
    BY <2>1, <2>2, TypeParts DEF ProtocolType
<1>2. router' \in [Routers -> RouterType]
  <2>1. [NoRouter EXCEPT !.exists = TRUE, !.device_pubkey = k, !.last_heartbeat = now,
                         !.uptime_score = MAX_SCORE] \in RouterType
    BY ZeroTypes, ScoreConstants, TypeParts DEF RouterType
  <2> QED
    BY <2>1, TypeParts DEF RegisterRouter
<1>3. UNCHANGED <<now, config, stake, repoch, emission, vesting, vault, treasury, wallet>>
  BY DEF RegisterRouter, tokens
<1> QED
  BY <1>1, <1>2, <1>3 DEF TypeOK

LEMMA RotateDeviceKeyType ==
  ASSUME TypeOK, NEW r \in Routers, NEW k \in DeviceKeys \cup {NoKey},
         RotateDeviceKey(r, k)
  PROVE  TypeOK'
<1>1. router' \in [Routers -> RouterType]
  <2> DEFINE v == router[r].device_key_version + 1
  <2>1. router[r] \in RouterType /\ v \in Nat
    BY TypeParts DEF RouterType
  <2>2. router' = [router EXCEPT ![r] =
                     [router[r] EXCEPT !.device_pubkey = k, !.device_key_version = v]]
    BY TypeParts DEF RotateDeviceKey
  <2> HIDE DEF v
  <2>3. [router[r] EXCEPT !.device_pubkey = k, !.device_key_version = v] \in RouterType
    BY <2>1 DEF RouterType
  <2> QED
    BY <2>2, <2>3, TypeParts
<1>2. UNCHANGED <<now, config, protocol, stake, repoch, emission, vesting, vault,
                  treasury, wallet>>
  BY DEF RotateDeviceKey, tokens
<1> QED
  BY <1>1, <1>2 DEF TypeOK

LEMMA ApplyPenaltyType ==
  ASSUME TypeOK, NEW r \in Routers, ApplyPenalty(r)
  PROVE  TypeOK'
<1> DEFINE penalty == (router[r].total_rewards * config.penalty_bps) \div BASIS_POINTS_DIVISOR
           rewards == SaturatingSub(router[r].total_rewards, penalty)
           penalties == router[r].total_penalties + penalty
           score == SaturatingSub(router[r].uptime_score, PENALTY_DROP)
           status == IF ShouldSuspend(score) /\ router[r].status = "Active"
                     THEN "Suspended" ELSE router[r].status
<1>0. router[r] \in RouterType
  BY TypeParts
<1>1. penalty \in Nat
  <2>1. router[r].total_rewards \in Nat /\ config.penalty_bps \in Nat
    BY <1>0, TypeParts DEF RouterType, ConfigType
  <2> QED
    BY <2>1, ApplyBpsType DEF ApplyBps
<1>2. router' = [router EXCEPT ![r] = [router[r] EXCEPT !.total_rewards = rewards,
          !.total_penalties = penalties, !.uptime_score = score, !.status = status]]
  BY DEF ApplyPenalty, PenaltyProduct, Penalty, Penalized
<1> HIDE DEF penalty
<1>3. rewards \in Nat /\ penalties \in Nat
  BY <1>0, <1>1 DEF RouterType, SaturatingSub
<1>4. score \in 0 .. MAX_SCORE
  BY <1>0, ScoreConstants DEF RouterType, PENALTY_DROP
<1>5. status \in Statuses
  BY <1>0 DEF RouterType, Statuses
<1> HIDE DEF rewards, penalties, score, status
<1>6. router' \in [Routers -> RouterType]
  <2>1. [router[r] EXCEPT !.total_rewards = rewards, !.total_penalties = penalties,
                          !.uptime_score = score, !.status = status] \in RouterType
    BY <1>0, <1>3, <1>4, <1>5 DEF RouterType
  <2> QED
    BY <1>2, <2>1, TypeParts
<1>7. UNCHANGED <<now, config, protocol, stake, repoch, emission, vesting, vault,
                  treasury, wallet>>
  BY DEF ApplyPenalty, tokens
<1> QED
  BY <1>6, <1>7 DEF TypeOK

LEMMA ReinstateRouterType ==
  ASSUME TypeOK, NEW r \in Routers, ReinstateRouter(r)
  PROVE  TypeOK'
<1>1. router' \in [Routers -> RouterType]
  <2>1. router[r] \in RouterType /\ "Active" \in Statuses
    BY TypeParts DEF Statuses
  <2>2. [router[r] EXCEPT !.status = "Active", !.uptime_score = REINSTATED_SCORE] \in RouterType
    BY <2>1, ScoreConstants DEF RouterType
  <2>3. router' = [router EXCEPT ![r] =
                     [router[r] EXCEPT !.status = "Active", !.uptime_score = REINSTATED_SCORE]]
    BY TypeParts DEF ReinstateRouter
  <2> QED
    BY <2>2, <2>3, TypeParts
<1>2. UNCHANGED <<now, config, protocol, stake, repoch, emission, vesting, vault,
                  treasury, wallet>>
  BY DEF ReinstateRouter, tokens
<1> QED
  BY <1>1, <1>2 DEF TypeOK

LEMMA DecommissionRouterType ==
  ASSUME TypeOK, NEW r \in Routers, DecommissionRouter(r)
  PROVE  TypeOK'
<1>1. router' \in [Routers -> RouterType]
  <2>1. router[r] \in RouterType /\ "Decommissioned" \in Statuses
    BY TypeParts DEF Statuses
  <2>2. [router[r] EXCEPT !.status = "Decommissioned"] \in RouterType
    BY <2>1 DEF RouterType
  <2>3. router' = [router EXCEPT ![r] = [router[r] EXCEPT !.status = "Decommissioned"]]
    BY DEF DecommissionRouter
  <2> QED
    BY <2>2, <2>3, TypeParts
<1>2. UNCHANGED <<now, config, protocol, stake, repoch, emission, vesting, vault,
                  treasury, wallet>>
  BY DEF DecommissionRouter, tokens
<1> QED
  BY <1>1, <1>2 DEF TypeOK

LEMMA SwitchType ==
  ASSUME TypeOK,
         \/ PauseProtocol \/ ResumeProtocol
         \/ \E rate \in Nat : UpdateRewardRate(rate)
  PROVE  TypeOK'
<1>1. protocol' \in ProtocolType /\ protocol'.initialized = protocol.initialized
  <2>1. CASE PauseProtocol
    <3>1. protocol' = [protocol EXCEPT !.is_paused = TRUE]
      BY <2>1 DEF PauseProtocol
    <3> QED
      BY <3>1, TypeParts DEF ProtocolType
  <2>2. CASE ResumeProtocol
    <3>1. protocol' = [protocol EXCEPT !.is_paused = FALSE]
      BY <2>2 DEF ResumeProtocol
    <3> QED
      BY <3>1, TypeParts DEF ProtocolType
  <2>3. ASSUME NEW rate \in Nat, UpdateRewardRate(rate)
        PROVE  protocol' \in ProtocolType /\ protocol'.initialized = protocol.initialized
    <3>1. protocol' = [protocol EXCEPT !.reward_rate = rate]
      BY <2>3 DEF UpdateRewardRate
    <3> QED
      BY <3>1, TypeParts DEF ProtocolType
  <2> QED
    BY <2>1, <2>2, <2>3
<1>2. UNCHANGED <<now, config, router, stake, repoch, emission, vesting, vault,
                  treasury, wallet>>
  BY DEF PauseProtocol, ResumeProtocol, UpdateRewardRate, accounts, tokens
<1> QED
  BY <1>1, <1>2 DEF TypeOK

----------------------------------------------------------------------------
(* Collateral. *)

LEMMA StakeCollateralType ==
  ASSUME TypeOK, NEW r \in Routers, NEW amount \in Nat, StakeCollateral(r, amount)
  PROVE  TypeOK'
<1> DEFINE w == OwnerOf[r]
           total == stake[r].amount + amount
           lock == now + config.stake_lock_duration
           created == IF stake[r].created_at = 0 THEN now ELSE stake[r].created_at
           staked == protocol.total_staked + amount
<1>0. /\ amount \in Nat /\ w \in Wallets
      /\ stake[r] \in StakeType /\ router[r] \in RouterType
  BY RouterPulseAssumption, TypeParts
<1>1. total \in Nat /\ created \in Nat
  BY <1>0, TypeParts DEF StakeType
<1>2. lock \in Int
  BY TypeParts DEF ConfigType
<1>3. staked \in Nat
  BY <1>0, TypeParts DEF ProtocolType
<1>4. wallet' \in [Wallets -> Nat] /\ vault' \in Nat
  BY <1>0, TypeParts DEF StakeCollateral
<1>5. /\ stake' = [stake EXCEPT ![r] = [stake[r] EXCEPT
                     !.amount = total, !.locked_until = lock, !.created_at = created]]
      /\ router' = [router EXCEPT ![r] = [router[r] EXCEPT !.staked_amount = total]]
      /\ protocol' = [protocol EXCEPT !.total_staked = staked]
  <2>1. stake' = [stake EXCEPT ![r] = [stake[r] EXCEPT
                    !.amount = total, !.locked_until = lock, !.created_at = created]]
    BY DEF StakeCollateral, LockUntil
  <2>2. router' = [router EXCEPT ![r] = [router[r] EXCEPT !.staked_amount = total]]
    BY DEF StakeCollateral
  <2>3. protocol' = [protocol EXCEPT !.total_staked = staked]
    BY DEF StakeCollateral
  <2> QED
    BY <2>1, <2>2, <2>3
<1>6. UNCHANGED <<now, config, repoch, emission, vesting, treasury>>
  BY DEF StakeCollateral
<1> HIDE DEF total, lock, created, staked
<1>7. stake' \in [Routers -> StakeType]
  <2>1. [stake[r] EXCEPT !.amount = total, !.locked_until = lock,
                         !.created_at = created] \in StakeType
    BY <1>0, <1>1, <1>2 DEF StakeType
  <2> QED
    BY <1>5, <2>1, TypeParts
<1>8. router' \in [Routers -> RouterType]
  <2>1. [router[r] EXCEPT !.staked_amount = total] \in RouterType
    BY <1>0, <1>1 DEF RouterType
  <2> QED
    BY <1>5, <2>1, TypeParts
<1>9. protocol' \in ProtocolType /\ protocol'.initialized = protocol.initialized
  BY <1>3, <1>5, TypeParts DEF ProtocolType
<1> QED
  BY <1>4, <1>6, <1>7, <1>8, <1>9 DEF TypeOK

LEMMA UnstakeType ==
  ASSUME TypeOK, NEW r \in Routers, NEW amount \in Nat, Unstake(r, amount)
  PROVE  TypeOK'
<1> DEFINE w == OwnerOf[r]
           remaining == stake[r].amount - amount
           staked == SaturatingSub(protocol.total_staked, amount)
<1>0. /\ amount \in Nat /\ w \in Wallets
      /\ stake[r] \in StakeType /\ router[r] \in RouterType
  BY RouterPulseAssumption, TypeParts
<1>1. remaining \in Nat
  BY <1>0 DEF StakeType, Unstake
<1>2. staked \in Nat
  BY <1>0, TypeParts DEF ProtocolType, SaturatingSub
<1>3. wallet' \in [Wallets -> Nat] /\ vault' \in Nat
  BY <1>0, TypeParts DEF Unstake
<1>4. /\ stake' = [stake EXCEPT ![r] = [stake[r] EXCEPT !.amount = remaining]]
      /\ router' = [router EXCEPT ![r] = [router[r] EXCEPT !.staked_amount = remaining]]
      /\ protocol' = [protocol EXCEPT !.total_staked = staked]
  BY DEF Unstake
<1>5. UNCHANGED <<now, config, repoch, emission, vesting, treasury>>
  BY DEF Unstake
<1> HIDE DEF remaining, staked
<1>6. stake' \in [Routers -> StakeType]
  <2>1. [stake[r] EXCEPT !.amount = remaining] \in StakeType
    BY <1>0, <1>1 DEF StakeType
  <2> QED
    BY <1>4, <2>1, TypeParts
<1>7. router' \in [Routers -> RouterType]
  <2>1. [router[r] EXCEPT !.staked_amount = remaining] \in RouterType
    BY <1>0, <1>1 DEF RouterType
  <2> QED
    BY <1>4, <2>1, TypeParts
<1>8. protocol' \in ProtocolType /\ protocol'.initialized = protocol.initialized
  BY <1>2, <1>4, TypeParts DEF ProtocolType
<1> QED
  BY <1>3, <1>5, <1>6, <1>7, <1>8 DEF TypeOK

----------------------------------------------------------------------------
(* Heartbeats. *)

LEMMA ScoredType ==
  ASSUME TypeOK, NEW r \in Routers
  PROVE  Scored(r) \in RouterType
<1> DEFINE elapsed == now - router[r].last_heartbeat
           score == Calculate(router[r].uptime_score, elapsed,
                              config.heartbeat_interval).new_score
           missed == router[r].missed_heartbeats
                       + Calculate(router[r].uptime_score, elapsed,
                                   config.heartbeat_interval).missed_count
           status == IF ShouldSuspend(score) /\ router[r].status = "Active"
                     THEN "Suspended" ELSE router[r].status
<1>0. router[r] \in RouterType
  BY TypeParts
<1>1. Scored(r) = [router[r] EXCEPT !.uptime_score = score,
                     !.missed_heartbeats = missed, !.status = status]
  BY DEF Scored
<1>2. score \in 0 .. MAX_SCORE
  <2>1. router[r].uptime_score \in 0 .. MAX_SCORE
    BY <1>0 DEF RouterType
  <2> QED
    BY <2>1 DEF Calculate, MAX_SCORE, LATE_DROP, Lesser, SaturatingSub
<1>3. missed \in Nat
  BY <1>0 DEF RouterType, Calculate
<1>4. status \in Statuses
  BY <1>0 DEF RouterType, Statuses
<1> HIDE DEF score, missed, status
<1> QED
  BY <1>0, <1>1, <1>2, <1>3, <1>4 DEF RouterType

\* The record a heartbeat opens holds the window of its own number and a
\* denominator of at least one.
LEMMA FreshRouterEpochType ==
  ASSUME TypeOK, protocol.initialized, NEW e \in Epochs
  PROVE  FreshRouterEpoch(e) \in RouterEpochType
<1> DEFINE start == EpochStart(protocol.genesis_time, config.epoch_duration, e)
           end == EpochEnd(protocol.genesis_time, config.epoch_duration, e)
           expected == ExpectedHeartbeats(config.epoch_duration, config.heartbeat_interval)
<1>0. /\ e \in Nat /\ protocol.genesis_time \in Nat
      /\ config.epoch_duration \in Int
      /\ config.heartbeat_interval \in Int /\ config.heartbeat_interval >= 60
  BY RouterPulseAssumption DEF TypeOK, ProtocolType, ConfigType, ValidConfig
<1>1. start \in Int /\ end \in Int
  BY <1>0 DEF EpochStart, EpochEnd
<1>2. expected \in Nat
  <2>1. \A d \in Int : d \div config.heartbeat_interval \in Int
    BY <1>0
  <2> QED
    BY <1>0, <2>1 DEF ExpectedHeartbeats, Greater
<1>3. FreshRouterEpoch(e) = [NoRouterEpoch EXCEPT !.start_time = start, !.end_time = end,
                               !.expected_heartbeats = expected]
  BY DEF FreshRouterEpoch
<1> HIDE DEF start, end, expected
<1> QED
  BY <1>1, <1>2, <1>3, ZeroTypes DEF RouterEpochType

LEMMA HeartbeatType ==
  ASSUME TypeOK, NEW k, NEW r \in Routers, NEW e \in Epochs, Heartbeat(k, r, e)
  PROVE  TypeOK'
<1> DEFINE live == IF router[r].heartbeat_count = 0
                   THEN [router[r] EXCEPT !.status = "Active"] ELSE Scored(r)
           ep == OpenRouterEpoch(r, e)
           count == live.heartbeat_count + 1
           heartbeats == ep.heartbeats + 1
<1>1. live \in RouterType
  <2>1. router[r] \in RouterType /\ "Active" \in Statuses
    BY TypeParts DEF Statuses
  <2>2. [router[r] EXCEPT !.status = "Active"] \in RouterType
    BY <2>1 DEF RouterType
  <2> QED
    BY <2>2, ScoredType
<1>2. ep \in RouterEpochType
  <2>1. protocol.initialized
    BY DEF Heartbeat, MayHeartbeat, Running
  <2>2. FreshRouterEpoch(e) \in RouterEpochType
    BY <2>1, FreshRouterEpochType
  <2> QED
    BY <2>2, TypeParts DEF OpenRouterEpoch
<1>3. /\ router' = [router EXCEPT ![r] =
                      [live EXCEPT !.last_heartbeat = now, !.heartbeat_count = count]]
      /\ repoch' = [repoch EXCEPT ![r][e] = [ep EXCEPT !.heartbeats = heartbeats]]
      /\ UNCHANGED <<now, config, protocol, stake, emission, vesting, vault, treasury,
                     wallet>>
  BY DEF Heartbeat, MayHeartbeat, FirstBeat, tokens
<1> HIDE DEF live, ep
<1>4. count \in Nat /\ heartbeats \in Nat
  BY <1>1, <1>2 DEF RouterType, RouterEpochType
<1> HIDE DEF count, heartbeats
<1>5. router' \in [Routers -> RouterType]
  <2>1. [live EXCEPT !.last_heartbeat = now, !.heartbeat_count = count] \in RouterType
    BY <1>1, <1>4, TypeParts DEF RouterType
  <2> QED
    BY <1>3, <2>1, TypeParts
<1>6. repoch' \in [Routers -> [Epochs -> RouterEpochType]]
  <2>1. [ep EXCEPT !.heartbeats = heartbeats] \in RouterEpochType
    BY <1>2, <1>4 DEF RouterEpochType
  <2> QED
    BY <1>3, <2>1, TypeParts
<1> QED
  BY <1>3, <1>5, <1>6 DEF TypeOK

----------------------------------------------------------------------------
(* Closing an epoch and paying for it. *)

LEMMA OpenEmissionType ==
  ASSUME TypeOK, NEW e \in Epochs, Fits(OpenEmission(e).total_emission)
  PROVE  OpenEmission(e) \in EmissionType
<1> DEFINE budget == EpochEmission(config.initial_emission_per_epoch, e,
                       config.epochs_per_year, config.emission_decay_bps)
<1>1. CASE emission[e].created_at # 0
  BY <1>1, TypeParts DEF OpenEmission
<1>2. CASE emission[e].created_at = 0
  <2>1. OpenEmission(e) = [total_emission |-> budget, allocated |-> 0, created_at |-> now]
    BY <1>2 DEF OpenEmission
  <2> HIDE DEF budget
  <2>2. budget \in Nat
    BY <2>1, MaxU64Assumption DEF Fits
  <2> QED
    BY <2>1, <2>2, TypeParts DEF EmissionType
<1> QED
  BY <1>1, <1>2

LEMMA FinalizeRouterEpochType ==
  ASSUME TypeOK, NEW r \in Routers, NEW e \in Epochs, FinalizeRouterEpoch(r, e)
  PROVE  TypeOK'
<1> DEFINE ep == repoch[r][e]
           em == OpenEmission(e)
           uptime == UptimeBps(ep.heartbeats, ep.expected_heartbeats)
           base == (ep.end_time - ep.start_time) * protocol.reward_rate
           reward == Lesser(TieredReward(base, uptime), Remaining(em))
           slash == SlashFor(stake[r].amount, uptime)
           allocated == em.allocated + reward
<1>0. ep \in RouterEpochType /\ stake[r] \in StakeType
  BY TypeParts
<1>1. em \in EmissionType /\ em.total_emission \in Nat /\ em.allocated \in Nat
  <2>1. Fits(em.total_emission)
    BY DEF FinalizeRouterEpoch, MayFinalize
  <2>2. em \in EmissionType
    BY <2>1, OpenEmissionType
  <2> HIDE DEF em
  <2> QED
    BY <2>2 DEF EmissionType
<1>2. uptime \in Nat /\ uptime <= 10000
  <2> DEFINE h == ep.heartbeats
             x == ep.expected_heartbeats
  <2>1. h \in Nat /\ x \in Nat
    BY <1>0 DEF RouterEpochType
  <2> HIDE DEF h, x
  <2>2. UptimeBps(h, x) \in Nat /\ UptimeBps(h, x) <= 10000
    BY <2>1, UptimeBpsType
  <2> QED
    BY <2>2 DEF h, x
<1>3. base \in Nat
  <2>1. Fits(base)
    BY DEF FinalizeRouterEpoch, MayFinalize, BaseReward
  <2> QED
    BY <2>1, MaxU64Assumption DEF Fits
<1>4. /\ emission' = [emission EXCEPT ![e] = [em EXCEPT !.allocated = allocated]]
      /\ repoch' = [repoch EXCEPT ![r][e] = [ep EXCEPT !.uptime_bps = uptime,
           !.reward_amount = reward, !.slash_amount = slash, !.finalized = TRUE]]
      /\ UNCHANGED <<now, config, protocol, router, stake, vesting, vault, treasury, wallet>>
  BY DEF FinalizeRouterEpoch, MeasuredUptime, BaseReward, Reward, tokens
<1> HIDE DEF ep, em, uptime, base
<1>5. reward \in Nat /\ slash \in Nat
  <2>1. TieredReward(base, uptime) \in Nat
    BY <1>2, <1>3, TieredRewardType
  <2>2. Remaining(em) \in Nat
    BY <1>1 DEF Remaining, SaturatingSub
  <2>3. stake[r].amount \in Nat
    BY <1>0 DEF StakeType
  <2> DEFINE s == stake[r].amount
  <2>4. SlashFor(s, uptime) \in Nat
    <3>1. uptime \in Nat /\ s \in Nat
      BY <1>2, <2>3
    <3> HIDE DEF s
    <3> QED
      BY <3>1, SlashForType
  <2> QED
    BY <2>1, <2>2, <2>4 DEF Lesser
<1> HIDE DEF reward, slash
<1>6. allocated \in Nat
  BY <1>1, <1>5
<1> HIDE DEF allocated
<1>7. emission' \in [Epochs -> EmissionType]
  <2>1. [em EXCEPT !.allocated = allocated] \in EmissionType
    BY <1>1, <1>6 DEF EmissionType
  <2> QED
    BY <1>4, <2>1, TypeParts
<1>8. repoch' \in [Routers -> [Epochs -> RouterEpochType]]
  <2>1. uptime \in Nat
    BY <1>2
  <2>2. [ep EXCEPT !.uptime_bps = uptime, !.reward_amount = reward,
                   !.slash_amount = slash, !.finalized = TRUE] \in RouterEpochType
    BY <1>0, <1>5, <2>1 DEF RouterEpochType
  <2> QED
    BY <1>4, <2>2, TypeParts
<1> QED
  BY <1>4, <1>7, <1>8 DEF TypeOK

LEMMA ClaimRewardType ==
  ASSUME TypeOK, NEW r \in Routers, NEW e \in Epochs, ClaimReward(r, e)
  PROVE  TypeOK'
<1> DEFINE reward == repoch[r][e].reward_amount
           rewards == router[r].total_rewards + reward
           distributed == protocol.total_rewards_distributed + reward
           grant == [total_amount |-> reward, claimed_amount |-> 0, start_time |-> now,
                     cliff_duration |-> config.reward_cliff_duration,
                     vesting_duration |-> config.reward_vesting_duration]
<1>0. repoch[r][e] \in RouterEpochType /\ router[r] \in RouterType
  BY TypeParts
<1>1. reward \in Nat
  BY <1>0 DEF RouterEpochType
<1>2. grant \in VestingType
  BY <1>1, TypeParts DEF VestingType, ConfigType
<1>3. rewards \in Nat /\ distributed \in Nat
  BY <1>0, <1>1, TypeParts DEF RouterType, ProtocolType
<1>4. /\ repoch' = [repoch EXCEPT ![r][e] = [repoch[r][e] EXCEPT !.claimed = TRUE]]
      /\ vesting' = [vesting EXCEPT ![r][e] = grant]
      /\ router' = [router EXCEPT ![r] = [router[r] EXCEPT !.total_rewards = rewards]]
      /\ protocol' = [protocol EXCEPT !.total_rewards_distributed = distributed]
  BY DEF ClaimReward, ClaimRecorded
<1>5. UNCHANGED <<now, config, stake, emission, vault, treasury, wallet>>
  BY DEF ClaimReward, tokens
<1> HIDE DEF rewards, distributed, grant
<1>6. repoch' \in [Routers -> [Epochs -> RouterEpochType]]
  <2>1. [repoch[r][e] EXCEPT !.claimed = TRUE] \in RouterEpochType
    BY <1>0 DEF RouterEpochType
  <2> QED
    BY <1>4, <2>1, TypeParts
<1>7. vesting' \in [Routers -> [Epochs -> VestingType]]
  BY <1>2, <1>4, TypeParts
<1>8. router' \in [Routers -> RouterType]
  <2>1. [router[r] EXCEPT !.total_rewards = rewards] \in RouterType
    BY <1>0, <1>3 DEF RouterType
  <2> QED
    BY <1>4, <2>1, TypeParts
<1>9. protocol' \in ProtocolType /\ protocol'.initialized = protocol.initialized
  BY <1>3, <1>4, TypeParts DEF ProtocolType
<1> QED
  BY <1>5, <1>6, <1>7, <1>8, <1>9 DEF TypeOK

LEMMA VestedType ==
  ASSUME NEW v \in VestingType, NEW at \in Int
  PROVE  Vested(v, at) \in Nat
<1>1. /\ v.total_amount \in Nat /\ v.start_time \in Int
      /\ v.cliff_duration \in Int /\ v.vesting_duration \in Int
  BY DEF VestingType
<1> QED
  BY <1>1, VestedAmountType DEF Vested

LEMMA ClaimVestedType ==
  ASSUME TypeOK, NEW r \in Routers, NEW e \in Epochs, ClaimVested(r, e)
  PROVE  TypeOK'
<1> DEFINE v == vesting[r][e]
           w == OwnerOf[r]
           released == Releasable(v)
           claimed == v.claimed_amount + released
           minted == protocol.total_minted + released
<1>0. v \in VestingType /\ now \in Int /\ w \in Wallets
  BY TypeParts, RouterPulseAssumption
<1>1. released \in Nat
  <2>1. v.claimed_amount \in Nat
    BY <1>0 DEF VestingType
  <2> HIDE DEF v
  <2>2. Vested(v, now) \in Nat
    BY <1>0, VestedType
  <2> QED
    BY <2>1, <2>2 DEF Releasable, SaturatingSub
<1>2. /\ vesting' = [vesting EXCEPT ![r][e] = [v EXCEPT !.claimed_amount = claimed]]
      /\ protocol' = [protocol EXCEPT !.total_minted = minted]
      /\ wallet' = [wallet EXCEPT ![w] = wallet[w] + released]
  BY DEF ClaimVested
<1>3. UNCHANGED <<now, config, router, stake, repoch, emission, vault, treasury>>
  BY DEF ClaimVested
<1> HIDE DEF v, released
<1>4. claimed \in Nat /\ minted \in Nat
  BY <1>0, <1>1, TypeParts DEF VestingType, ProtocolType
<1>5. wallet' \in [Wallets -> Nat]
  BY <1>0, <1>1, <1>2, TypeParts
<1> HIDE DEF claimed, minted
<1>6. vesting' \in [Routers -> [Epochs -> VestingType]]
  <2>1. [v EXCEPT !.claimed_amount = claimed] \in VestingType
    BY <1>0, <1>4 DEF VestingType
  <2> QED
    BY <1>2, <2>1, TypeParts
<1>7. protocol' \in ProtocolType /\ protocol'.initialized = protocol.initialized
  BY <1>2, <1>4, TypeParts DEF ProtocolType
<1> QED
  BY <1>3, <1>5, <1>6, <1>7 DEF TypeOK

LEMMA SlashRouterType ==
  ASSUME TypeOK, NEW r \in Routers, NEW e \in Epochs, SlashRouter(r, e)
  PROVE  TypeOK'
<1> DEFINE amount == SlashDue(r, e)
           left == SaturatingSub(stake[r].amount, amount)
           slashed == stake[r].total_slashed + amount
           penalties == router[r].total_penalties + amount
           staked == SaturatingSub(protocol.total_staked, amount)
           allSlashed == protocol.total_slashed + amount
<1>0. /\ repoch[r][e] \in RouterEpochType /\ stake[r] \in StakeType
      /\ router[r] \in RouterType
  BY TypeParts
<1>1. amount \in Nat
  BY <1>0 DEF SlashDue, Lesser, RouterEpochType, StakeType
<1>2. /\ repoch' = [repoch EXCEPT ![r][e] = [repoch[r][e] EXCEPT !.slashed = TRUE]]
      /\ stake' = [stake EXCEPT ![r] = [stake[r] EXCEPT !.amount = left,
                                                        !.total_slashed = slashed]]
      /\ router' = [router EXCEPT ![r] = [router[r] EXCEPT !.staked_amount = left,
                                                           !.total_penalties = penalties]]
      /\ protocol' = [protocol EXCEPT !.total_staked = staked,
                                      !.total_slashed = allSlashed]
      /\ UNCHANGED <<now, config, emission, vesting, wallet>>
  BY DEF SlashRouter
<1>3. vault' \in Nat /\ treasury' \in Nat
  <2>1. vault >= amount /\ vault' = vault - amount /\ treasury' = treasury + amount
    BY DEF SlashRouter, MaySlash
  <2> HIDE DEF amount
  <2> QED
    BY <1>1, <2>1, TypeParts
<1> HIDE DEF amount
<1>4. left \in Nat /\ slashed \in Nat
  BY <1>0, <1>1 DEF StakeType, SaturatingSub
<1>5. penalties \in Nat
  BY <1>0, <1>1 DEF RouterType
<1>6. staked \in Nat /\ allSlashed \in Nat
  BY <1>1, TypeParts DEF ProtocolType, SaturatingSub
<1> HIDE DEF left, slashed, penalties, staked, allSlashed
<1>7. repoch' \in [Routers -> [Epochs -> RouterEpochType]]
  <2>1. [repoch[r][e] EXCEPT !.slashed = TRUE] \in RouterEpochType
    BY <1>0 DEF RouterEpochType
  <2> QED
    BY <1>2, <2>1, TypeParts
<1>8. stake' \in [Routers -> StakeType]
  <2>1. [stake[r] EXCEPT !.amount = left, !.total_slashed = slashed] \in StakeType
    BY <1>0, <1>4 DEF StakeType
  <2> QED
    BY <1>2, <2>1, TypeParts
<1>9. router' \in [Routers -> RouterType]
  <2>1. [router[r] EXCEPT !.staked_amount = left,
                          !.total_penalties = penalties] \in RouterType
    BY <1>0, <1>4, <1>5 DEF RouterType
  <2> QED
    BY <1>2, <2>1, TypeParts
<1>10. protocol' \in ProtocolType /\ protocol'.initialized = protocol.initialized
  BY <1>2, <1>6, TypeParts DEF ProtocolType
<1> QED
  BY <1>2, <1>3, <1>7, <1>8, <1>9, <1>10 DEF TypeOK

----------------------------------------------------------------------------
(* The program as a whole. *)

LEMMA StutterType ==
  ASSUME TypeOK, UNCHANGED vars
  PROVE  TypeOK'
  BY DEF TypeOK, vars, accounts, tokens

THEOREM NextType == TypeOK /\ [Transaction]_vars => TypeOK'
<1> SUFFICES ASSUME TypeOK, [Transaction]_vars PROVE TypeOK'
  OBVIOUS
<1>1. ASSUME NEW r \in Routers, ByOperator(r) PROVE TypeOK'
  BY <1>1, RegisterRouterType, RotateDeviceKeyType, HeartbeatType, StakeCollateralType,
     UnstakeType, ClaimRewardType, ClaimVestedType DEF ByOperator
<1>2. ASSUME NEW r \in Routers, Keeper(r) PROVE TypeOK'
  BY <1>2, FinalizeRouterEpochType, SlashRouterType DEF Keeper
<1>3. CASE ByAuthority
  BY <1>3, InitializeProtocolType, MintGenesisType, BurnTreasuryType, SwitchType,
     ApplyPenaltyType, ReinstateRouterType, DecommissionRouterType DEF ByAuthority
<1>4. CASE Environment
  BY <1>4, TickType, HolderTransferType DEF Environment
<1>5. CASE UNCHANGED vars
  BY <1>5, StutterType
<1> QED
  BY <1>1, <1>2, <1>3, <1>4, <1>5 DEF Transaction

\* Every account stays well typed: no counter, balance or score leaves its range,
\* and a configuration that was accepted stays valid.
THEOREM TypeCorrect == Spec => []TypeOK
  BY InitType, NextType, StepSends, PTL DEF Spec

----------------------------------------------------------------------------
(* What one step may change: for each account of the program, the           *)
(* instructions that write it, and what they write.                         *)

\* A router account changes only by an instruction that names it.
LEMMA RouterStep ==
  ASSUME TypeOK, [Transaction]_vars, NEW x \in Routers
  PROVE  \/ router'[x] = router[x]
         \/ \E k \in DeviceKeys : RegisterRouter(x, k) \/ RotateDeviceKey(x, k)
         \/ \E k \in DeviceKeys, e \in Epochs : Heartbeat(k, x, e)
         \/ \E amount \in Nat : StakeCollateral(x, amount)
         \/ \E amount \in Nat : Unstake(x, amount)
         \/ \E e \in Epochs : ClaimReward(x, e) \/ SlashRouter(x, e)
         \/ ApplyPenalty(x) \/ ReinstateRouter(x) \/ DecommissionRouter(x)
<1>0. router \in [Routers -> RouterType]
  BY TypeParts
<1> SUFFICES ASSUME router'[x] # router[x]
             PROVE  \/ \E k \in DeviceKeys : RegisterRouter(x, k) \/ RotateDeviceKey(x, k)
                    \/ \E k \in DeviceKeys, e \in Epochs : Heartbeat(k, x, e)
                    \/ \E amount \in Nat : StakeCollateral(x, amount)
                    \/ \E amount \in Nat : Unstake(x, amount)
                    \/ \E e \in Epochs : ClaimReward(x, e) \/ SlashRouter(x, e)
                    \/ ApplyPenalty(x) \/ ReinstateRouter(x) \/ DecommissionRouter(x)
  OBVIOUS
<1>1. ASSUME NEW r \in Routers,
             \/ \E k \in DeviceKeys : RegisterRouter(r, k) \/ RotateDeviceKey(r, k)
             \/ ApplyPenalty(r) \/ ReinstateRouter(r) \/ DecommissionRouter(r)
      PROVE  r = x
  BY <1>0, <1>1 DEF RegisterRouter, RotateDeviceKey, ApplyPenalty, ReinstateRouter,
                    DecommissionRouter
<1>2. ASSUME NEW r \in Routers, NEW k \in DeviceKeys, NEW e \in Epochs, Heartbeat(k, r, e)
      PROVE  r = x
  BY <1>0, <1>2 DEF Heartbeat
<1>3. ASSUME NEW r \in Routers, NEW amount, StakeCollateral(r, amount) \/ Unstake(r, amount)
      PROVE  r = x
  BY <1>0, <1>3 DEF StakeCollateral, Unstake
<1>4. ASSUME NEW r \in Routers, NEW e \in Epochs, ClaimReward(r, e) \/ SlashRouter(r, e)
      PROVE  r = x
  BY <1>0, <1>4 DEF ClaimReward, SlashRouter
<1>5. ASSUME NEW r \in Routers, NEW e \in Epochs, ClaimVested(r, e) \/ FinalizeRouterEpoch(r, e)
      PROVE  FALSE
  BY <1>5 DEF ClaimVested, FinalizeRouterEpoch
<1>6. ASSUME \/ \E c \in Configs : InitializeProtocol(c)
             \/ \E w \in Wallets, amount \in Nat : MintGenesis(w, amount)
             \/ \E amount \in Nat : BurnTreasury(amount)
             \/ PauseProtocol \/ ResumeProtocol
             \/ \E rate \in Nat : UpdateRewardRate(rate)
             \/ Environment
      PROVE  FALSE
  BY <1>6 DEF InitializeProtocol, MintGenesis, BurnTreasury, PauseProtocol, ResumeProtocol,
              UpdateRewardRate, Environment, Tick, HolderTransfer, accounts
<1>7. ~ UNCHANGED vars
  BY DEF vars, accounts
<1>8. ASSUME NEW r \in Routers, ByOperator(r)
      PROVE  \/ \E k \in DeviceKeys : RegisterRouter(x, k) \/ RotateDeviceKey(x, k)
             \/ \E k \in DeviceKeys, e \in Epochs : Heartbeat(k, x, e)
             \/ \E amount \in Nat : StakeCollateral(x, amount)
             \/ \E amount \in Nat : Unstake(x, amount)
             \/ \E e \in Epochs : ClaimReward(x, e)
  BY <1>8, <1>1, <1>2, <1>3, <1>4, <1>5 DEF ByOperator
<1>9. ASSUME NEW r \in Routers, Keeper(r) PROVE \E e \in Epochs : SlashRouter(x, e)
  BY <1>9, <1>4, <1>5 DEF Keeper
<1>10. ASSUME ByAuthority
       PROVE  ApplyPenalty(x) \/ ReinstateRouter(x) \/ DecommissionRouter(x)
  BY <1>10, <1>1, <1>6 DEF ByAuthority
<1> QED
  BY <1>6, <1>7, <1>8, <1>9, <1>10 DEF Transaction

\* A collateral position changes only by its own stake, unstake and slash.
LEMMA StakeStep ==
  ASSUME TypeOK, [Transaction]_vars, NEW x \in Routers
  PROVE  \/ stake'[x] = stake[x]
         \/ \E amount \in Nat : StakeCollateral(x, amount)
         \/ \E amount \in Nat : Unstake(x, amount)
         \/ \E e \in Epochs : SlashRouter(x, e)
<1>0. stake \in [Routers -> StakeType]
  BY TypeParts
<1> SUFFICES ASSUME stake'[x] # stake[x]
             PROVE  \/ \E amount \in Nat : StakeCollateral(x, amount)
                    \/ \E amount \in Nat : Unstake(x, amount)
                    \/ \E e \in Epochs : SlashRouter(x, e)
  OBVIOUS
<1>1. ASSUME NEW r \in Routers, NEW amount, StakeCollateral(r, amount) \/ Unstake(r, amount)
      PROVE  r = x
  BY <1>0, <1>1 DEF StakeCollateral, Unstake
<1>2. ASSUME NEW r \in Routers, NEW e \in Epochs, SlashRouter(r, e) PROVE r = x
  BY <1>0, <1>2 DEF SlashRouter
<1>3. ASSUME NEW r \in Routers, ByOperator(r)
      PROVE  \/ \E amount \in Nat : StakeCollateral(x, amount)
             \/ \E amount \in Nat : Unstake(x, amount)
  <2>1. ASSUME NEW k \in DeviceKeys, RegisterRouter(r, k) \/ RotateDeviceKey(r, k) PROVE FALSE
    BY <2>1 DEF RegisterRouter, RotateDeviceKey
  <2>2. ASSUME NEW k \in DeviceKeys, NEW e \in Epochs, Heartbeat(k, r, e) PROVE FALSE
    BY <2>2 DEF Heartbeat
  <2>3. ASSUME NEW e \in Epochs, ClaimReward(r, e) \/ ClaimVested(r, e) PROVE FALSE
    BY <2>3 DEF ClaimReward, ClaimVested
  <2> QED
    BY <1>3, <1>1, <2>1, <2>2, <2>3 DEF ByOperator
<1>4. ASSUME NEW r \in Routers, Keeper(r) PROVE \E e \in Epochs : SlashRouter(x, e)
  <2>1. ASSUME NEW e \in Epochs, FinalizeRouterEpoch(r, e) PROVE FALSE
    BY <2>1 DEF FinalizeRouterEpoch
  <2> QED
    BY <1>4, <1>2, <2>1 DEF Keeper
<1>5. ~ ByAuthority
  BY DEF ByAuthority, InitializeProtocol, MintGenesis, BurnTreasury, PauseProtocol,
         ResumeProtocol, UpdateRewardRate, ApplyPenalty, ReinstateRouter,
         DecommissionRouter, accounts
<1>6. ~ Environment /\ ~ UNCHANGED vars
  BY DEF Environment, Tick, HolderTransfer, vars, accounts
<1> QED
  BY <1>3, <1>4, <1>5, <1>6 DEF Transaction

\* An epoch record changes only by a heartbeat, a finalization, a claim or a slash
\* of its own router and epoch.
LEMMA EpochStep ==
  ASSUME TypeOK, [Transaction]_vars, NEW x \in Routers, NEW f \in Epochs
  PROVE  \/ repoch'[x][f] = repoch[x][f]
         \/ \E k \in DeviceKeys : Heartbeat(k, x, f)
         \/ FinalizeRouterEpoch(x, f) \/ ClaimReward(x, f) \/ SlashRouter(x, f)
<1>0. repoch \in [Routers -> [Epochs -> RouterEpochType]]
  BY TypeParts
<1> SUFFICES ASSUME repoch'[x][f] # repoch[x][f]
             PROVE  \/ \E k \in DeviceKeys : Heartbeat(k, x, f)
                    \/ FinalizeRouterEpoch(x, f) \/ ClaimReward(x, f) \/ SlashRouter(x, f)
  OBVIOUS
<1>1. ASSUME NEW r \in Routers, NEW e \in Epochs, NEW k \in DeviceKeys, Heartbeat(k, r, e)
      PROVE  r = x /\ e = f
  BY <1>0, <1>1 DEF Heartbeat
<1>2. ASSUME NEW r \in Routers, NEW e \in Epochs,
             FinalizeRouterEpoch(r, e) \/ ClaimReward(r, e) \/ SlashRouter(r, e)
      PROVE  r = x /\ e = f
  BY <1>0, <1>2 DEF FinalizeRouterEpoch, ClaimReward, SlashRouter
<1>3. ASSUME NEW r \in Routers, ByOperator(r)
      PROVE  (\E k \in DeviceKeys : Heartbeat(k, x, f)) \/ ClaimReward(x, f)
  <2>1. ASSUME NEW k \in DeviceKeys, RegisterRouter(r, k) \/ RotateDeviceKey(r, k) PROVE FALSE
    BY <2>1 DEF RegisterRouter, RotateDeviceKey
  <2>2. ASSUME NEW amount, StakeCollateral(r, amount) \/ Unstake(r, amount) PROVE FALSE
    BY <2>2 DEF StakeCollateral, Unstake
  <2>3. ASSUME NEW e \in Epochs, ClaimVested(r, e) PROVE FALSE
    BY <2>3 DEF ClaimVested
  <2> QED
    BY <1>3, <1>1, <1>2, <2>1, <2>2, <2>3 DEF ByOperator
<1>4. ASSUME NEW r \in Routers, Keeper(r)
      PROVE  FinalizeRouterEpoch(x, f) \/ SlashRouter(x, f)
  BY <1>4, <1>2 DEF Keeper
<1>5. ~ ByAuthority
  BY DEF ByAuthority, InitializeProtocol, MintGenesis, BurnTreasury, PauseProtocol,
         ResumeProtocol, UpdateRewardRate, ApplyPenalty, ReinstateRouter,
         DecommissionRouter, accounts
<1>6. ~ Environment /\ ~ UNCHANGED vars
  BY DEF Environment, Tick, HolderTransfer, vars, accounts
<1> QED
  BY <1>3, <1>4, <1>5, <1>6 DEF Transaction

\* A vesting account changes only when its reward is claimed or released.
LEMMA VestingStep ==
  ASSUME TypeOK, [Transaction]_vars, NEW x \in Routers, NEW f \in Epochs
  PROVE  vesting'[x][f] = vesting[x][f] \/ ClaimReward(x, f) \/ ClaimVested(x, f)
<1>0. vesting \in [Routers -> [Epochs -> VestingType]]
  BY TypeParts
<1> SUFFICES ASSUME vesting'[x][f] # vesting[x][f]
             PROVE  ClaimReward(x, f) \/ ClaimVested(x, f)
  OBVIOUS
<1>1. ASSUME NEW r \in Routers, NEW e \in Epochs, ClaimReward(r, e) \/ ClaimVested(r, e)
      PROVE  r = x /\ e = f
  BY <1>0, <1>1 DEF ClaimReward, ClaimVested
<1>2. ASSUME NEW r \in Routers, ByOperator(r) PROVE ClaimReward(x, f) \/ ClaimVested(x, f)
  <2>1. ASSUME NEW k \in DeviceKeys, RegisterRouter(r, k) \/ RotateDeviceKey(r, k) PROVE FALSE
    BY <2>1 DEF RegisterRouter, RotateDeviceKey
  <2>2. ASSUME NEW amount, StakeCollateral(r, amount) \/ Unstake(r, amount) PROVE FALSE
    BY <2>2 DEF StakeCollateral, Unstake
  <2>3. ASSUME NEW k \in DeviceKeys, NEW e \in Epochs, Heartbeat(k, r, e) PROVE FALSE
    BY <2>3 DEF Heartbeat
  <2> QED
    BY <1>2, <1>1, <2>1, <2>2, <2>3 DEF ByOperator
<1>3. ASSUME NEW r \in Routers PROVE ~ Keeper(r)
  BY DEF Keeper, FinalizeRouterEpoch, SlashRouter
<1>4. ~ ByAuthority
  BY DEF ByAuthority, InitializeProtocol, MintGenesis, BurnTreasury, PauseProtocol,
         ResumeProtocol, UpdateRewardRate, ApplyPenalty, ReinstateRouter,
         DecommissionRouter, accounts
<1>5. ~ Environment /\ ~ UNCHANGED vars
  BY DEF Environment, Tick, HolderTransfer, vars, accounts
<1> QED
  BY <1>2, <1>3, <1>4, <1>5 DEF Transaction

\* An emission schedule changes only by a finalization in its epoch.
LEMMA EmissionStep ==
  ASSUME TypeOK, [Transaction]_vars, NEW f \in Epochs
  PROVE  emission'[f] = emission[f] \/ \E r \in Routers : FinalizeRouterEpoch(r, f)
<1>0. emission \in [Epochs -> EmissionType]
  BY TypeParts
<1> SUFFICES ASSUME emission'[f] # emission[f]
             PROVE  \E r \in Routers : FinalizeRouterEpoch(r, f)
  OBVIOUS
<1>1. ASSUME NEW r \in Routers, NEW e \in Epochs, FinalizeRouterEpoch(r, e) PROVE e = f
  BY <1>0, <1>1 DEF FinalizeRouterEpoch
<1>2. ASSUME NEW r \in Routers PROVE ~ ByOperator(r)
  BY DEF ByOperator, RegisterRouter, RotateDeviceKey, Heartbeat, StakeCollateral, Unstake,
         ClaimReward, ClaimVested
<1>3. ASSUME NEW r \in Routers, Keeper(r) PROVE FinalizeRouterEpoch(r, f)
  <2>1. ASSUME NEW e \in Epochs, SlashRouter(r, e) PROVE FALSE
    BY <2>1 DEF SlashRouter
  <2> QED
    BY <1>3, <1>1, <2>1 DEF Keeper
<1>4. ~ ByAuthority
  BY DEF ByAuthority, InitializeProtocol, MintGenesis, BurnTreasury, PauseProtocol,
         ResumeProtocol, UpdateRewardRate, ApplyPenalty, ReinstateRouter,
         DecommissionRouter, accounts
<1>5. ~ Environment /\ ~ UNCHANGED vars
  BY DEF Environment, Tick, HolderTransfer, vars, accounts
<1> QED
  BY <1>2, <1>3, <1>4, <1>5 DEF Transaction

\* The clock never runs back, and what initialize_protocol wrote is never rewritten.
LEMMA ClockStep ==
  ASSUME TypeOK, [Transaction]_vars
  PROVE  /\ now' \in Nat /\ now' >= now
         /\ protocol.initialized =>
              /\ protocol'.initialized
              /\ config' = config
              /\ protocol'.genesis_time = protocol.genesis_time
<1>0. /\ now \in Nat /\ protocol \in ProtocolType
      /\ protocol.initialized \in BOOLEAN
  BY TypeParts DEF ProtocolType
<1> DEFINE Kept == /\ now' \in Nat /\ now' >= now
                   /\ protocol.initialized =>
                        /\ protocol'.initialized
                        /\ config' = config
                        /\ protocol'.genesis_time = protocol.genesis_time
<1>1. ASSUME NEW r \in Routers, ByOperator(r) PROVE Kept
  <2>1. ASSUME NEW k \in DeviceKeys, RegisterRouter(r, k) \/ RotateDeviceKey(r, k) PROVE Kept
    BY <1>0, <2>1 DEF RegisterRouter, RotateDeviceKey, ProtocolType
  <2>2. ASSUME NEW k \in DeviceKeys, NEW e \in Epochs, Heartbeat(k, r, e) PROVE Kept
    BY <1>0, <2>2 DEF Heartbeat
  <2>3. ASSUME NEW amount, StakeCollateral(r, amount) \/ Unstake(r, amount) PROVE Kept
    BY <1>0, <2>3 DEF StakeCollateral, Unstake, ProtocolType
  <2>4. ASSUME NEW e \in Epochs, ClaimReward(r, e) \/ ClaimVested(r, e) PROVE Kept
    BY <1>0, <2>4 DEF ClaimReward, ClaimVested, ProtocolType
  <2> QED
    BY <1>1, <2>1, <2>2, <2>3, <2>4 DEF ByOperator
<1>2. ASSUME NEW r \in Routers, Keeper(r) PROVE Kept
  <2>1. ASSUME NEW e \in Epochs, FinalizeRouterEpoch(r, e) PROVE Kept
    BY <1>0, <2>1 DEF FinalizeRouterEpoch
  <2>2. ASSUME NEW e \in Epochs, SlashRouter(r, e) PROVE Kept
    <3> DEFINE a == SaturatingSub(protocol.total_staked, SlashDue(r, e))
               b == protocol.total_slashed + SlashDue(r, e)
    <3>1. /\ protocol' = [protocol EXCEPT !.total_staked = a, !.total_slashed = b]
          /\ UNCHANGED <<now, config>>
      BY <2>2 DEF SlashRouter
    <3> HIDE DEF a, b
    <3> QED
      BY <1>0, <3>1 DEF ProtocolType
  <2> QED
    BY <1>2, <2>1, <2>2 DEF Keeper
<1>3. ASSUME ByAuthority PROVE Kept
  <2>1. ASSUME NEW c \in Configs, InitializeProtocol(c) PROVE Kept
    BY <1>0, <2>1 DEF InitializeProtocol
  <2>2. ASSUME NEW w \in Wallets, NEW amount \in Nat, MintGenesis(w, amount)
        PROVE  Kept
    BY <1>0, <2>2 DEF MintGenesis, ProtocolType
  <2>3. ASSUME NEW amount \in Nat, BurnTreasury(amount) PROVE Kept
    BY <1>0, <2>3 DEF BurnTreasury, ProtocolType
  <2>4. ASSUME PauseProtocol \/ ResumeProtocol \/ \E rate \in Nat : UpdateRewardRate(rate)
        PROVE  Kept
    BY <1>0, <2>4 DEF PauseProtocol, ResumeProtocol, UpdateRewardRate, ProtocolType
  <2>5. ASSUME NEW r \in Routers, ApplyPenalty(r) \/ ReinstateRouter(r) \/ DecommissionRouter(r)
        PROVE  Kept
    BY <1>0, <2>5 DEF ApplyPenalty, ReinstateRouter, DecommissionRouter
  <2> QED
    BY <1>3, <2>1, <2>2, <2>3, <2>4, <2>5 DEF ByAuthority
<1>4. ASSUME Environment PROVE Kept
  BY <1>0, <1>4, RouterPulseAssumption DEF Environment, Tick, HolderTransfer
<1>5. ASSUME UNCHANGED vars PROVE Kept
  BY <1>0, <1>5 DEF vars
<1> QED
  BY <1>1, <1>2, <1>3, <1>4, <1>5 DEF Transaction

----------------------------------------------------------------------------
(* The invariant and its parts. *)


LEMMA InvParts ==
  ASSUME ProgramInv
  PROVE  /\ TypeOK /\ AccountsInOrder /\ FinalizedAfterWindow /\ MirrorInSync
         /\ ActiveAboveThreshold /\ EmissionWithinBudget /\ GrantMatchesEpoch
         /\ ReleasedOnSchedule
  BY DEF ProgramInv

----------------------------------------------------------------------------
(* What the instructions do to one router account. *)

\* A heartbeat touches neither the identity nor the collateral mirror, counts
\* itself, and leaves the router Active or Suspended.
LEMMA HeartbeatEffect ==
  ASSUME TypeOK, NEW x \in Routers, NEW k \in DeviceKeys, NEW e \in Epochs,
         Heartbeat(k, x, e)
  PROVE  /\ router'[x].exists
         /\ router'[x].staked_amount = router[x].staked_amount
         /\ router[x].heartbeat_count = 0 =>
              /\ router'[x].status = "Active"
              /\ router'[x].uptime_score = router[x].uptime_score
         /\ router[x].heartbeat_count # 0 =>
              /\ router'[x].status = "Active" => ~ShouldSuspend(router'[x].uptime_score)
              /\ router'[x].status \in {"Suspended", router[x].status}
<1> DEFINE live == IF router[x].heartbeat_count = 0
                   THEN [router[x] EXCEPT !.status = "Active"] ELSE Scored(x)
           count == live.heartbeat_count + 1
<1>0. router \in [Routers -> RouterType] /\ router[x] \in RouterType
  BY TypeParts
<1>1. /\ router' = [router EXCEPT ![x] =
                      [live EXCEPT !.last_heartbeat = now, !.heartbeat_count = count]]
      /\ router[x].exists
      /\ router[x].status \notin {"Suspended", "Decommissioned"}
  BY DEF Heartbeat, MayHeartbeat, FirstBeat
<1>2. CASE router[x].heartbeat_count = 0
  <2>1. live = [router[x] EXCEPT !.status = "Active"]
    BY <1>2
  <2> HIDE DEF live, count
  <2>2. router'[x] = [live EXCEPT !.last_heartbeat = now, !.heartbeat_count = count]
    BY <1>0, <1>1
  <2> QED
    BY <1>0, <1>1, <1>2, <2>1, <2>2 DEF RouterType
<1>3. CASE router[x].heartbeat_count # 0
  <2> DEFINE score == Calculate(router[x].uptime_score, now - router[x].last_heartbeat,
                                config.heartbeat_interval).new_score
             missed == router[x].missed_heartbeats
                         + Calculate(router[x].uptime_score, now - router[x].last_heartbeat,
                                     config.heartbeat_interval).missed_count
             status == IF ShouldSuspend(score) /\ router[x].status = "Active"
                       THEN "Suspended" ELSE router[x].status
  <2>1. live = [router[x] EXCEPT !.uptime_score = score, !.missed_heartbeats = missed,
                                 !.status = status]
    BY <1>3 DEF Scored
  <2>2. status = "Active" => ~ShouldSuspend(score)
    OBVIOUS
  <2>3. status \in {"Suspended", router[x].status}
    OBVIOUS
  <2> HIDE DEF live, count, score, missed, status
  <2>4. router'[x] = [live EXCEPT !.last_heartbeat = now, !.heartbeat_count = count]
    BY <1>0, <1>1
  <2>5. /\ router'[x].exists /\ router'[x].staked_amount = router[x].staked_amount
        /\ router'[x].uptime_score = score /\ router'[x].status = status
    BY <1>0, <1>1, <2>1, <2>4 DEF RouterType
  <2> QED
    BY <1>3, <2>2, <2>3, <2>5
<1> QED
  BY <1>2, <1>3

\* A penalty suspends an Active router whose score falls to the threshold, and
\* changes no other status.
LEMMA ApplyPenaltyEffect ==
  ASSUME TypeOK, NEW x \in Routers, ApplyPenalty(x)
  PROVE  /\ router[x].exists /\ router'[x].exists
         /\ router'[x].staked_amount = router[x].staked_amount
         /\ router'[x].heartbeat_count = router[x].heartbeat_count
         /\ router[x].status # "Decommissioned"
         /\ router'[x].status = "Active" => ~ShouldSuspend(router'[x].uptime_score)
         /\ router'[x].status \in {"Suspended", router[x].status}
<1> DEFINE penalty == (router[x].total_rewards * config.penalty_bps) \div BASIS_POINTS_DIVISOR
           rewards == SaturatingSub(router[x].total_rewards, penalty)
           penalties == router[x].total_penalties + penalty
           score == SaturatingSub(router[x].uptime_score, PENALTY_DROP)
           status == IF ShouldSuspend(score) /\ router[x].status = "Active"
                     THEN "Suspended" ELSE router[x].status
<1>0. router \in [Routers -> RouterType] /\ router[x] \in RouterType
  BY TypeParts
<1>1. router' = [router EXCEPT ![x] = [router[x] EXCEPT !.total_rewards = rewards,
          !.total_penalties = penalties, !.uptime_score = score, !.status = status]]
  BY DEF ApplyPenalty, PenaltyProduct, Penalty, Penalized
<1>2. status = "Active" => ~ShouldSuspend(score)
  OBVIOUS
<1>3. status \in {"Suspended", router[x].status}
  OBVIOUS
<1>4. router[x].exists /\ router[x].status # "Decommissioned"
  BY DEF ApplyPenalty, MayPenalize
<1> HIDE DEF penalty, rewards, penalties, score, status
<1>5. router'[x] = [router[x] EXCEPT !.total_rewards = rewards,
          !.total_penalties = penalties, !.uptime_score = score, !.status = status]
  BY <1>0, <1>1
<1>6. /\ router'[x].exists /\ router'[x].staked_amount = router[x].staked_amount
      /\ router'[x].heartbeat_count = router[x].heartbeat_count
      /\ router'[x].uptime_score = score /\ router'[x].status = status
  BY <1>0, <1>4, <1>5 DEF RouterType
<1> QED
  BY <1>2, <1>3, <1>4, <1>6

\* Registration starts from the zeroed account, so the status reads as Active.
LEMMA RegisterRouterEffect ==
  ASSUME TypeOK, NEW x \in Routers, NEW k \in DeviceKeys, RegisterRouter(x, k)
  PROVE  /\ ~router[x].exists /\ router'[x].exists
         /\ router'[x].staked_amount = 0 /\ router'[x].heartbeat_count = 0
         /\ router'[x].status = "Active" /\ router'[x].uptime_score = MAX_SCORE
<1>1. router'[x] = [NoRouter EXCEPT !.exists = TRUE, !.device_pubkey = k,
                      !.last_heartbeat = now, !.uptime_score = MAX_SCORE]
  BY TypeParts DEF RegisterRouter
<1> QED
  BY <1>1 DEF RegisterRouter, NoRouter

LEMMA RotateDeviceKeyEffect ==
  ASSUME TypeOK, NEW x \in Routers, NEW k \in DeviceKeys, RotateDeviceKey(x, k)
  PROVE  /\ router[x].exists /\ router'[x].exists
         /\ router'[x].staked_amount = router[x].staked_amount
         /\ router'[x].status = router[x].status
         /\ router'[x].uptime_score = router[x].uptime_score
         /\ router'[x].heartbeat_count = router[x].heartbeat_count
<1> DEFINE version == router[x].device_key_version + 1
<1>1. router' = [router EXCEPT ![x] =
                   [router[x] EXCEPT !.device_pubkey = k, !.device_key_version = version]]
  BY TypeParts DEF RotateDeviceKey
<1> HIDE DEF version
<1>2. router[x] \in RouterType /\ router[x].exists
  BY TypeParts DEF RotateDeviceKey
<1> QED
  BY <1>1, <1>2, TypeParts DEF RouterType

LEMMA ReinstateRouterEffect ==
  ASSUME TypeOK, NEW x \in Routers, ReinstateRouter(x)
  PROVE  /\ router[x].exists /\ router'[x].exists
         /\ router[x].status = "Suspended" /\ router'[x].status = "Active"
         /\ router'[x].uptime_score = REINSTATED_SCORE
         /\ router'[x].staked_amount = router[x].staked_amount
         /\ router'[x].heartbeat_count = router[x].heartbeat_count
<1>1. router' = [router EXCEPT ![x] =
                   [router[x] EXCEPT !.status = "Active", !.uptime_score = REINSTATED_SCORE]]
  BY TypeParts DEF ReinstateRouter
<1>2. router[x] \in RouterType /\ router[x].exists /\ router[x].status = "Suspended"
  BY TypeParts DEF ReinstateRouter, MayReinstate
<1> QED
  BY <1>1, <1>2, TypeParts DEF RouterType

LEMMA DecommissionRouterEffect ==
  ASSUME TypeOK, NEW x \in Routers, DecommissionRouter(x)
  PROVE  /\ router[x].exists /\ router'[x].exists
         /\ router'[x].status = "Decommissioned"
         /\ router'[x].staked_amount = router[x].staked_amount
         /\ router'[x].heartbeat_count = router[x].heartbeat_count
<1>1. router' = [router EXCEPT ![x] = [router[x] EXCEPT !.status = "Decommissioned"]]
  BY DEF DecommissionRouter
<1>2. router[x] \in RouterType /\ router[x].exists
  BY TypeParts DEF DecommissionRouter
<1> QED
  BY <1>1, <1>2, TypeParts DEF RouterType

\* stake and unstake write the position and its mirror from one value.
LEMMA StakeEffect ==
  ASSUME TypeOK, NEW x \in Routers, NEW amount \in Nat, StakeCollateral(x, amount)
  PROVE  /\ router[x].exists /\ router'[x].exists
         /\ stake'[x].amount = stake[x].amount + amount /\ amount > 0
         /\ router'[x].staked_amount = stake'[x].amount
         /\ stake'[x].locked_until = now + config.stake_lock_duration
         /\ router'[x].status = router[x].status
         /\ router'[x].uptime_score = router[x].uptime_score
         /\ router'[x].heartbeat_count = router[x].heartbeat_count
<1> DEFINE total == stake[x].amount + amount
           lock == now + config.stake_lock_duration
           created == IF stake[x].created_at = 0 THEN now ELSE stake[x].created_at
<1>1. stake' = [stake EXCEPT ![x] = [stake[x] EXCEPT
                  !.amount = total, !.locked_until = lock, !.created_at = created]]
  BY DEF StakeCollateral, LockUntil
<1>2. router' = [router EXCEPT ![x] = [router[x] EXCEPT !.staked_amount = total]]
  BY DEF StakeCollateral
<1>3. /\ router[x].exists /\ amount > 0
      /\ router[x] \in RouterType /\ stake[x] \in StakeType
  BY TypeParts DEF StakeCollateral
<1> HIDE DEF total, lock, created
<1>4. stake'[x].amount = total /\ stake'[x].locked_until = lock
  BY <1>1, <1>3, TypeParts DEF StakeType
<1>5. /\ router'[x].exists /\ router'[x].staked_amount = total
      /\ router'[x].status = router[x].status
      /\ router'[x].uptime_score = router[x].uptime_score
      /\ router'[x].heartbeat_count = router[x].heartbeat_count
  BY <1>2, <1>3, TypeParts DEF RouterType
<1> QED
  BY <1>3, <1>4, <1>5 DEF total, lock

LEMMA UnstakeEffect ==
  ASSUME TypeOK, NEW x \in Routers, NEW amount \in Nat, Unstake(x, amount)
  PROVE  /\ StakeExists(x)
         /\ router'[x].exists = router[x].exists
         /\ stake'[x].amount = stake[x].amount - amount /\ amount > 0
         /\ router'[x].staked_amount = stake'[x].amount
         /\ stake'[x].locked_until = stake[x].locked_until
         /\ now >= stake[x].locked_until
         /\ router'[x].status = router[x].status
         /\ router'[x].uptime_score = router[x].uptime_score
         /\ router'[x].heartbeat_count = router[x].heartbeat_count
<1> DEFINE left == stake[x].amount - amount
<1>1. /\ stake' = [stake EXCEPT ![x] = [stake[x] EXCEPT !.amount = left]]
      /\ router' = [router EXCEPT ![x] = [router[x] EXCEPT !.staked_amount = left]]
  BY DEF Unstake
<1>2. /\ StakeExists(x) /\ amount > 0 /\ now >= stake[x].locked_until
      /\ router[x] \in RouterType /\ stake[x] \in StakeType
  BY TypeParts DEF Unstake
<1> HIDE DEF left
<1>3. /\ stake'[x].amount = left /\ stake'[x].locked_until = stake[x].locked_until
      /\ router'[x].exists = router[x].exists /\ router'[x].staked_amount = left
      /\ router'[x].status = router[x].status
      /\ router'[x].uptime_score = router[x].uptime_score
      /\ router'[x].heartbeat_count = router[x].heartbeat_count
  BY <1>1, <1>2, TypeParts DEF RouterType, StakeType
<1> QED
  BY <1>2, <1>3 DEF left

\* A slash takes at most what finalization fixed and at most what is left.
LEMMA SlashEffect ==
  ASSUME TypeOK, NEW x \in Routers, NEW e \in Epochs, SlashRouter(x, e)
  PROVE  /\ StakeExists(x)
         /\ router'[x].exists = router[x].exists
         /\ stake'[x].amount \in Nat /\ stake'[x].amount < stake[x].amount
         /\ stake[x].amount - stake'[x].amount <= repoch[x][e].slash_amount
         /\ router'[x].staked_amount = stake'[x].amount
         /\ stake'[x].locked_until = stake[x].locked_until
         /\ router'[x].status = router[x].status
         /\ router'[x].uptime_score = router[x].uptime_score
         /\ router'[x].heartbeat_count = router[x].heartbeat_count
<1> DEFINE amount == SlashDue(x, e)
           left == SaturatingSub(stake[x].amount, amount)
           slashed == stake[x].total_slashed + amount
           penalties == router[x].total_penalties + amount
<1>0. /\ repoch[x][e] \in RouterEpochType /\ stake[x] \in StakeType
      /\ router[x] \in RouterType
  BY TypeParts
<1>1. /\ stake' = [stake EXCEPT ![x] = [stake[x] EXCEPT !.amount = left,
                                                        !.total_slashed = slashed]]
      /\ router' = [router EXCEPT ![x] = [router[x] EXCEPT !.staked_amount = left,
                                                           !.total_penalties = penalties]]
      /\ StakeExists(x) /\ amount > 0
  BY DEF SlashRouter, MaySlash
<1>2. /\ amount \in Nat /\ amount <= stake[x].amount
      /\ amount <= repoch[x][e].slash_amount
  BY <1>0 DEF SlashDue, Lesser, RouterEpochType, StakeType
<1> HIDE DEF amount
<1>3. /\ left \in Nat /\ left < stake[x].amount
      /\ stake[x].amount - left <= repoch[x][e].slash_amount
  BY <1>0, <1>1, <1>2 DEF SaturatingSub, RouterEpochType, StakeType
<1> HIDE DEF left, slashed, penalties
<1>4. /\ stake'[x].amount = left /\ stake'[x].locked_until = stake[x].locked_until
      /\ router'[x].exists = router[x].exists /\ router'[x].staked_amount = left
      /\ router'[x].status = router[x].status
      /\ router'[x].uptime_score = router[x].uptime_score
      /\ router'[x].heartbeat_count = router[x].heartbeat_count
  BY <1>0, <1>1, TypeParts DEF RouterType, StakeType
<1> QED
  BY <1>1, <1>3, <1>4

LEMMA ClaimRewardEffect ==
  ASSUME TypeOK, NEW x \in Routers, NEW e \in Epochs, ClaimReward(x, e)
  PROVE  /\ router'[x].exists = router[x].exists
         /\ router'[x].staked_amount = router[x].staked_amount
         /\ router'[x].status = router[x].status
         /\ router'[x].uptime_score = router[x].uptime_score
         /\ router'[x].heartbeat_count = router[x].heartbeat_count
<1> DEFINE rewards == router[x].total_rewards + repoch[x][e].reward_amount
<1>1. router' = [router EXCEPT ![x] = [router[x] EXCEPT !.total_rewards = rewards]]
  BY DEF ClaimReward
<1>2. router[x] \in RouterType
  BY TypeParts
<1> HIDE DEF rewards
<1> QED
  BY <1>1, <1>2, TypeParts DEF RouterType

----------------------------------------------------------------------------
(* What the instructions do to one epoch record, schedule or vesting account. *)

\* The window of a record, as the clock of state/protocol.rs computes it.
LEMMA FreshRouterEpochWindow ==
  ASSUME TypeOK, protocol.initialized, NEW e \in Epochs
  PROVE  /\ FreshRouterEpoch(e).start_time =
              EpochStart(protocol.genesis_time, config.epoch_duration, e)
         /\ FreshRouterEpoch(e).end_time =
              EpochEnd(protocol.genesis_time, config.epoch_duration, e)
         /\ FreshRouterEpoch(e).expected_heartbeats # 0
         /\ ~FreshRouterEpoch(e).finalized /\ ~FreshRouterEpoch(e).claimed
         /\ FreshRouterEpoch(e).reward_amount = 0
         /\ FreshRouterEpoch(e).slash_amount = 0
<1> DEFINE start == EpochStart(protocol.genesis_time, config.epoch_duration, e)
           end == EpochEnd(protocol.genesis_time, config.epoch_duration, e)
           expected == ExpectedHeartbeats(config.epoch_duration, config.heartbeat_interval)
<1>1. FreshRouterEpoch(e) = [NoRouterEpoch EXCEPT !.start_time = start, !.end_time = end,
                               !.expected_heartbeats = expected]
  BY DEF FreshRouterEpoch
<1>2. expected # 0
  <2>1. \A q \in Int : Greater(q, 1) # 0
    BY DEF Greater
  <2>2. config.epoch_duration \div config.heartbeat_interval \in Int
    BY DEF TypeOK, ConfigType, ValidConfig
  <2> QED
    BY <2>1, <2>2 DEF ExpectedHeartbeats
<1> HIDE DEF start, end, expected
<1>3. /\ FreshRouterEpoch(e).start_time = start /\ FreshRouterEpoch(e).end_time = end
      /\ FreshRouterEpoch(e).expected_heartbeats = expected
      /\ ~FreshRouterEpoch(e).finalized /\ ~FreshRouterEpoch(e).claimed
      /\ FreshRouterEpoch(e).reward_amount = 0 /\ FreshRouterEpoch(e).slash_amount = 0
  BY <1>1 DEF NoRouterEpoch
<1> QED
  BY <1>2, <1>3 DEF start, end

LEMMA HeartbeatRecord ==
  ASSUME ProgramInv, NEW x \in Routers, NEW k \in DeviceKeys, NEW e \in Epochs,
         Heartbeat(k, x, e)
  PROVE  /\ protocol.initialized
         /\ ~repoch[x][e].finalized /\ ~repoch'[x][e].finalized
         /\ ~repoch[x][e].claimed /\ ~repoch'[x][e].claimed
         /\ repoch[x][e].reward_amount = 0 /\ repoch'[x][e].reward_amount = 0
         /\ repoch[x][e].slash_amount = 0 /\ repoch'[x][e].slash_amount = 0
         /\ repoch'[x][e].expected_heartbeats # 0
         /\ repoch'[x][e].start_time =
              EpochStart(protocol.genesis_time, config.epoch_duration, e)
         /\ repoch'[x][e].end_time =
              EpochEnd(protocol.genesis_time, config.epoch_duration, e)
         /\ UNCHANGED <<now, config, protocol, stake, emission, vesting>>
<1> DEFINE ep == OpenRouterEpoch(x, e)
           heartbeats == ep.heartbeats + 1
<1>0. TypeOK /\ AccountsInOrder /\ FinalizedAfterWindow /\ GrantMatchesEpoch
  BY InvParts
<1>1. /\ protocol.initialized /\ ~ep.finalized
      /\ repoch' = [repoch EXCEPT ![x][e] = [ep EXCEPT !.heartbeats = heartbeats]]
      /\ UNCHANGED <<now, config, protocol, stake, emission, vesting>>
  BY DEF Heartbeat, MayHeartbeat, Running, Unsettled
<1>2. /\ ep \in RouterEpochType /\ ~repoch[x][e].finalized /\ ~ep.claimed
      /\ ~repoch[x][e].claimed /\ ep.expected_heartbeats # 0
      /\ repoch[x][e].reward_amount = 0 /\ ep.reward_amount = 0
      /\ repoch[x][e].slash_amount = 0 /\ ep.slash_amount = 0
      /\ ep.start_time = EpochStart(protocol.genesis_time, config.epoch_duration, e)
      /\ ep.end_time = EpochEnd(protocol.genesis_time, config.epoch_duration, e)
  <2>1. CASE EpochOpened(x, e)
    <3>1. ep = repoch[x][e]
      BY <2>1 DEF OpenRouterEpoch
    <3> HIDE DEF ep
    <3>2. /\ ~repoch[x][e].claimed
          /\ repoch[x][e].reward_amount = 0 /\ repoch[x][e].slash_amount = 0
      BY <1>0, <1>1, <3>1 DEF GrantMatchesEpoch, AccountsInOrder
    <3> QED
      BY <1>0, <1>1, <2>1, <3>1, <3>2, TypeParts DEF FinalizedAfterWindow, EpochOpened
  <2>2. CASE ~EpochOpened(x, e)
    <3>1. ep = FreshRouterEpoch(e)
      BY <2>2 DEF OpenRouterEpoch
    <3>2. ~repoch[x][e].finalized
      BY <1>0, <2>2 DEF AccountsInOrder
    <3>3. /\ ~repoch[x][e].claimed
          /\ repoch[x][e].reward_amount = 0 /\ repoch[x][e].slash_amount = 0
      BY <1>0, <3>2 DEF GrantMatchesEpoch, AccountsInOrder
    <3> HIDE DEF ep
    <3> QED
      BY <1>0, <1>1, <3>1, <3>2, <3>3, FreshRouterEpochType, FreshRouterEpochWindow
  <2> QED
    BY <2>1, <2>2
<1> HIDE DEF ep, heartbeats
<1>3. repoch'[x][e] = [ep EXCEPT !.heartbeats = heartbeats]
  BY <1>0, <1>1, TypeParts
<1> QED
  BY <1>1, <1>2, <1>3 DEF RouterEpochType

LEMMA FinalizeEffect ==
  ASSUME TypeOK, NEW x \in Routers, NEW e \in Epochs, FinalizeRouterEpoch(x, e)
  PROVE  /\ EpochOpened(x, e)
         /\ ~repoch[x][e].finalized /\ repoch'[x][e].finalized
         /\ now >= repoch[x][e].end_time
         /\ repoch'[x][e].start_time = repoch[x][e].start_time
         /\ repoch'[x][e].end_time = repoch[x][e].end_time
         /\ repoch'[x][e].heartbeats = repoch[x][e].heartbeats
         /\ repoch'[x][e].expected_heartbeats = repoch[x][e].expected_heartbeats
         /\ repoch'[x][e].claimed = repoch[x][e].claimed
         /\ repoch'[x][e].slashed = repoch[x][e].slashed
         /\ repoch'[x][e].reward_amount \in Nat
         /\ repoch'[x][e].reward_amount <= Remaining(OpenEmission(e))
         /\ emission'[e].total_emission = OpenEmission(e).total_emission
         /\ emission'[e].allocated =
              OpenEmission(e).allocated + repoch'[x][e].reward_amount
         /\ emission'[e].created_at = OpenEmission(e).created_at
         /\ OpenEmission(e) \in EmissionType
         /\ UNCHANGED <<now, config, protocol, router, stake, vesting>>
<1> DEFINE ep == repoch[x][e]
           em == OpenEmission(e)
           uptime == UptimeBps(ep.heartbeats, ep.expected_heartbeats)
           base == (ep.end_time - ep.start_time) * protocol.reward_rate
           reward == Lesser(TieredReward(base, uptime), Remaining(em))
           slash == SlashFor(stake[x].amount, uptime)
           allocated == em.allocated + reward
<1>1. /\ emission' = [emission EXCEPT ![e] = [em EXCEPT !.allocated = allocated]]
      /\ repoch' = [repoch EXCEPT ![x][e] = [ep EXCEPT !.uptime_bps = uptime,
           !.reward_amount = reward, !.slash_amount = slash, !.finalized = TRUE]]
      /\ EpochOpened(x, e) /\ ~ep.finalized /\ now >= ep.end_time
      /\ Fits(em.total_emission)
      /\ UNCHANGED <<now, config, protocol, router, stake, vesting>>
  BY DEF FinalizeRouterEpoch, MayFinalize, MeasuredUptime, BaseReward, Reward, Unsettled,
         WindowClosed
<1>2. ep \in RouterEpochType
  BY TypeParts
<1>3. em \in EmissionType
  BY <1>1, OpenEmissionType
<1> HIDE DEF ep, em, uptime, base
<1>4. Remaining(em) \in Nat
  BY <1>3 DEF Remaining, SaturatingSub, EmissionType
<1>5. repoch'[x][e] = [ep EXCEPT !.uptime_bps = uptime, !.reward_amount = reward,
                         !.slash_amount = slash, !.finalized = TRUE]
  BY <1>1, TypeParts
<1>6. emission'[e] = [em EXCEPT !.allocated = allocated]
  BY <1>1, TypeParts
<1>7. reward <= Remaining(em) /\ reward \in Nat
  <2>1. repoch' \in [Routers -> [Epochs -> RouterEpochType]]
    BY FinalizeRouterEpochType DEF TypeOK
  <2>2. repoch'[x][e].reward_amount = reward
    <3> HIDE DEF reward, slash
    <3> QED
      BY <1>2, <1>5 DEF RouterEpochType
  <2>3. reward \in Nat
    <3> HIDE DEF reward
    <3> QED
      BY <2>1, <2>2 DEF RouterEpochType
  <2>4. reward <= Remaining(em)
    BY <1>4 DEF Lesser
  <2> HIDE DEF reward
  <2> QED
    BY <2>3, <2>4
<1> HIDE DEF reward, slash, allocated
<1>8. /\ repoch'[x][e].finalized /\ repoch'[x][e].reward_amount = reward
      /\ repoch'[x][e].start_time = ep.start_time
      /\ repoch'[x][e].end_time = ep.end_time
      /\ repoch'[x][e].heartbeats = ep.heartbeats
      /\ repoch'[x][e].expected_heartbeats = ep.expected_heartbeats
      /\ repoch'[x][e].claimed = ep.claimed /\ repoch'[x][e].slashed = ep.slashed
  BY <1>2, <1>5 DEF RouterEpochType
<1>9. /\ emission'[e].total_emission = em.total_emission
      /\ emission'[e].allocated = allocated
      /\ emission'[e].created_at = em.created_at
  BY <1>3, <1>6 DEF EmissionType
<1> QED
  BY <1>1, <1>3, <1>7, <1>8, <1>9 DEF ep, em, allocated

LEMMA ClaimEffect ==
  ASSUME TypeOK, NEW x \in Routers, NEW e \in Epochs, ClaimReward(x, e)
  PROVE  /\ router[x].status # "Decommissioned"
         /\ repoch[x][e].finalized /\ ~repoch[x][e].claimed
         /\ repoch'[x][e].finalized /\ repoch'[x][e].claimed
         /\ repoch[x][e].reward_amount > 0
         /\ repoch'[x][e].start_time = repoch[x][e].start_time
         /\ repoch'[x][e].end_time = repoch[x][e].end_time
         /\ repoch'[x][e].heartbeats = repoch[x][e].heartbeats
         /\ repoch'[x][e].expected_heartbeats = repoch[x][e].expected_heartbeats
         /\ repoch'[x][e].uptime_bps = repoch[x][e].uptime_bps
         /\ repoch'[x][e].reward_amount = repoch[x][e].reward_amount
         /\ repoch'[x][e].slash_amount = repoch[x][e].slash_amount
         /\ repoch'[x][e].slashed = repoch[x][e].slashed
         /\ vesting[x][e].total_amount = 0
         /\ vesting'[x][e].total_amount = repoch[x][e].reward_amount
         /\ vesting'[x][e].claimed_amount = 0
         /\ UNCHANGED <<now, config, stake, emission>>
<1>1. /\ repoch' = [repoch EXCEPT ![x][e] = [repoch[x][e] EXCEPT !.claimed = TRUE]]
      /\ vesting' = [vesting EXCEPT ![x][e] =
           [total_amount |-> repoch[x][e].reward_amount, claimed_amount |-> 0,
            start_time |-> now, cliff_duration |-> config.reward_cliff_duration,
            vesting_duration |-> config.reward_vesting_duration]]
      /\ router[x].status # "Decommissioned"
      /\ repoch[x][e].finalized /\ ~repoch[x][e].claimed /\ repoch[x][e].reward_amount > 0
      /\ vesting[x][e].total_amount = 0
      /\ UNCHANGED <<now, config, stake, emission>>
  BY DEF ClaimReward, ClaimRecorded, Granted
<1>2. repoch[x][e] \in RouterEpochType
  BY TypeParts
<1>3. repoch'[x][e] = [repoch[x][e] EXCEPT !.claimed = TRUE]
  BY <1>1, TypeParts
<1>4. vesting'[x][e] =
           [total_amount |-> repoch[x][e].reward_amount, claimed_amount |-> 0,
            start_time |-> now, cliff_duration |-> config.reward_cliff_duration,
            vesting_duration |-> config.reward_vesting_duration]
  BY <1>1, TypeParts
<1>5. /\ vesting'[x][e].total_amount = repoch[x][e].reward_amount
      /\ vesting'[x][e].claimed_amount = 0
  BY <1>4
<1> QED
  BY <1>1, <1>2, <1>3, <1>5 DEF RouterEpochType

LEMMA SlashRecord ==
  ASSUME TypeOK, NEW x \in Routers, NEW e \in Epochs, SlashRouter(x, e)
  PROVE  /\ repoch[x][e].finalized /\ repoch'[x][e].finalized
         /\ ~repoch[x][e].slashed /\ repoch'[x][e].slashed
         /\ repoch'[x][e].start_time = repoch[x][e].start_time
         /\ repoch'[x][e].end_time = repoch[x][e].end_time
         /\ repoch'[x][e].heartbeats = repoch[x][e].heartbeats
         /\ repoch'[x][e].expected_heartbeats = repoch[x][e].expected_heartbeats
         /\ repoch'[x][e].uptime_bps = repoch[x][e].uptime_bps
         /\ repoch'[x][e].reward_amount = repoch[x][e].reward_amount
         /\ repoch'[x][e].slash_amount = repoch[x][e].slash_amount
         /\ repoch'[x][e].claimed = repoch[x][e].claimed
         /\ UNCHANGED <<now, config, emission, vesting>>
<1>1. /\ repoch' = [repoch EXCEPT ![x][e] = [repoch[x][e] EXCEPT !.slashed = TRUE]]
      /\ repoch[x][e].finalized /\ ~repoch[x][e].slashed
      /\ UNCHANGED <<now, config, emission, vesting>>
  BY DEF SlashRouter, MaySlash, SlashPending
<1>2. repoch[x][e] \in RouterEpochType
  BY TypeParts
<1>3. repoch'[x][e] = [repoch[x][e] EXCEPT !.slashed = TRUE]
  BY <1>1, TypeParts
<1> QED
  BY <1>1, <1>2, <1>3 DEF RouterEpochType

\* A release brings the amount taken exactly up to what has vested.
LEMMA ClaimVestedEffect ==
  ASSUME TypeOK, NEW x \in Routers, NEW e \in Epochs, ClaimVested(x, e)
  PROVE  /\ Granted(x, e)
         /\ vesting[x][e].claimed_amount < Vested(vesting[x][e], now)
         /\ vesting'[x][e].claimed_amount = Vested(vesting[x][e], now)
         /\ vesting'[x][e].total_amount = vesting[x][e].total_amount
         /\ vesting'[x][e].start_time = vesting[x][e].start_time
         /\ vesting'[x][e].cliff_duration = vesting[x][e].cliff_duration
         /\ vesting'[x][e].vesting_duration = vesting[x][e].vesting_duration
         /\ UNCHANGED <<now, config, router, stake, repoch, emission>>
<1> DEFINE v == vesting[x][e]
           claimed == v.claimed_amount + Releasable(v)
<1>1. /\ vesting' = [vesting EXCEPT ![x][e] = [v EXCEPT !.claimed_amount = claimed]]
      /\ Granted(x, e) /\ Releasable(v) > 0
      /\ UNCHANGED <<now, config, router, stake, repoch, emission>>
  BY DEF ClaimVested
<1>2. v \in VestingType /\ now \in Int /\ v.claimed_amount \in Nat
  BY TypeParts DEF VestingType
<1> HIDE DEF v
<1>3. Vested(v, now) \in Nat
  BY <1>2, VestedType
<1>4. claimed = Vested(v, now) /\ v.claimed_amount < Vested(v, now)
  BY <1>1, <1>2, <1>3 DEF Releasable, SaturatingSub
<1> HIDE DEF claimed
<1>5. vesting'[x][e] = [v EXCEPT !.claimed_amount = claimed]
  BY <1>1, TypeParts
<1>6. /\ vesting'[x][e].claimed_amount = claimed
      /\ vesting'[x][e].total_amount = v.total_amount
      /\ vesting'[x][e].start_time = v.start_time
      /\ vesting'[x][e].cliff_duration = v.cliff_duration
      /\ vesting'[x][e].vesting_duration = v.vesting_duration
  BY <1>2, <1>5 DEF VestingType
<1> QED
  BY <1>1, <1>4, <1>6 DEF v

----------------------------------------------------------------------------
(* The invariant holds initially. *)

\* Nobody has used the program yet, deployed or not.
Unused ==
  /\ router = [r \in Routers |-> NoRouter]
  /\ stake = [r \in Routers |-> NoStake]
  /\ repoch = [r \in Routers |-> [e \in Epochs |-> NoRouterEpoch]]
  /\ emission = [e \in Epochs |-> NoEmission]
  /\ vesting = [r \in Routers |-> [e \in Epochs |-> NoVesting]]
  /\ vault = 0 /\ treasury = 0
  /\ wallet = [w \in Wallets |-> 0]

LEMMA UnusedInv ==
  ASSUME TypeOK, Unused, protocol.initialized => protocol.genesis_time <= now
  PROVE  ProgramInv
<1>1. TypeOK
  OBVIOUS
<1>3. \A r \in Routers :
        /\ ~router[r].exists /\ router[r].status = "Active"
        /\ router[r].staked_amount = 0 /\ stake[r].amount = 0 /\ stake[r].created_at = 0
  BY DEF Unused, NoRouter, NoStake
<1>4. \A r \in Routers, e \in Epochs :
        /\ repoch[r][e].expected_heartbeats = 0
        /\ ~repoch[r][e].finalized /\ ~repoch[r][e].claimed
        /\ repoch[r][e].reward_amount = 0 /\ repoch[r][e].slash_amount = 0
        /\ vesting[r][e].total_amount = 0 /\ vesting[r][e].claimed_amount = 0
  BY DEF Unused, NoRouterEpoch, NoVesting
<1>5. AccountsInOrder
  BY <1>3, <1>4 DEF AccountsInOrder, StakeExists, EpochOpened
<1>6. FinalizedAfterWindow
  BY <1>4 DEF FinalizedAfterWindow, EpochOpened
<1>7. MirrorInSync /\ ActiveAboveThreshold
  BY <1>3 DEF MirrorInSync, ActiveAboveThreshold
<1>8. EmissionWithinBudget
  BY DEF Unused, EmissionWithinBudget, NoEmission
<1>9. GrantMatchesEpoch
  BY <1>4 DEF GrantMatchesEpoch, Granted
<1>10. ReleasedOnSchedule
  <2>1. \A r \in Routers, e \in Epochs : Vested(vesting[r][e], now) \in Nat
    BY <1>1, TypeParts, VestedType
  <2> QED
    BY <1>4, <2>1 DEF ReleasedOnSchedule
<1> QED
  BY <1>1, <1>5, <1>6, <1>7, <1>8, <1>9, <1>10 DEF ProgramInv

LEMMA InitInv == Init => ProgramInv
<1> SUFFICES ASSUME Init PROVE ProgramInv
  OBVIOUS
<1>1. TypeOK
  BY InitType
<1>2. Unused /\ ~protocol.initialized
  BY DEF Init, Unused, NoProtocol
<1> QED
  BY <1>1, <1>2, UnusedInv

----------------------------------------------------------------------------
(* Every step keeps it: one lemma per conjunct. *)

LEMMA MirrorStep ==
  ASSUME ProgramInv, [Transaction]_vars
  PROVE  MirrorInSync'
<1>0. TypeOK /\ AccountsInOrder /\ MirrorInSync
  BY InvParts
<1> SUFFICES ASSUME NEW x \in Routers PROVE router'[x].staked_amount = stake'[x].amount
  BY DEF MirrorInSync
<1>1. CASE \E amount \in Nat : StakeCollateral(x, amount)
  BY <1>0, <1>1, StakeEffect
<1>2. CASE \E amount \in Nat : Unstake(x, amount)
  BY <1>0, <1>2, UnstakeEffect
<1>3. CASE \E e \in Epochs : SlashRouter(x, e)
  BY <1>0, <1>3, SlashEffect
<1>4. CASE /\ ~ \E amount \in Nat : StakeCollateral(x, amount)
           /\ ~ \E amount \in Nat : Unstake(x, amount)
           /\ ~ \E e \in Epochs : SlashRouter(x, e)
  <2>1. stake'[x] = stake[x] /\ router[x].staked_amount = stake[x].amount
    BY <1>0, <1>4, StakeStep DEF MirrorInSync
  <2>2. ASSUME NEW k \in DeviceKeys, RegisterRouter(x, k)
        PROVE  router'[x].staked_amount = 0 /\ stake[x].amount = 0
    BY <1>0, <2>2, RegisterRouterEffect DEF AccountsInOrder
  <2>3. ASSUME NEW k \in DeviceKeys, RotateDeviceKey(x, k)
        PROVE  router'[x].staked_amount = router[x].staked_amount
    BY <1>0, <2>3, RotateDeviceKeyEffect
  <2>4. ASSUME NEW k \in DeviceKeys, NEW e \in Epochs, Heartbeat(k, x, e)
        PROVE  router'[x].staked_amount = router[x].staked_amount
    BY <1>0, <2>4, HeartbeatEffect
  <2>5. ASSUME NEW e \in Epochs, ClaimReward(x, e)
        PROVE  router'[x].staked_amount = router[x].staked_amount
    BY <1>0, <2>5, ClaimRewardEffect
  <2>6. ASSUME ApplyPenalty(x) \/ ReinstateRouter(x) \/ DecommissionRouter(x)
        PROVE  router'[x].staked_amount = router[x].staked_amount
    BY <1>0, <2>6, ApplyPenaltyEffect, ReinstateRouterEffect, DecommissionRouterEffect
  <2> QED
    BY <1>0, <1>4, <2>1, <2>2, <2>3, <2>4, <2>5, <2>6, RouterStep
<1> QED
  BY <1>1, <1>2, <1>3, <1>4

\* Status and collateral of one router.
LEMMA RouterOrderStep ==
  ASSUME ProgramInv, [Transaction]_vars, NEW x \in Routers
  PROVE  /\ router'[x].status # "Inactive"
         /\ ~router'[x].exists =>
              /\ router'[x].status = "Active"
              /\ stake'[x].created_at = 0 /\ stake'[x].amount = 0
<1>0. TypeOK /\ AccountsInOrder
  BY InvParts
<1>1. /\ router[x].status # "Inactive"
      /\ ~router[x].exists => /\ router[x].status = "Active"
                              /\ stake[x].created_at = 0 /\ stake[x].amount = 0
  BY <1>0 DEF AccountsInOrder, StakeExists
<1>2. CASE \E amount \in Nat : StakeCollateral(x, amount)
  BY <1>0, <1>1, <1>2, StakeEffect
<1>3. CASE \E amount \in Nat : Unstake(x, amount)
  BY <1>0, <1>1, <1>3, UnstakeEffect DEF StakeExists
<1>4. CASE \E e \in Epochs : SlashRouter(x, e)
  BY <1>0, <1>1, <1>4, SlashEffect DEF StakeExists
<1>5. CASE /\ ~ \E amount \in Nat : StakeCollateral(x, amount)
           /\ ~ \E amount \in Nat : Unstake(x, amount)
           /\ ~ \E e \in Epochs : SlashRouter(x, e)
  <2>1. stake'[x] = stake[x]
    BY <1>0, <1>5, StakeStep
  <2>2. ASSUME NEW k \in DeviceKeys, RegisterRouter(x, k)
        PROVE  router'[x].exists /\ router'[x].status = "Active"
    BY <1>0, <2>2, RegisterRouterEffect
  <2>3. ASSUME NEW k \in DeviceKeys, RotateDeviceKey(x, k)
        PROVE  router'[x].exists /\ router'[x].status = router[x].status
    BY <1>0, <2>3, RotateDeviceKeyEffect
  <2>4. ASSUME NEW k \in DeviceKeys, NEW e \in Epochs, Heartbeat(k, x, e)
        PROVE  router'[x].exists /\ router'[x].status # "Inactive"
    BY <1>0, <1>1, <2>4, HeartbeatEffect
  <2>5. ASSUME NEW e \in Epochs, ClaimReward(x, e)
        PROVE  /\ router'[x].exists = router[x].exists
               /\ router'[x].status = router[x].status
    BY <1>0, <2>5, ClaimRewardEffect
  <2>6. ASSUME ApplyPenalty(x) \/ ReinstateRouter(x) \/ DecommissionRouter(x)
        PROVE  router'[x].exists /\ router'[x].status # "Inactive"
    BY <1>0, <1>1, <2>6, ApplyPenaltyEffect, ReinstateRouterEffect, DecommissionRouterEffect
  <2> QED
    BY <1>0, <1>1, <1>5, <2>1, <2>2, <2>3, <2>4, <2>5, <2>6, RouterStep
<1> QED
  BY <1>2, <1>3, <1>4, <1>5

LEMMA OrderStep ==
  ASSUME ProgramInv, [Transaction]_vars
  PROVE  AccountsInOrder'
<1>0. TypeOK /\ AccountsInOrder
  BY InvParts
<1>1. protocol'.initialized => protocol'.genesis_time <= now'
  <2>1. CASE protocol.initialized
    <3>1. protocol.genesis_time \in Nat /\ protocol.genesis_time <= now /\ now \in Nat
      BY <1>0, <2>1, TypeParts DEF AccountsInOrder, ProtocolType
    <3> QED
      BY <1>0, <2>1, <3>1, ClockStep
  <2>2. CASE ~protocol.initialized
    <3>1. ASSUME NEW c \in Configs, InitializeProtocol(c)
          PROVE  protocol'.genesis_time = now /\ now' = now
      BY <1>0, <3>1, TypeParts DEF InitializeProtocol, NoProtocol
    <3>2. CASE \E c \in Configs : InitializeProtocol(c)
      BY <1>0, <3>1, <3>2, TypeParts
    <3>3. CASE ~ \E c \in Configs : InitializeProtocol(c)
      <4>1. ASSUME NEW r \in Routers, ByOperator(r) PROVE protocol' = protocol
        <5>1. ~Running
          BY <2>2 DEF Running
        <5>2. ASSUME NEW k \in DeviceKeys, RegisterRouter(r, k) \/ RotateDeviceKey(r, k)
              PROVE  protocol' = protocol
          BY <5>1, <5>2 DEF RegisterRouter, RotateDeviceKey
        <5>3. ASSUME NEW k \in DeviceKeys, NEW e \in Epochs, Heartbeat(k, r, e) PROVE FALSE
          BY <5>1, <5>3 DEF Heartbeat, MayHeartbeat
        <5>4. ASSUME NEW amount, StakeCollateral(r, amount) \/ Unstake(r, amount) PROVE FALSE
          BY <5>1, <5>4 DEF StakeCollateral, Unstake
        <5>5. ASSUME NEW e \in Epochs, ClaimReward(r, e) \/ ClaimVested(r, e) PROVE FALSE
          BY <5>1, <5>5 DEF ClaimReward, ClaimVested
        <5> QED
          BY <4>1, <5>2, <5>3, <5>4, <5>5 DEF ByOperator
      <4>2. ASSUME NEW r \in Routers PROVE ~Keeper(r)
        BY <2>2 DEF Keeper, FinalizeRouterEpoch, MayFinalize, SlashRouter, MaySlash, KeeperMayRun
      <4>3. ASSUME ByAuthority PROVE protocol' = protocol
        <5>1. ASSUME NEW w \in Wallets, NEW amount, MintGenesis(w, amount) PROVE FALSE
          BY <2>2, <5>1 DEF MintGenesis
        <5>2. ASSUME NEW amount, BurnTreasury(amount) PROVE FALSE
          BY <2>2, <5>2 DEF BurnTreasury
        <5>3. ~PauseProtocol /\ ~ResumeProtocol /\ \A rate \in Nat : ~UpdateRewardRate(rate)
          BY <2>2 DEF PauseProtocol, ResumeProtocol, UpdateRewardRate, Running
        <5>4. ASSUME NEW r \in Routers,
                     ApplyPenalty(r) \/ ReinstateRouter(r) \/ DecommissionRouter(r)
              PROVE  protocol' = protocol
          BY <5>4 DEF ApplyPenalty, ReinstateRouter, DecommissionRouter
        <5> QED
          BY <3>3, <4>3, <5>1, <5>2, <5>3, <5>4 DEF ByAuthority
      <4>4. ASSUME Environment \/ UNCHANGED vars PROVE protocol' = protocol
        BY <4>4 DEF Environment, Tick, HolderTransfer, vars
      <4> QED
        BY <2>2, <4>1, <4>2, <4>3, <4>4 DEF Transaction
    <3> QED
      BY <3>2, <3>3
  <2> QED
    BY <2>1, <2>2
<1>2. ASSUME NEW x \in Routers, NEW e \in Epochs
      PROVE  /\ repoch'[x][e].expected_heartbeats # 0 => protocol'.initialized
             /\ repoch'[x][e].finalized => repoch'[x][e].expected_heartbeats # 0
             /\ ~repoch'[x][e].finalized => /\ repoch'[x][e].reward_amount = 0
                                            /\ repoch'[x][e].slash_amount = 0
  <2>1. /\ repoch[x][e].expected_heartbeats # 0 => protocol.initialized
        /\ repoch[x][e].finalized => repoch[x][e].expected_heartbeats # 0
        /\ ~repoch[x][e].finalized => /\ repoch[x][e].reward_amount = 0
                                      /\ repoch[x][e].slash_amount = 0
        /\ protocol.initialized => protocol'.initialized
    BY <1>0, ClockStep DEF AccountsInOrder, EpochOpened
  <2>2. CASE repoch'[x][e] = repoch[x][e]
    BY <2>1, <2>2
  <2>3. CASE \E k \in DeviceKeys : Heartbeat(k, x, e)
    BY <2>1, <2>3, HeartbeatRecord
  <2>4. CASE FinalizeRouterEpoch(x, e)
    BY <1>0, <2>1, <2>4, FinalizeEffect DEF EpochOpened
  <2>5. CASE ClaimReward(x, e)
    BY <1>0, <2>1, <2>5, ClaimEffect
  <2>6. CASE SlashRouter(x, e)
    BY <1>0, <2>1, <2>6, SlashRecord
  <2> QED
    BY <1>0, <2>2, <2>3, <2>4, <2>5, <2>6, EpochStep
<1> QED
  BY <1>1, <1>2, RouterOrderStep DEF AccountsInOrder, StakeExists, EpochOpened

LEMMA WindowStep ==
  ASSUME ProgramInv, [Transaction]_vars
  PROVE  FinalizedAfterWindow'
<1>0. TypeOK /\ AccountsInOrder /\ FinalizedAfterWindow
  BY InvParts
<1> SUFFICES ASSUME NEW x \in Routers, NEW e \in Epochs
             PROVE  /\ repoch'[x][e].finalized => now' >= repoch'[x][e].end_time
                    /\ repoch'[x][e].expected_heartbeats # 0 =>
                         /\ repoch'[x][e].start_time =
                              EpochStart(protocol'.genesis_time, config'.epoch_duration, e)
                         /\ repoch'[x][e].end_time =
                              EpochEnd(protocol'.genesis_time, config'.epoch_duration, e)
  BY DEF FinalizedAfterWindow, EpochOpened
<1>1. /\ repoch[x][e].finalized => now >= repoch[x][e].end_time
      /\ repoch[x][e].expected_heartbeats # 0 =>
           /\ repoch[x][e].start_time =
                EpochStart(protocol.genesis_time, config.epoch_duration, e)
           /\ repoch[x][e].end_time =
                EpochEnd(protocol.genesis_time, config.epoch_duration, e)
           /\ config' = config /\ protocol'.genesis_time = protocol.genesis_time
  BY <1>0, ClockStep DEF FinalizedAfterWindow, AccountsInOrder, EpochOpened
<1>2. now' >= now /\ now \in Nat /\ now' \in Nat /\ repoch[x][e].end_time \in Int
  BY <1>0, ClockStep, TypeParts DEF RouterEpochType
<1>3. repoch[x][e].finalized => now' >= repoch[x][e].end_time
  BY <1>1, <1>2
<1>4. CASE repoch'[x][e] = repoch[x][e]
  BY <1>1, <1>3, <1>4
<1>5. CASE \E k \in DeviceKeys : Heartbeat(k, x, e)
  BY <1>5, HeartbeatRecord
<1>6. CASE FinalizeRouterEpoch(x, e)
  BY <1>0, <1>1, <1>2, <1>6, FinalizeEffect DEF EpochOpened
<1>7. CASE ClaimReward(x, e)
  BY <1>0, <1>1, <1>3, <1>7, ClaimEffect
<1>8. CASE SlashRouter(x, e)
  BY <1>0, <1>1, <1>3, <1>8, SlashRecord
<1> QED
  BY <1>0, <1>4, <1>5, <1>6, <1>7, <1>8, EpochStep

LEMMA ScoreStep ==
  ASSUME ProgramInv, [Transaction]_vars
  PROVE  ActiveAboveThreshold'
<1>0. TypeOK /\ ActiveAboveThreshold /\ AccountsInOrder
  BY InvParts
<1> SUFFICES ASSUME NEW x \in Routers, router'[x].exists, router'[x].status = "Active"
             PROVE  ~ShouldSuspend(router'[x].uptime_score)
  BY DEF ActiveAboveThreshold
<1>1. /\ router[x].exists /\ router[x].status = "Active" =>
           ~ShouldSuspend(router[x].uptime_score)
      /\ router[x].status # "Inactive" /\ router[x].status \in Statuses
  BY <1>0, TypeParts DEF ActiveAboveThreshold, AccountsInOrder, RouterType
<1>2. CASE router'[x] = router[x]
  BY <1>1, <1>2
<1>3. CASE \E k \in DeviceKeys : RegisterRouter(x, k)
  BY <1>0, <1>3, RegisterRouterEffect DEF ShouldSuspend, MAX_SCORE, SUSPENSION_THRESHOLD
<1>4. CASE \E k \in DeviceKeys : RotateDeviceKey(x, k)
  BY <1>0, <1>1, <1>4, RotateDeviceKeyEffect
<1>5. CASE \E k \in DeviceKeys, e \in Epochs : Heartbeat(k, x, e)
  <2>1. router[x].exists /\ router[x].status \notin {"Suspended", "Decommissioned"}
    BY <1>5 DEF Heartbeat, MayHeartbeat
  <2>2. router[x].status = "Active"
    BY <1>1, <2>1 DEF Statuses
  <2> QED
    BY <1>0, <1>1, <1>5, <2>1, <2>2, HeartbeatEffect
<1>6. CASE \E amount \in Nat : StakeCollateral(x, amount)
  BY <1>0, <1>1, <1>6, StakeEffect
<1>7. CASE \E amount \in Nat : Unstake(x, amount)
  BY <1>0, <1>1, <1>7, UnstakeEffect
<1>8. CASE \E e \in Epochs : ClaimReward(x, e) \/ SlashRouter(x, e)
  BY <1>0, <1>1, <1>8, ClaimRewardEffect, SlashEffect
<1>9. CASE ApplyPenalty(x)
  BY <1>0, <1>9, ApplyPenaltyEffect
<1>10. CASE ReinstateRouter(x)
  BY <1>0, <1>10, ReinstateRouterEffect
     DEF ShouldSuspend, REINSTATED_SCORE, SUSPENSION_THRESHOLD
<1>11. CASE DecommissionRouter(x)
  BY <1>0, <1>11, DecommissionRouterEffect
<1> QED
  BY <1>0, <1>2, <1>3, <1>4, <1>5, <1>6, <1>7, <1>8, <1>9, <1>10, <1>11, RouterStep

\* A new schedule starts with nothing allocated.
LEMMA OpenEmissionBounded ==
  ASSUME TypeOK, EmissionWithinBudget, NEW e \in Epochs, OpenEmission(e) \in EmissionType
  PROVE  OpenEmission(e).allocated <= OpenEmission(e).total_emission
<1> DEFINE budget == EpochEmission(config.initial_emission_per_epoch, e,
                       config.epochs_per_year, config.emission_decay_bps)
<1>1. CASE emission[e].created_at # 0
  BY <1>1 DEF OpenEmission, EmissionWithinBudget
<1>2. CASE emission[e].created_at = 0
  <2>1. OpenEmission(e) = [total_emission |-> budget, allocated |-> 0, created_at |-> now]
    BY <1>2 DEF OpenEmission
  <2> HIDE DEF budget
  <2>2. OpenEmission(e).allocated = 0 /\ OpenEmission(e).total_emission \in Nat
    BY <2>1 DEF EmissionType
  <2> QED
    BY <2>2
<1> QED
  BY <1>1, <1>2

LEMMA BudgetStep ==
  ASSUME ProgramInv, [Transaction]_vars
  PROVE  EmissionWithinBudget'
<1>0. TypeOK /\ EmissionWithinBudget
  BY InvParts
<1> SUFFICES ASSUME NEW e \in Epochs
             PROVE  emission'[e].allocated <= emission'[e].total_emission
  BY DEF EmissionWithinBudget
<1>1. CASE emission'[e] = emission[e]
  BY <1>0, <1>1 DEF EmissionWithinBudget
<1>2. ASSUME NEW x \in Routers, FinalizeRouterEpoch(x, e)
      PROVE  emission'[e].allocated <= emission'[e].total_emission
  <2> DEFINE em == OpenEmission(e)
             reward == repoch'[x][e].reward_amount
  <2>1. /\ em \in EmissionType /\ reward \in Nat /\ reward <= Remaining(em)
        /\ emission'[e].allocated = em.allocated + reward
        /\ emission'[e].total_emission = em.total_emission
    BY <1>0, <1>2, FinalizeEffect
  <2>2. em.allocated <= em.total_emission
    BY <1>0, <2>1, OpenEmissionBounded
  <2>3. em.allocated \in Nat /\ em.total_emission \in Nat
    <3> HIDE DEF em
    <3> QED
      BY <2>1 DEF EmissionType
  <2> HIDE DEF em, reward
  <2> QED
    BY <2>1, <2>2, <2>3 DEF Remaining, SaturatingSub
<1> QED
  BY <1>0, <1>1, <1>2, EmissionStep

LEMMA GrantStep ==
  ASSUME ProgramInv, [Transaction]_vars
  PROVE  GrantMatchesEpoch'
<1>0. TypeOK /\ GrantMatchesEpoch
  BY InvParts
<1> SUFFICES ASSUME NEW x \in Routers, NEW e \in Epochs
             PROVE  /\ repoch'[x][e].claimed <=> vesting'[x][e].total_amount # 0
                    /\ vesting'[x][e].total_amount # 0 =>
                         /\ repoch'[x][e].finalized
                         /\ vesting'[x][e].total_amount = repoch'[x][e].reward_amount
  BY DEF GrantMatchesEpoch, Granted
<1>1. /\ repoch[x][e].claimed <=> vesting[x][e].total_amount # 0
      /\ vesting[x][e].total_amount # 0 =>
           /\ repoch[x][e].finalized
           /\ vesting[x][e].total_amount = repoch[x][e].reward_amount
      /\ repoch[x][e].reward_amount \in Nat
  BY <1>0, TypeParts DEF GrantMatchesEpoch, Granted, RouterEpochType
<1>2. CASE ClaimReward(x, e)
  BY <1>0, <1>1, <1>2, ClaimEffect
<1>3. CASE ClaimVested(x, e)
  BY <1>0, <1>1, <1>3, ClaimVestedEffect
<1>4. CASE ~ClaimReward(x, e) /\ ~ClaimVested(x, e)
  <2>1. vesting'[x][e] = vesting[x][e]
    BY <1>0, <1>4, VestingStep
  <2>2. CASE repoch'[x][e] = repoch[x][e]
    BY <1>1, <2>1, <2>2
  <2>3. CASE \E k \in DeviceKeys : Heartbeat(k, x, e)
    BY <1>1, <2>1, <2>3, HeartbeatRecord
  <2>4. CASE FinalizeRouterEpoch(x, e)
    BY <1>0, <1>1, <2>1, <2>4, FinalizeEffect
  <2>5. CASE SlashRouter(x, e)
    BY <1>0, <1>1, <2>1, <2>5, SlashRecord
  <2> QED
    BY <1>0, <1>4, <2>2, <2>3, <2>4, <2>5, EpochStep
<1> QED
  BY <1>2, <1>3, <1>4

LEMMA VestedMonotone ==
  ASSUME NEW v \in VestingType, NEW t \in Nat, NEW u \in Nat, t <= u
  PROVE  Vested(v, t) <= Vested(v, u) /\ Vested(v, u) <= v.total_amount
<1>1. /\ v.total_amount \in Nat /\ v.start_time \in Nat
      /\ v.cliff_duration \in Int /\ v.vesting_duration \in Int
  BY DEF VestingType
<1> DEFINE a == v.total_amount
           b == v.start_time
           c == v.cliff_duration
           d == v.vesting_duration
<1>2. Vested(v, t) = VestedAmount(a, b, c, d, t) /\ Vested(v, u) = VestedAmount(a, b, c, d, u)
  BY DEF Vested
<1> HIDE DEF a, b, c, d
<1>3. /\ VestedAmount(a, b, c, d, t) <= VestedAmount(a, b, c, d, u)
      /\ VestedAmount(a, b, c, d, u) <= a
  <2>1. a \in Nat /\ b \in Nat /\ c \in Int /\ d \in Int
    BY <1>1 DEF a, b, c, d
  <2> QED
    BY <2>1, VestedAmountMonotone
<1> QED
  BY <1>2, <1>3 DEF a

LEMMA ReleaseStep ==
  ASSUME ProgramInv, [Transaction]_vars
  PROVE  ReleasedOnSchedule'
<1>0. TypeOK /\ ReleasedOnSchedule /\ TypeOK'
  BY InvParts, NextType
<1> SUFFICES ASSUME NEW x \in Routers, NEW e \in Epochs
             PROVE  vesting'[x][e].claimed_amount <= Vested(vesting'[x][e], now')
  BY DEF ReleasedOnSchedule, Vested
<1>1. /\ vesting[x][e] \in VestingType /\ vesting[x][e].claimed_amount \in Nat
      /\ now \in Nat /\ now' \in Nat /\ now <= now'
      /\ vesting[x][e].claimed_amount <= Vested(vesting[x][e], now)
  BY <1>0, TypeParts, ClockStep DEF VestingType, ReleasedOnSchedule
<1>2. vesting'[x][e] \in VestingType
  BY <1>0 DEF TypeOK
<1>3. CASE vesting'[x][e] = vesting[x][e]
  <2>1. /\ Vested(vesting[x][e], now) <= Vested(vesting[x][e], now')
        /\ Vested(vesting[x][e], now) \in Nat /\ Vested(vesting[x][e], now') \in Nat
    BY <1>1, VestedMonotone, VestedType
  <2> QED
    BY <1>1, <1>3, <2>1
<1>4. CASE ClaimReward(x, e)
  <2>1. vesting'[x][e].claimed_amount = 0
    BY <1>0, <1>4, ClaimEffect
  <2>2. Vested(vesting'[x][e], now') \in Nat
    BY <1>1, <1>2, VestedType
  <2> QED
    BY <2>1, <2>2
<1>5. CASE ClaimVested(x, e)
  <2>1. /\ now' = now
        /\ vesting'[x][e].claimed_amount = Vested(vesting[x][e], now)
        /\ Vested(vesting'[x][e], now) = Vested(vesting[x][e], now)
    BY <1>0, <1>5, ClaimVestedEffect DEF Vested
  <2>2. Vested(vesting[x][e], now) \in Nat
    BY <1>1, VestedType
  <2> QED
    BY <2>1, <2>2
<1> QED
  BY <1>0, <1>3, <1>4, <1>5, VestingStep

----------------------------------------------------------------------------
(* Safety theorems. *)

THEOREM InvInductive == ProgramInv /\ [Transaction]_vars => ProgramInv'
<1> SUFFICES ASSUME ProgramInv, [Transaction]_vars PROVE ProgramInv'
  OBVIOUS
<1>1. TypeOK'
  BY InvParts, NextType
<1> QED
  BY <1>1, OrderStep, WindowStep, MirrorStep, ScoreStep, BudgetStep, GrantStep, ReleaseStep
     DEF ProgramInv

THEOREM InvHolds == Spec => []ProgramInv
  BY InitInv, InvInductive, StepSends, PTL DEF Spec

\* Accounts come into being in order, and no router is ever Inactive.
THEOREM OrderSafe == Spec => []AccountsInOrder
<1>1. ProgramInv => AccountsInOrder
  BY DEF ProgramInv
<1> QED
  BY <1>1, InvHolds, PTL

\* Finalization never precedes the end of the window of the epoch's own number.
THEOREM WindowSafe == Spec => []FinalizedAfterWindow
<1>1. ProgramInv => FinalizedAfterWindow
  BY DEF ProgramInv
<1> QED
  BY <1>1, InvHolds, PTL

\* The mirror that gates heartbeats always equals the collateral position.
THEOREM MirrorSafe == Spec => []MirrorInSync
<1>1. ProgramInv => MirrorInSync
  BY DEF ProgramInv
<1> QED
  BY <1>1, InvHolds, PTL

\* No registered router stays Active at or below the suspension threshold.
THEOREM ScoreSafe == Spec => []ActiveAboveThreshold
<1>1. ProgramInv => ActiveAboveThreshold
  BY DEF ProgramInv
<1> QED
  BY <1>1, InvHolds, PTL

\* No order of finalizations allocates more than an epoch's budget.
THEOREM BudgetSafe == Spec => []EmissionWithinBudget
<1>1. ProgramInv => EmissionWithinBudget
  BY DEF ProgramInv
<1> QED
  BY <1>1, InvHolds, PTL

\* A right to mint exists exactly for a claimed epoch, for the amount locked in.
THEOREM GrantSafe == Spec => []GrantMatchesEpoch
<1>1. ProgramInv => GrantMatchesEpoch
  BY DEF ProgramInv
<1> QED
  BY <1>1, InvHolds, PTL

\* Releases never run ahead of the vesting schedule.
THEOREM ReleaseSafe == Spec => []ReleasedOnSchedule
<1>1. ProgramInv => ReleasedOnSchedule
  BY DEF ProgramInv
<1> QED
  BY <1>1, InvHolds, PTL

----------------------------------------------------------------------------
(* What a step may never do. *)

LEMMA FinalizeUnfrozen ==
  ASSUME ProgramInv, [Transaction]_vars, NEW x \in Routers, NEW e \in Epochs
  PROVE  EpochFrozen(x, e)
<1>0. TypeOK
  BY InvParts
<1>1. CASE repoch'[x][e] = repoch[x][e]
  BY <1>1 DEF EpochFrozen
<1>2. CASE \E k \in DeviceKeys : Heartbeat(k, x, e)
  BY <1>2, HeartbeatRecord DEF EpochFrozen
<1>3. CASE FinalizeRouterEpoch(x, e)
  BY <1>0, <1>3, FinalizeEffect DEF EpochFrozen
<1>4. CASE ClaimReward(x, e)
  BY <1>0, <1>4, ClaimEffect DEF EpochFrozen
<1>5. CASE SlashRouter(x, e)
  BY <1>0, <1>5, SlashRecord DEF EpochFrozen
<1> QED
  BY <1>0, <1>1, <1>2, <1>3, <1>4, <1>5, EpochStep

\* What finalization measured and fixed is never rewritten.
THEOREM FrozenSafe == Spec => FrozenAfterFinalize
<1>1. ProgramInv /\ [Transaction]_vars => [\A r \in Routers, e \in Epochs : EpochFrozen(r, e)]_vars
  BY FinalizeUnfrozen
<1> QED
  BY <1>1, InvHolds, StepSends, PTL DEF Spec, FrozenAfterFinalize

LEMMA DebitJustified ==
  ASSUME ProgramInv, [Transaction]_vars, NEW x \in Routers
  PROVE  CollateralDebit(x)
<1>0. TypeOK /\ stake[x].amount \in Nat
  BY InvParts, TypeParts DEF StakeType
<1>1. CASE stake'[x] = stake[x]
  BY <1>0, <1>1 DEF CollateralDebit
<1>2. ASSUME NEW amount \in Nat, StakeCollateral(x, amount) PROVE CollateralDebit(x)
  <2>1. /\ amount \in Nat /\ amount > 0
        /\ stake'[x].amount = stake[x].amount + amount
        /\ stake'[x].locked_until = now + config.stake_lock_duration
    BY <1>0, <1>2, StakeEffect, RouterPulseAssumption
  <2> QED
    BY <1>0, <2>1 DEF CollateralDebit
<1>3. ASSUME NEW amount \in Nat, Unstake(x, amount) PROVE CollateralDebit(x)
  <2>1. /\ amount \in Nat /\ amount > 0
        /\ stake'[x].amount = stake[x].amount - amount
        /\ stake'[x].locked_until = stake[x].locked_until
        /\ now >= stake[x].locked_until
    BY <1>0, <1>3, UnstakeEffect, RouterPulseAssumption
  <2> QED
    BY <1>0, <2>1 DEF CollateralDebit
<1>4. ASSUME NEW e \in Epochs, SlashRouter(x, e) PROVE CollateralDebit(x)
  <2>1. /\ repoch'[x][e].slashed /\ ~repoch[x][e].slashed
        /\ stake'[x].amount \in Nat /\ stake'[x].amount < stake[x].amount
        /\ stake[x].amount - stake'[x].amount <= repoch[x][e].slash_amount
        /\ stake'[x].locked_until = stake[x].locked_until
    BY <1>0, <1>4, SlashEffect, SlashRecord
  <2> QED
    BY <1>0, <2>1 DEF CollateralDebit
<1> QED
  BY <1>0, <1>1, <1>2, <1>3, <1>4, StakeStep

\* Collateral leaves a position only by a newly executed slash or after its lock.
THEOREM DebitSafe == Spec => CollateralDebits
<1>1. ProgramInv /\ [Transaction]_vars => [\A r \in Routers : CollateralDebit(r)]_vars
  BY DebitJustified
<1> QED
  BY <1>1, InvHolds, StepSends, PTL DEF Spec, CollateralDebits

LEMMA StaysRetired ==
  ASSUME ProgramInv, [Transaction]_vars, NEW x \in Routers
  PROVE  Retired(x)
<1>0. TypeOK /\ AccountsInOrder
  BY InvParts
<1> SUFFICES ASSUME router[x].status = "Decommissioned"
             PROVE  /\ router'[x].status = "Decommissioned"
                    /\ router'[x].heartbeat_count = router[x].heartbeat_count
                    /\ \A e \in Epochs :
                         vesting'[x][e].total_amount # 0 => vesting[x][e].total_amount # 0
  BY DEF Retired, Granted
<1>1. router[x].exists
  BY <1>0 DEF AccountsInOrder
<1>2. ASSUME NEW e \in Epochs, vesting'[x][e].total_amount # 0
      PROVE  vesting[x][e].total_amount # 0
  BY <1>0, <1>2, VestingStep, ClaimEffect, ClaimVestedEffect
<1>3. ASSUME NEW k \in DeviceKeys PROVE ~RegisterRouter(x, k)
  BY <1>1 DEF RegisterRouter
<1>4. ASSUME NEW k \in DeviceKeys, NEW e \in Epochs PROVE ~Heartbeat(k, x, e)
  BY DEF Heartbeat, MayHeartbeat
<1>5. ASSUME NEW k \in DeviceKeys, RotateDeviceKey(x, k)
      PROVE  /\ router'[x].status = router[x].status
             /\ router'[x].heartbeat_count = router[x].heartbeat_count
  BY <1>0, <1>5, RotateDeviceKeyEffect
<1>6. ASSUME NEW amount \in Nat, StakeCollateral(x, amount)
      PROVE  /\ router'[x].status = router[x].status
             /\ router'[x].heartbeat_count = router[x].heartbeat_count
  BY <1>0, <1>6, StakeEffect
<1>7. ASSUME NEW amount \in Nat, Unstake(x, amount)
      PROVE  /\ router'[x].status = router[x].status
             /\ router'[x].heartbeat_count = router[x].heartbeat_count
  BY <1>0, <1>7, UnstakeEffect
<1>8. ASSUME NEW e \in Epochs, SlashRouter(x, e)
      PROVE  /\ router'[x].status = router[x].status
             /\ router'[x].heartbeat_count = router[x].heartbeat_count
  BY <1>0, <1>8, SlashEffect
<1>9. /\ \A e \in Epochs : ~ClaimReward(x, e)
      /\ ~ApplyPenalty(x) /\ ~ReinstateRouter(x) /\ ~DecommissionRouter(x)
  BY DEF ClaimReward, ApplyPenalty, MayPenalize, ReinstateRouter, MayReinstate, DecommissionRouter
<1> QED
  BY <1>0, <1>2, <1>3, <1>4, <1>5, <1>6, <1>7, <1>8, <1>9, RouterStep

\* A decommissioned router never heartbeats, earns or comes back.
THEOREM RetiredSafe == Spec => DecommissionedIsFinal
<1>1. ProgramInv /\ [Transaction]_vars => [\A r \in Routers : Retired(r)]_vars
  BY StaysRetired
<1> QED
  BY <1>1, InvHolds, StepSends, PTL DEF Spec, DecommissionedIsFinal

LEMMA CountedInside ==
  ASSUME ProgramInv, [Transaction]_vars, NEW x \in Routers, NEW e \in Epochs
  PROVE  HeartbeatCounted(x, e)
<1>0. TypeOK /\ AccountsInOrder /\ MirrorInSync
  BY InvParts
<1>1. ASSUME NEW k \in DeviceKeys, Heartbeat(k, x, e) PROVE HeartbeatCounted(x, e)
  <2> DEFINE g == protocol.genesis_time
             d == config.epoch_duration
  <2>1. /\ e = EpochNumberAt(g, d, now)
        /\ router[x].staked_amount >= config.min_stake
    BY <1>1 DEF Heartbeat, MayHeartbeat, CurrentEpoch
  <2>2. /\ repoch'[x][e].start_time = EpochStart(g, d, e)
        /\ repoch'[x][e].end_time = EpochEnd(g, d, e)
        /\ protocol.initialized
    BY <1>1, HeartbeatRecord
  <2>3. /\ g \in Nat /\ g <= now /\ now \in Nat
    BY <1>0, <2>2, TypeParts DEF AccountsInOrder, ProtocolType
  <2>4. d \in Nat \ {0}
    <3>1. /\ config.epoch_duration \in Int /\ config.heartbeat_interval \in Int
          /\ config.heartbeat_interval >= 60
          /\ config.epoch_duration >= config.heartbeat_interval * 2
      BY <1>0, <2>2 DEF TypeOK, ConfigType, ValidConfig, MIN_HEARTBEATS_PER_EPOCH
    <3> QED
      BY <3>1
  <2>5. stake[x].amount >= config.min_stake
    BY <1>0, <2>1 DEF MirrorInSync
  <2> HIDE DEF g, d
  <2>6. EpochStart(g, d, e) <= now /\ now < EpochEnd(g, d, e)
    BY <2>1, <2>3, <2>4, EpochContainsNow
  <2> QED
    BY <2>2, <2>5, <2>6 DEF HeartbeatCounted
<1>2. CASE repoch'[x][e].heartbeats = repoch[x][e].heartbeats
  BY <1>2 DEF HeartbeatCounted
<1> QED
  BY <1>0, <1>1, <1>2, EpochStep, FinalizeEffect, ClaimEffect, SlashRecord

\* A heartbeat is only ever counted in the epoch the clock is in, for a router
\* whose collateral meets the minimum.
THEOREM WindowedHeartbeats == Spec => HeartbeatsInWindow
<1>1. ProgramInv /\ [Transaction]_vars => [\A r \in Routers, e \in Epochs : HeartbeatCounted(r, e)]_vars
  BY CountedInside
<1> QED
  BY <1>1, InvHolds, StepSends, PTL DEF Spec, HeartbeatsInWindow

----------------------------------------------------------------------------
(* The reward side implements RewardIssuance. *)

\* A finalization touches one record and one schedule.
LEMMA FinalizeOthers ==
  ASSUME TypeOK, NEW x \in Routers, NEW e \in Epochs, FinalizeRouterEpoch(x, e)
  PROVE  /\ \A f \in Epochs \ {e} : emission'[f] = emission[f]
         /\ \A r \in Routers, f \in Epochs :
              r # x \/ f # e => repoch'[r][f] = repoch[r][f]
<1>1. emission' = [emission EXCEPT ![e] = emission'[e]]
  BY TypeParts DEF FinalizeRouterEpoch
<1>2. repoch' = [repoch EXCEPT ![x][e] = repoch'[x][e]]
  BY TypeParts DEF FinalizeRouterEpoch
<1> QED
  BY <1>1, <1>2, TypeParts

\* A schedule that was open pays the reward out of what it still holds.
LEMMA FinalizePool ==
  ASSUME ProgramInv, NEW x \in Routers, NEW e \in Epochs, FinalizeRouterEpoch(x, e)
  PROVE  /\ emission'[e].created_at # 0
         /\ emission'[e].total_emission - emission'[e].allocated \in Nat
         /\ emission[e].created_at # 0 =>
              emission'[e].total_emission - emission'[e].allocated
                + repoch'[x][e].reward_amount
                = emission[e].total_emission - emission[e].allocated
<1> DEFINE em == OpenEmission(e)
           reward == repoch'[x][e].reward_amount
<1>0. TypeOK /\ EmissionWithinBudget
  BY InvParts
<1>1. /\ em \in EmissionType /\ reward \in Nat /\ reward <= Remaining(em)
      /\ emission'[e].allocated = em.allocated + reward
      /\ emission'[e].total_emission = em.total_emission
      /\ emission'[e].created_at = em.created_at
  BY <1>0, FinalizeEffect
<1>2. em.allocated <= em.total_emission
  BY <1>0, <1>1, OpenEmissionBounded
<1>3. em.created_at # 0
  <2>1. CASE emission[e].created_at # 0
    BY <2>1 DEF OpenEmission
  <2>2. CASE emission[e].created_at = 0
    BY <1>0, <2>2, TypeParts DEF OpenEmission
  <2> QED
    BY <2>1, <2>2
<1>4. emission[e].created_at # 0 => em = emission[e]
  BY DEF OpenEmission
<1> HIDE DEF em, reward
<1>5. em.allocated \in Nat /\ em.total_emission \in Nat
  BY <1>1 DEF EmissionType
<1>6. reward <= em.total_emission - em.allocated
  BY <1>1, <1>2, <1>5 DEF Remaining, SaturatingSub
<1> QED
  BY <1>1, <1>2, <1>3, <1>4, <1>5, <1>6 DEF reward

\* Nothing is taken from a right before it is granted, nor beyond its amount.
LEMMA ReleasedBounded ==
  ASSUME ProgramInv, NEW x \in Routers, NEW e \in Epochs
  PROVE  /\ vesting[x][e].claimed_amount \in Nat
         /\ vesting[x][e].total_amount \in Nat
         /\ Vested(vesting[x][e], now) \in Nat
         /\ vesting[x][e].claimed_amount <= Vested(vesting[x][e], now)
         /\ Vested(vesting[x][e], now) <= vesting[x][e].total_amount
<1>1. TypeOK /\ ReleasedOnSchedule
  BY InvParts
<1>2. vesting[x][e] \in VestingType /\ now \in Nat
  BY <1>1, TypeParts
<1>3. /\ Vested(vesting[x][e], now) \in Nat
      /\ Vested(vesting[x][e], now) <= vesting[x][e].total_amount
  BY <1>2, VestedType, VestedMonotone
<1> QED
  BY <1>1, <1>2, <1>3 DEF ReleasedOnSchedule, VestingType

LEMMA IssuanceInit ==
  ASSUME Unused
  PROVE  Issuance!Init
<1>1. \A e \in Epochs : /\ emission[e].created_at = 0
                        /\ emission[e].total_emission - emission[e].allocated = 0
  BY DEF Unused, NoEmission
<1>2. \A r \in Routers, e \in Epochs :
        /\ repoch[r][e].finalized = FALSE /\ repoch[r][e].reward_amount = 0
        /\ vesting[r][e].claimed_amount = 0
  BY DEF Unused, NoRouterEpoch, NoVesting
<1>3. /\ [e \in Epochs |-> emission[e].created_at # 0] = [e \in Epochs |-> FALSE]
      /\ [e \in Epochs |-> emission[e].total_emission - emission[e].allocated]
           = [e \in Epochs |-> 0]
  BY <1>1
<1>4. \A r \in Routers :
        /\ [e \in Epochs |-> repoch[r][e].finalized] = [e \in Epochs |-> FALSE]
        /\ [e \in Epochs |-> repoch[r][e].reward_amount] = [e \in Epochs |-> 0]
        /\ [e \in Epochs |-> vesting[r][e].claimed_amount] = [e \in Epochs |-> 0]
  BY <1>2
<1> QED
  BY <1>3, <1>4, Zenon DEF Issuance!Init

\* A finalization locks the reward in and takes it out of the pool.
LEMMA FinalizeLocks ==
  ASSUME ProgramInv, NEW x \in Routers, NEW e \in Epochs, FinalizeRouterEpoch(x, e)
  PROVE  Issuance!Lock(x, e)
<1> DEFINE opened == [f \in Epochs |-> emission[f].created_at # 0]
           pool == [f \in Epochs |-> emission[f].total_emission - emission[f].allocated]
           locked == [r \in Routers |-> [f \in Epochs |-> repoch[r][f].finalized]]
           award == [r \in Routers |-> [f \in Epochs |-> repoch[r][f].reward_amount]]
           minted == [r \in Routers |-> [f \in Epochs |-> vesting[r][f].claimed_amount]]
<1>0. TypeOK
  BY InvParts
<1>1. /\ ~repoch[x][e].finalized /\ repoch'[x][e].finalized
      /\ repoch'[x][e].reward_amount \in Nat
      /\ UNCHANGED vesting
  BY <1>0, FinalizeEffect
<1>2. /\ \A f \in Epochs \ {e} : emission'[f] = emission[f]
      /\ \A r \in Routers, f \in Epochs : r # x \/ f # e => repoch'[r][f] = repoch[r][f]
  BY <1>0, FinalizeOthers
<1>3. /\ emission'[e].created_at # 0
      /\ emission'[e].total_emission - emission'[e].allocated \in Nat
      /\ emission[e].created_at # 0 =>
           emission'[e].total_emission - emission'[e].allocated
             + repoch'[x][e].reward_amount
             = emission[e].total_emission - emission[e].allocated
  BY FinalizePool
<1>4. ~locked[x][e]
  BY <1>1
<1>5. pool'[e] \in Nat /\ award'[x][e] \in Nat
  BY <1>1, <1>3
<1>6. opened[e] => pool'[e] + award'[x][e] = pool[e]
  BY <1>3
<1>7. opened' = [opened EXCEPT ![e] = TRUE]
  BY <1>2, <1>3
<1>8. locked' = [locked EXCEPT ![x][e] = TRUE]
  <2>1. \A r \in Routers \ {x} : locked'[r] = locked[r]
    BY <1>2
  <2>2. locked'[x] = [locked[x] EXCEPT ![e] = TRUE]
    BY <1>1, <1>2
  <2> QED
    BY <2>1, <2>2
<1>9. pool' = [pool EXCEPT ![e] = pool'[e]]
  BY <1>2
<1>10. award' = [award EXCEPT ![x][e] = award'[x][e]]
  <2>1. \A r \in Routers \ {x} : award'[r] = award[r]
    BY <1>2
  <2>2. award'[x] = [award[x] EXCEPT ![e] = award'[x][e]]
    BY <1>2
  <2> QED
    BY <2>1, <2>2
<1>11. minted' = minted
  BY <1>1
<1> QED
  BY <1>4, <1>5, <1>6, <1>7, <1>8, <1>9, <1>10, <1>11 DEF Issuance!Lock

\* A release mints against the award, and never beyond it.
LEMMA ReleaseMints ==
  ASSUME ProgramInv, NEW x \in Routers, NEW e \in Epochs, ClaimVested(x, e)
  PROVE  Issuance!Mint(x, e)
<1> DEFINE opened == [f \in Epochs |-> emission[f].created_at # 0]
           pool == [f \in Epochs |-> emission[f].total_emission - emission[f].allocated]
           locked == [r \in Routers |-> [f \in Epochs |-> repoch[r][f].finalized]]
           award == [r \in Routers |-> [f \in Epochs |-> repoch[r][f].reward_amount]]
           minted == [r \in Routers |-> [f \in Epochs |-> vesting[r][f].claimed_amount]]
<1>0. TypeOK /\ GrantMatchesEpoch
  BY InvParts
<1>1. /\ Granted(x, e)
      /\ vesting[x][e].claimed_amount < Vested(vesting[x][e], now)
      /\ vesting'[x][e].claimed_amount = Vested(vesting[x][e], now)
      /\ UNCHANGED <<repoch, emission>>
  BY <1>0, ClaimVestedEffect
<1>2. \A r \in Routers, f \in Epochs : r # x \/ f # e => vesting'[r][f] = vesting[r][f]
  <2>1. vesting' = [vesting EXCEPT ![x][e] = vesting'[x][e]]
    BY <1>0, TypeParts DEF ClaimVested
  <2> QED
    BY <1>0, <2>1, TypeParts
<1>3. repoch[x][e].finalized /\ vesting[x][e].total_amount = repoch[x][e].reward_amount
  BY <1>0, <1>1 DEF GrantMatchesEpoch
<1>4. /\ Vested(vesting[x][e], now) \in Nat
      /\ Vested(vesting[x][e], now) <= vesting[x][e].total_amount
  BY ReleasedBounded
<1>5. locked[x][e]
  BY <1>3
<1>6. /\ minted'[x][e] \in Nat
      /\ minted[x][e] < minted'[x][e] /\ minted'[x][e] <= award[x][e]
  BY <1>1, <1>3, <1>4
<1>7. minted' = [minted EXCEPT ![x][e] = minted'[x][e]]
  <2>1. \A r \in Routers \ {x} : minted'[r] = minted[r]
    BY <1>2
  <2>2. minted'[x] = [minted[x] EXCEPT ![e] = minted'[x][e]]
    BY <1>2
  <2> QED
    BY <2>1, <2>2
<1>8. opened' = opened /\ pool' = pool /\ locked' = locked /\ award' = award
  BY <1>1
<1> QED
  BY <1>5, <1>6, <1>7, <1>8 DEF Issuance!Mint

\* Every other step leaves the pools, the awards and the minted amounts alone.
LEMMA OthersStutter ==
  ASSUME ProgramInv, [Transaction]_vars,
         \A x \in Routers, e \in Epochs : ~FinalizeRouterEpoch(x, e) /\ ~ClaimVested(x, e)
  PROVE  UNCHANGED Issuance!vars
<1> DEFINE opened == [f \in Epochs |-> emission[f].created_at # 0]
           pool == [f \in Epochs |-> emission[f].total_emission - emission[f].allocated]
           locked == [r \in Routers |-> [f \in Epochs |-> repoch[r][f].finalized]]
           award == [r \in Routers |-> [f \in Epochs |-> repoch[r][f].reward_amount]]
           minted == [r \in Routers |-> [f \in Epochs |-> vesting[r][f].claimed_amount]]
<1>0. TypeOK
  BY InvParts
<1>1. \A e \in Epochs : emission'[e] = emission[e]
  BY <1>0, EmissionStep
<1>2. ASSUME NEW x \in Routers, NEW e \in Epochs
      PROVE  /\ repoch'[x][e].finalized = repoch[x][e].finalized
             /\ repoch'[x][e].reward_amount = repoch[x][e].reward_amount
             /\ vesting'[x][e].claimed_amount = vesting[x][e].claimed_amount
  <2>1. /\ repoch[x][e].finalized \in BOOLEAN /\ repoch'[x][e].finalized \in BOOLEAN
    <3>1. TypeOK'
      BY <1>0, NextType
    <3> QED
      BY <1>0, <3>1 DEF TypeOK, RouterEpochType
  <2>2. CASE \E k \in DeviceKeys : Heartbeat(k, x, e)
    BY <2>1, <2>2, HeartbeatRecord
  <2>3. CASE ClaimReward(x, e)
    <3>1. /\ vesting[x][e].total_amount = 0 /\ vesting'[x][e].claimed_amount = 0
          /\ repoch'[x][e].reward_amount = repoch[x][e].reward_amount
          /\ repoch[x][e].finalized /\ repoch'[x][e].finalized
      BY <1>0, <2>3, ClaimEffect
    <3>2. vesting[x][e].claimed_amount = 0
      BY <3>1, ReleasedBounded
    <3> QED
      BY <2>1, <3>1, <3>2
  <2>4. CASE SlashRouter(x, e)
    BY <1>0, <2>1, <2>4, SlashRecord
  <2>5. CASE repoch'[x][e] = repoch[x][e] /\ ~ClaimReward(x, e)
    BY <1>0, <2>5, VestingStep
  <2> QED
    BY <1>0, <2>2, <2>3, <2>4, <2>5, EpochStep
<1>3. opened' = opened /\ pool' = pool
  BY <1>1
<1>4. \A r \in Routers : locked'[r] = locked[r] /\ award'[r] = award[r] /\ minted'[r] = minted[r]
  BY <1>2
<1>5. locked' = locked /\ award' = award /\ minted' = minted
  BY <1>4
<1> QED
  BY <1>3, <1>5 DEF Issuance!vars

\* Any transaction issues rewards as RewardIssuance does, or leaves them alone.
THEOREM IssuanceStep ==
  ProgramInv /\ [Transaction]_vars => [Issuance!Next]_(Issuance!vars)
<1> SUFFICES ASSUME ProgramInv, [Transaction]_vars PROVE [Issuance!Next]_(Issuance!vars)
  OBVIOUS
<1>1. CASE \E x \in Routers, e \in Epochs : FinalizeRouterEpoch(x, e)
  BY <1>1, FinalizeLocks DEF Issuance!Next
<1>2. CASE \E x \in Routers, e \in Epochs : ClaimVested(x, e)
  BY <1>2, ReleaseMints DEF Issuance!Next
<1>3. CASE \A x \in Routers, e \in Epochs : ~FinalizeRouterEpoch(x, e) /\ ~ClaimVested(x, e)
  BY <1>3, OthersStutter
<1> QED
  BY <1>1, <1>2, <1>3

\* Whatever the clock, the scores, the collateral and the governance do, rewards
\* are issued as RewardIssuance says: one pool per epoch, one award per router and
\* epoch out of it, no token minted beyond an award.
THEOREM IssuanceRefined == Spec => ImplementsIssuance
<1>1. Init => Issuance!Init
  BY IssuanceInit DEF Init, Unused
<1> QED
  BY <1>1, IssuanceStep, InvHolds, StepSends, PTL DEF Spec, ImplementsIssuance, Issuance!Spec
=============================================================================
