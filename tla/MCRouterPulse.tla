--------------------------- MODULE MCRouterPulse ---------------------------
(***************************************************************************)
(* Small instances of RouterPulse: deployments, and a starting point where *)
(* everyone has registered and staked, a state the program reaches.        *)
(***************************************************************************)
EXTENDS RouterPulse

CONSTANTS r1, r2, alice, bob

MCOwnerOf == [r \in Routers |-> IF r = r1 THEN alice ELSE bob]

\* r1 and its owner may be exchanged with r2 and its owner.
Swap ==
  {[m \in {r1, r2, alice, bob} |-> m],
   [m \in {r1, r2, alice, bob} |->
      CASE m = r1 -> r2 [] m = r2 -> r1 [] m = alice -> bob [] m = bob -> alice]}

\* The smallest timing the program accepts: a heartbeat a minute, two a full
\* epoch.  A perfect epoch earns 120; the budget of 150 cannot pay it twice, and
\* decays to 120 in epoch 1.
Base ==
  [reward_rate |-> 1, penalty_bps |-> 10000, heartbeat_interval |-> 60,
   epoch_duration |-> 120, min_stake |-> 10, stake_lock_duration |-> 60,
   reward_cliff_duration |-> 60, reward_vesting_duration |-> 120,
   initial_emission_per_epoch |-> 150, epochs_per_year |-> 1,
   emission_decay_bps |-> 8000, genesis_allocation |-> 20]

\* A configuration each check of initialize_protocol rejects, beside Base.
Deployments ==
  {Base, [Base EXCEPT !.reward_rate = 0], [Base EXCEPT !.penalty_bps = 10001],
   [Base EXCEPT !.heartbeat_interval = 59], [Base EXCEPT !.epoch_duration = 119],
   [Base EXCEPT !.emission_decay_bps = 0], [Base EXCEPT !.reward_cliff_duration = 121]}

\* No minimum stake: routers live without collateral, so a run can follow scores.
Uncollateralized == {[Base EXCEPT !.min_stake = 0]}
AllConfigs == Deployments \cup Uncollateralized

----------------------------------------------------------------------------
FirstKey == CHOOSE k \in DeviceKeys : TRUE

StartedInit ==
  LET routers == Cardinality(Routers) IN
  /\ now = StartTime
  /\ config = [Base EXCEPT !.genesis_allocation = 20 * routers]
  /\ protocol = [NoProtocol EXCEPT !.initialized = TRUE, !.genesis_time = StartTime,
       !.reward_rate = Base.reward_rate, !.total_routers = routers,
       !.genesis_minted = 20 * routers, !.total_minted = 20 * routers,
       !.total_staked = 10 * routers]
  /\ router = [r \in Routers |->
       [NoRouter EXCEPT !.exists = TRUE, !.device_pubkey = FirstKey,
          !.last_heartbeat = StartTime, !.uptime_score = MAX_SCORE,
          !.staked_amount = 10]]
  /\ stake = [r \in Routers |-> [amount |-> 10, total_slashed |-> 0,
       locked_until |-> StartTime + Base.stake_lock_duration,
       created_at |-> StartTime]]
  /\ repoch = [r \in Routers |-> [e \in Epochs |-> NoRouterEpoch]]
  /\ emission = [e \in Epochs |-> NoEmission]
  /\ vesting = [r \in Routers |-> [e \in Epochs |-> NoVesting]]
  /\ vault = 10 * routers /\ treasury = 0
  /\ wallet = [w \in Wallets |-> 10]

Beats(r) == \E k \in DeviceKeys, e \in Epochs : Heartbeat(k, r, e)
Claims(r) == \E e \in Epochs : ClaimReward(r, e) \/ ClaimVested(r, e)
ClockTicks == \E d \in TickSteps : Tick(d)

SettlementNext ==
  \/ \E r \in Routers :
       \/ Beats(r) \/ Claims(r) \/ Keeper(r) \/ DecommissionRouter(r)
       \/ \E amount \in UnstakeAmounts : Unstake(r, amount)
  \/ PauseProtocol \/ ResumeProtocol
  \/ ClockTicks
SettlementSpec ==
  StartedInit /\ [][SettlementNext]_vars /\ KeeperFairness /\ ClaimFairness
============================================================================
