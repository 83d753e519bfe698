---------------------------- MODULE ScriptsProofs ----------------------------
(***************************************************************************)
(* What a script may report, whenever it is launched and whatever is       *)
(* refused, lost or done by somebody else on the way.  (That nothing is    *)
(* refused without a disturbance speaks of ENABLED and is left to TLC.)    *)
(***************************************************************************)
EXTENDS Scripts, RouterPulseLedger, SequenceTheorems

----------------------------------------------------------------------------
(* The calls by their places. *)

Opening == {"initialize", "fetch", "genesis", "register", "register_bad", "gate",
            "stake", "stake_bad", "read_epoch"}

LEMMA LifecycleCalls ==
  /\ Len(Lifecycle) = 29
  /\ Lifecycle[25] = "resume" /\ Lifecycle[26] = "raise" /\ Lifecycle[27] = "audit"
  /\ Lifecycle[28] = "restore" /\ Lifecycle[29] = "unstake"
BY DEF Lifecycle, Bootstrap, Onboard, Collateral, Performance, Closing, Claiming,
       Slashing, Recovery, Govern

LEMMA LifecycleOpening == \A n \in 1 .. 8 : Lifecycle[n] \in Opening
BY DEF Lifecycle, Bootstrap, Onboard, Collateral, Performance, Closing, Claiming,
       Slashing, Recovery, Govern, Opening

LEMMA SeedCalls ==
  /\ Len(Seed) = 8 /\ Seed[6] = "beat" /\ Seed[7] = "beat" /\ Seed[8] = "finalize"
  /\ \A n \in 1 .. 5 : Seed[n] \in Opening
BY DEF Seed, SeedStart, Opening

LEMMA OperatorOpening == \A n \in 1 .. 5 : OperatorFlow[n] \in Opening
BY DEF OperatorFlow, OperatorStart, OperatorBeats, OperatorPaid, Opening

LEMMA OperatorCalls ==
  /\ Len(OperatorFlow) = 13
  /\ \A n \in 1 .. 13 : OperatorFlow[n] # "paused" /\ (OperatorFlow[n] = "rotate" => n = 11)
BY DEF OperatorFlow, OperatorStart, OperatorBeats, OperatorPaid

\* The first call that names the epoch the script has read.
Opened(script) == IF script = "lifecycle" THEN 9 ELSE 6

LEMMA ReadCalls ==
  Lifecycle[8] = "read_epoch" /\ Seed[5] = "read_epoch" /\ OperatorFlow[5] = "read_epoch"
BY DEF Lifecycle, Bootstrap, Onboard, Collateral, Performance, Closing, Claiming,
       Slashing, Recovery, Govern, Seed, SeedStart,
       OperatorFlow, OperatorStart, OperatorBeats, OperatorPaid

LEMMA OpeningCalls ==
  ASSUME NEW script \in {"lifecycle", "seed", "verify"},
         NEW n \in Nat \ {0}, n < Opened(script)
  PROVE  Calls(script)[n] \in Opening
PROOF
  <1>1. CASE script = "lifecycle"
    <2>1. n \in 1 .. 8 /\ Calls(script) = Lifecycle
      BY <1>1 DEF Opened, Calls
    <2> QED
      BY <2>1, LifecycleOpening
  <1>2. CASE script = "seed"
    <2>1. n \in 1 .. 5 /\ Calls(script) = Seed
      BY <1>2 DEF Opened, Calls
    <2> QED
      BY <2>1, SeedCalls
  <1>3. CASE script = "verify"
    <2>1. n \in 1 .. 5 /\ Calls(script) = OperatorFlow
      BY <1>3 DEF Opened, Calls
    <2> QED
      BY <2>1, OperatorOpening
  <1> QED
    BY <1>1, <1>2, <1>3

----------------------------------------------------------------------------
(* The invariant. *)

RunFields == {"script", "at", "epoch", "wake", "seen", "failed", "exit", "disturbed"}

\* A run is a record of these fields; some hold what a script has read.
IsARun(x) == x = [f \in RunFields |-> x[f]]

RunType ==
  /\ IsARun(run)
  /\ run.script \in {"none", "lifecycle", "seed", "verify"}
  /\ run.exit \in {Alive, 0, 1}
  /\ run.at \in Nat \ {0}
  /\ run.seen.treasury \in Nat
  /\ run.script = "verify" => run.at <= 13
  /\ run.script = "none" => run.at = 1 /\ run.exit = Alive

\* From its heartbeats on, a script works on an epoch it has read.
EpochRead ==
  run.script # "none" /\ run.at >= Opened(run.script) => run.epoch \in Epochs

\* The lifecycle is at its last call when it ends, and has undone by then what it
\* did to the protocol.
LifecycleInv ==
  run.script = "lifecycle" =>
    /\ run.at <= 29
    /\ run.at >= 26 => ~protocol.is_paused
    /\ run.at = 29 => protocol.reward_rate = RATE
    /\ run.exit = 0 => run.at = 29

\* The seeding script ends behind the finalization of a record that pays.
SeedInv ==
  run.script = "seed" =>
    /\ run.at <= 8
    /\ run.exit = 0 => run.at = 8
    /\ run.exit = 0 => LET ep == repoch[good][run.epoch]
                       IN  ep.finalized /\ ~ep.claimed /\ ep.reward_amount > 0

\* Only a settled record is claimed.
ClaimedSettled ==
  \A r \in Routers, e \in Epochs : repoch[r][e].claimed => repoch[r][e].finalized

ScriptsInv ==
  TypeOK /\ ClaimedSettled /\ RunType /\ EpochRead /\ LifecycleInv /\ SeedInv

----------------------------------------------------------------------------
(* The program under a script's calls. *)

LEMMA NothingClaimed ==
  ASSUME ClaimedSettled, repoch' = repoch
  PROVE  ClaimedSettled'
BY DEF ClaimedSettled

LEMMA RecordClaimed ==
  ASSUME TypeOK, ClaimedSettled, NEW x \in Routers, NEW f \in Epochs, NEW ep,
         repoch' = [repoch EXCEPT ![x][f] = ep], ep.claimed => ep.finalized
  PROVE  ClaimedSettled'
PROOF
  <1>1. repoch \in [Routers -> [Epochs -> RouterEpochType]]
    BY TypeParts
  <1>2. repoch'[x][f] = ep
    BY <1>1
  <1>3. ASSUME NEW r \in Routers, NEW e \in Epochs, r # x \/ e # f
        PROVE  repoch'[r][e] = repoch[r][e]
    BY <1>1, <1>3
  <1> QED
    BY <1>2, <1>3 DEF ClaimedSettled

LEMMA HeartbeatSettled ==
  ASSUME TypeOK, ClaimedSettled, NEW k, NEW r \in Routers, NEW e \in Epochs,
         Heartbeat(k, r, e)
  PROVE  TypeOK' /\ ClaimedSettled' /\ protocol' = protocol
PROOF
  <1> DEFINE open == OpenRouterEpoch(r, e)
             beats == open.heartbeats + 1
             ep == [open EXCEPT !.heartbeats = beats]
  <1>1. /\ repoch' = [repoch EXCEPT ![r][e] = ep]
        /\ ~open.finalized /\ protocol.initialized /\ protocol' = protocol
    BY DEF Heartbeat, MayHeartbeat, Unsettled, Running
  <1>2. open \in RouterEpochType
    BY <1>1, FreshRouterEpochType, TypeParts DEF OpenRouterEpoch
  <1>3. ~open.claimed
    BY <1>1 DEF OpenRouterEpoch, ClaimedSettled, FreshRouterEpoch, NoRouterEpoch
  <1> HIDE DEF open, beats
  <1>4. ~ep.claimed
    BY <1>2, <1>3 DEF RouterEpochType
  <1> HIDE DEF ep
  <1>5. ClaimedSettled'
    BY <1>1, <1>4, RecordClaimed
  <1> QED
    BY <1>1, <1>5, HeartbeatType

LEMMA FinalizeSettled ==
  ASSUME TypeOK, ClaimedSettled, NEW r \in Routers, NEW e \in Epochs,
         FinalizeRouterEpoch(r, e)
  PROVE  /\ TypeOK' /\ ClaimedSettled' /\ protocol' = protocol
         /\ repoch'[r][e].finalized /\ ~repoch'[r][e].claimed
PROOF
  <1>1. \E ep : repoch' = [repoch EXCEPT ![r][e] = ep]
    BY DEF FinalizeRouterEpoch
  <1>2. PICK ep : repoch' = [repoch EXCEPT ![r][e] = ep]
    BY <1>1
  <1>3. repoch'[r][e] = ep
    BY <1>2, TypeParts
  <1>4. ep.finalized /\ ep.claimed = repoch[r][e].claimed /\ ~repoch[r][e].finalized
        /\ protocol' = protocol
    BY <1>3, FinalizeEffect
  <1>5. ClaimedSettled'
    BY <1>2, <1>4, RecordClaimed
  <1> QED
    BY <1>3, <1>4, <1>5, FinalizeRouterEpochType DEF ClaimedSettled

LEMMA ClaimSettled ==
  ASSUME TypeOK, ClaimedSettled, NEW r \in Routers, NEW e \in Epochs, ClaimReward(r, e)
  PROVE  /\ TypeOK' /\ ClaimedSettled'
         /\ protocol'.is_paused = protocol.is_paused
         /\ protocol'.reward_rate = protocol.reward_rate
PROOF
  <1>1. repoch' = [repoch EXCEPT ![r][e] = ClaimRecorded(r, e)] /\ repoch[r][e].finalized
    BY DEF ClaimReward
  <1>2. ClaimRecorded(r, e).finalized
    BY <1>1, TypeParts DEF ClaimRecorded, RouterEpochType
  <1>3. ClaimedSettled'
    BY <1>1, <1>2, RecordClaimed
  <1>4. protocol'.is_paused = protocol.is_paused
        /\ protocol'.reward_rate = protocol.reward_rate
    BY TypeParts DEF ClaimReward, ProtocolType
  <1> QED
    BY <1>3, <1>4, ClaimRewardType

LEMMA SlashSettled ==
  ASSUME TypeOK, ClaimedSettled, NEW r \in Routers, NEW e \in Epochs, SlashRouter(r, e)
  PROVE  /\ TypeOK' /\ ClaimedSettled'
         /\ protocol'.is_paused = protocol.is_paused
         /\ protocol'.reward_rate = protocol.reward_rate
PROOF
  <1> DEFINE ep == [repoch[r][e] EXCEPT !.slashed = TRUE]
  <1>1. repoch' = [repoch EXCEPT ![r][e] = ep] /\ repoch[r][e].finalized
    BY DEF SlashRouter, MaySlash, SlashPending
  <1>2. ep.finalized
    BY <1>1, TypeParts DEF RouterEpochType
  <1> HIDE DEF ep
  <1>3. ClaimedSettled'
    BY <1>1, <1>2, RecordClaimed
  <1>4. protocol'.is_paused = protocol.is_paused
        /\ protocol'.reward_rate = protocol.reward_rate
    BY TypeParts DEF SlashRouter, ProtocolType
  <1> QED
    BY <1>3, <1>4, SlashRouterType

LEMMA KeeperSettled ==
  ASSUME TypeOK, ClaimedSettled, NEW r \in Routers, Keeper(r)
  PROVE  /\ TypeOK' /\ ClaimedSettled'
         /\ protocol'.is_paused = protocol.is_paused
         /\ protocol'.reward_rate = protocol.reward_rate
BY FinalizeSettled, SlashSettled DEF Keeper

LEMMA Asks ==
  ASSUME TypeOK, RunType, Up
  PROVE  /\ GenesisAsk \in Nat /\ StakeAsk \in Nat /\ UnstakeAsk \in Nat
         /\ Owner \in Wallets /\ good \in Routers /\ bad \in Routers
         /\ {goodDev, badDev, replacement} \subseteq DeviceKeys
PROOF
  <1>1. good \in Routers /\ bad \in Routers /\ OwnerOf[good] = Owner
        /\ {goodDev, badDev, replacement} \subseteq DeviceKeys
    BY ScriptsAssumption
  <1>2. Owner \in Wallets
    BY <1>1, RouterPulseAssumption
  <1>3. config.min_stake \in Nat /\ wallet[Owner] \in Nat
    BY <1>2, TypeParts DEF ConfigType
  <1>4. run.script \in {"lifecycle", "seed", "verify"}
    BY DEF RunType, Up
  <1>5. SaturatingSub(config.min_stake, wallet[Owner]) \in Nat
    BY <1>3 DEF SaturatingSub
  <1>6. GenesisAsk \in Nat
    BY <1>4, <1>5 DEF GenesisAsk, TOKEN
  <1>7. StakeAsk \in Nat /\ UnstakeAsk \in Nat
    BY <1>3 DEF StakeAsk, UnstakeAsk, TOKEN
  <1> QED
    BY <1>1, <1>2, <1>6, <1>7

\* No call is sent for an epoch that was not read.
LEMMA ReadBefore ==
  ASSUME RunType, EpochRead, NEW l, At(l), l \notin Opening
  PROVE  run.epoch \in Epochs
PROOF
  <1>1. run.script \in {"lifecycle", "seed", "verify"} /\ run.at \in Nat \ {0}
        /\ Calls(run.script)[run.at] = l
    BY DEF At, Up, RunType
  <1>2. ~(run.at < Opened(run.script))
    BY <1>1, OpeningCalls
  <1>3. Opened(run.script) \in Nat
    BY DEF Opened
  <1> QED
    BY <1>1, <1>2, <1>3 DEF EpochRead

LEMMA OnboardingSettled ==
  ASSUME ScriptsInv, Up, Onboarding
  PROVE  TypeOK' /\ ClaimedSettled'
PROOF
  <1>0. TypeOK /\ ClaimedSettled /\ RunType
    BY DEF ScriptsInv
  <1>1. /\ GenesisAsk \in Nat /\ StakeAsk \in Nat /\ Owner \in Wallets
        /\ good \in Routers /\ bad \in Routers /\ goodDev \in DeviceKeys /\ badDev \in DeviceKeys
    BY <1>0, Asks
  <1>2. CASE UNCHANGED vars
    BY <1>0, <1>2, StutterType, NothingClaimed DEF vars, accounts
  <1>3. CASE \E c \in Configs : InitializeProtocol(c)
    BY <1>0, <1>3, InitializeProtocolType, NothingClaimed DEF InitializeProtocol, accounts
  <1>4. CASE MintGenesis(Owner, GenesisAsk)
    BY <1>0, <1>1, <1>4, MintGenesisType, NothingClaimed DEF MintGenesis, accounts
  <1>5. CASE RegisterRouter(good, goodDev) \/ RegisterRouter(bad, badDev)
    BY <1>0, <1>1, <1>5, RegisterRouterType, NothingClaimed DEF RegisterRouter
  <1>6. CASE EpochNow \in Epochs /\ Heartbeat(goodDev, good, EpochNow)
    BY <1>0, <1>1, <1>6, HeartbeatSettled
  <1>7. CASE StakeCollateral(good, StakeAsk) \/ StakeCollateral(bad, StakeAsk)
    BY <1>0, <1>1, <1>7, StakeCollateralType, NothingClaimed DEF StakeCollateral
  <1> QED
    BY <1>2, <1>3, <1>4, <1>5, <1>6, <1>7 DEF Onboarding, Initialize, Genesis

LEMMA UptimeSettled ==
  ASSUME ScriptsInv, Up, Uptime
  PROVE  TypeOK' /\ ClaimedSettled'
PROOF
  <1>0. TypeOK /\ ClaimedSettled /\ RunType /\ EpochRead
    BY DEF ScriptsInv
  <1>1. good \in Routers /\ bad \in Routers
    BY <1>0, Asks
  <1>2. CASE UNCHANGED vars
    BY <1>0, <1>2, StutterType, NothingClaimed DEF vars, accounts
  <1>3. CASE At("beat") /\ Heartbeat(goodDev, good, run.epoch)
    BY <1>0, <1>1, <1>3, ReadBefore, HeartbeatSettled DEF Opening
  <1>4. CASE At("beat_bad") /\ Heartbeat(badDev, bad, run.epoch)
    BY <1>0, <1>1, <1>4, ReadBefore, HeartbeatSettled DEF Opening
  <1>5. CASE At("foreign") /\ Heartbeat(badDev, good, run.epoch)
    BY <1>0, <1>1, <1>5, ReadBefore, HeartbeatSettled DEF Opening
  <1> QED
    BY <1>2, <1>3, <1>4, <1>5 DEF Uptime

LEMMA SettlementSettled ==
  ASSUME ScriptsInv, Up, Settlement
  PROVE  TypeOK' /\ ClaimedSettled'
PROOF
  <1>0. TypeOK /\ ClaimedSettled /\ RunType /\ EpochRead
    BY DEF ScriptsInv
  <1>1. good \in Routers /\ bad \in Routers
    BY <1>0, Asks
  <1>2. ASSUME NEW l \in {"finalize", "finalize_bad", "claim", "reclaim", "vest", "slash",
                          "reslash"}, At(l)
        PROVE  run.epoch \in Epochs
    <2>1. l \notin Opening
      BY DEF Opening
    <2> QED
      BY <1>0, <1>2, <2>1, ReadBefore
  <1>3. CASE At("finalize") /\ FinalizeRouterEpoch(good, run.epoch)
    BY <1>0, <1>1, <1>2, <1>3, FinalizeSettled
  <1>4. CASE At("finalize_bad") /\ FinalizeRouterEpoch(bad, run.epoch)
    BY <1>0, <1>1, <1>2, <1>4, FinalizeSettled
  <1>5. CASE (At("claim") \/ At("reclaim")) /\ ClaimReward(good, run.epoch)
    BY <1>0, <1>1, <1>2, <1>5, ClaimSettled
  <1>6. CASE At("vest") /\ ClaimVested(good, run.epoch)
    BY <1>0, <1>1, <1>2, <1>6, ClaimVestedType, NothingClaimed DEF ClaimVested
  <1>7. CASE (At("slash") \/ At("reslash")) /\ SlashRouter(bad, run.epoch)
    BY <1>0, <1>1, <1>2, <1>7, SlashSettled
  <1>8. CASE BurnTreasury(treasury - run.seen.treasury)
    <2>1. treasury - run.seen.treasury \in Nat
      BY <1>0, <1>8, TypeParts DEF BurnTreasury, RunType
    <2> QED
      BY <1>0, <1>8, <2>1, BurnTreasuryType, NothingClaimed DEF BurnTreasury, accounts
  <1> QED
    BY <1>3, <1>4, <1>5, <1>6, <1>7, <1>8 DEF Settlement

LEMMA GovernanceSettled ==
  ASSUME ScriptsInv, Up, Governance
  PROVE  TypeOK' /\ ClaimedSettled'
PROOF
  <1>0. TypeOK /\ ClaimedSettled /\ RunType /\ EpochRead
    BY DEF ScriptsInv
  <1>1. good \in Routers /\ replacement \in DeviceKeys /\ UnstakeAsk \in Nat
    BY <1>0, Asks
  <1>2. CASE UNCHANGED vars
    BY <1>0, <1>2, StutterType, NothingClaimed DEF vars, accounts
  <1>3. CASE RotateDeviceKey(good, replacement)
    BY <1>0, <1>1, <1>3, RotateDeviceKeyType, NothingClaimed DEF RotateDeviceKey
  <1>4. CASE ProbeEpoch \in Epochs /\ Heartbeat(goodDev, good, ProbeEpoch)
    BY <1>0, <1>1, <1>4, HeartbeatSettled
  <1>5. CASE At("paused") /\ Heartbeat(replacement, good, ProbeEpoch)
    <2>1. CASE ~Verify
      <3>1. ProbeEpoch = run.epoch /\ run.epoch \in Epochs
        BY <1>0, <1>5, <2>1, ReadBefore DEF ProbeEpoch, Opening
      <3> QED
        BY <1>0, <1>1, <1>5, <3>1, HeartbeatSettled
    <2>2. CASE Verify
      <3>1. run.at \in 1 .. 13 /\ OperatorFlow[run.at] = "paused"
        BY <1>0, <1>5, <2>2 DEF At, Verify, Calls, RunType
      <3> QED
        BY <3>1, OperatorCalls
    <2> QED
      BY <2>1, <2>2
  <1>6. CASE PauseProtocol \/ ResumeProtocol \/ UpdateRewardRate(RAISED) \/ UpdateRewardRate(RATE)
    <2>1. RAISED \in Nat /\ RATE \in Nat
      BY DEF RAISED, RATE
    <2>2. repoch' = repoch
      BY <1>6 DEF PauseProtocol, ResumeProtocol, UpdateRewardRate, accounts
    <2> QED
      BY <1>0, <1>6, <2>1, <2>2, SwitchType, NothingClaimed
  <1>7. CASE Unstake(good, UnstakeAsk)
    BY <1>0, <1>1, <1>7, UnstakeType, NothingClaimed DEF Unstake
  <1> QED
    BY <1>2, <1>3, <1>4, <1>5, <1>6, <1>7 DEF Governance

LEMMA CallSettled ==
  ASSUME ScriptsInv, Up, Call \/ UNCHANGED vars
  PROVE  TypeOK' /\ ClaimedSettled'
PROOF
  <1>1. CASE UNCHANGED vars
    BY <1>1, StutterType, NothingClaimed DEF ScriptsInv, vars, accounts
  <1> QED
    BY <1>1, OnboardingSettled, UptimeSettled, SettlementSettled, GovernanceSettled DEF Call

----------------------------------------------------------------------------
(* The lifecycle's last calls. *)

LEMMA LifecycleAt ==
  ASSUME RunType, Up, run.script = "lifecycle", run.at <= 29, NEW l, At(l)
  PROVE  /\ run.at = 25 => l = "resume"
         /\ run.at = 26 => l = "raise"
         /\ run.at = 27 => l = "audit"
         /\ run.at = 28 => l = "restore"
         /\ run.at = 29 => l = "unstake"
BY LifecycleCalls DEF At, Calls

LEMMA Resumed ==
  ASSUME TypeOK, At("resume"), Call
  PROVE  ~protocol'.is_paused
PROOF
  <1>1. ResumeProtocol
    BY DEF Call, Onboarding, Uptime, Settlement, Governance, At
  <1> QED
    BY <1>1, TypeParts DEF ResumeProtocol, ProtocolType

LEMMA Restored ==
  ASSUME TypeOK, At("restore"), Call
  PROVE  protocol'.reward_rate = RATE /\ protocol'.is_paused = protocol.is_paused
PROOF
  <1>1. UpdateRewardRate(RATE)
    BY DEF Call, Onboarding, Uptime, Settlement, Governance, At
  <1> QED
    BY <1>1, TypeParts DEF UpdateRewardRate, ProtocolType

LEMMA Raised ==
  ASSUME TypeOK, At("raise"), Call
  PROVE  protocol'.is_paused = protocol.is_paused
PROOF
  <1>1. UpdateRewardRate(RAISED)
    BY DEF Call, Onboarding, Uptime, Settlement, Governance, At
  <1> QED
    BY <1>1, TypeParts DEF UpdateRewardRate, ProtocolType

LEMMA Audited ==
  ASSUME At("audit"), Call
  PROVE  protocol' = protocol
BY DEF Call, Onboarding, Uptime, Settlement, Governance, At, vars, accounts

LEMMA Unstaked ==
  ASSUME TypeOK, At("unstake"), Call
  PROVE  /\ protocol'.is_paused = protocol.is_paused
         /\ protocol'.reward_rate = protocol.reward_rate
PROOF
  <1>1. Unstake(good, UnstakeAsk)
    BY DEF Call, Onboarding, Uptime, Settlement, Governance, At
  <1> QED
    BY <1>1, TypeParts DEF Unstake, ProtocolType

\* Past the resumption the protocol runs, past the restoration at the first rate.
LEMMA StaysUndone ==
  ASSUME ScriptsInv, Up, run.script = "lifecycle", Call \/ UNCHANGED vars
  PROVE  /\ run.at >= 26 => ~protocol'.is_paused
         /\ run.at = 29 => protocol'.reward_rate = RATE
PROOF
  <1>0. /\ TypeOK /\ RunType /\ run.at \in Nat /\ run.at <= 29
        /\ run.at >= 26 => ~protocol.is_paused
        /\ run.at = 29 => protocol.reward_rate = RATE
    BY DEF ScriptsInv, RunType, LifecycleInv
  <1>1. CASE UNCHANGED vars
    BY <1>0, <1>1 DEF vars, accounts
  <1>2. CASE Call
    <2> DEFINE l == Calls(run.script)[run.at]
    <2>1. At(l)
      BY DEF At
    <2>2. CASE run.at = 26
      BY <1>0, <1>2, <2>1, <2>2, LifecycleAt, Raised
    <2>3. CASE run.at = 27
      BY <1>0, <1>2, <2>1, <2>3, LifecycleAt, Audited
    <2>4. CASE run.at = 28
      BY <1>0, <1>2, <2>1, <2>4, LifecycleAt, Restored
    <2>5. CASE run.at = 29
      BY <1>0, <1>2, <2>1, <2>5, LifecycleAt, Unstaked
    <2> HIDE DEF l
    <2> QED
      BY <1>0, <2>2, <2>3, <2>4, <2>5
  <1> QED
    BY <1>1, <1>2

LEMMA Undoes ==
  ASSUME ScriptsInv, Up, run.script = "lifecycle", Call
  PROVE  /\ run.at = 25 => ~protocol'.is_paused
         /\ run.at = 28 => protocol'.reward_rate = RATE
PROOF
  <1> DEFINE l == Calls(run.script)[run.at]
  <1>0. TypeOK /\ RunType /\ run.at <= 29 /\ At(l)
    BY DEF ScriptsInv, LifecycleInv, At
  <1>1. CASE run.at = 25
    BY <1>0, <1>1, LifecycleAt, Resumed
  <1>2. CASE run.at = 28
    BY <1>0, <1>2, LifecycleAt, Restored
  <1> QED
    BY <1>1, <1>2

----------------------------------------------------------------------------
(* What becomes of a run. *)

\* The run stands at the same call and has ended.
Ends ==
  /\ IsARun(run') /\ run'.exit \in {0, 1}
  /\ run'.script = run.script /\ run'.at = run.at /\ run'.epoch = run.epoch
  /\ run'.seen = run.seen

LEMMA ContinueEnds ==
  ASSUME RunType, NEW failures, NEW skip, NEW disturbed, IsLast,
         Continue(failures, skip, disturbed)
  PROVE  Ends /\ (run'.exit = 0 => failures = {})
PROOF
  <1> DEFINE failed == run.failed \cup failures
             exit   == IF failed = {} THEN 0 ELSE 1
  <1>1. run' = [run EXCEPT !.failed = failed, !.disturbed = disturbed, !.exit = exit]
    BY DEF Continue
  <1>2. IsARun(run) /\ exit \in {0, 1} /\ (exit = 0 => failures = {})
    BY DEF RunType
  <1> HIDE DEF failed, exit
  <1>3. /\ IsARun(run') /\ run'.exit = exit /\ run'.script = run.script
        /\ run'.at = run.at /\ run'.epoch = run.epoch /\ run'.seen = run.seen
    BY <1>1, <1>2 DEF IsARun, RunFields
  <1> QED
    BY <1>2, <1>3 DEF Ends

LEMMA ContinueMoves ==
  ASSUME RunType, NEW failures, NEW skip, NEW disturbed, ~IsLast,
         Continue(failures, skip, disturbed)
  PROVE  /\ IsARun(run') /\ run'.exit = run.exit /\ run'.script = run.script
         /\ run'.at = run.at + 1 + skip
         /\ run'.epoch = IF At("read_epoch") THEN EpochNow ELSE run.epoch
         /\ run'.seen = run.seen \/ run'.seen = Snapshot'
PROOF
  <1> DEFINE failed == run.failed \cup failures
             at     == run.at + 1 + skip
             wake   == Wake(Next_)
             epoch  == IF At("read_epoch") THEN EpochNow ELSE run.epoch
  <1>1. PICK seen : /\ seen = IF Next_ \in Measured THEN Snapshot' ELSE run.seen
                    /\ run' = [run EXCEPT !.failed = failed, !.disturbed = disturbed,
                                          !.at = at, !.wake = wake, !.seen = seen,
                                          !.epoch = epoch]
    BY DEF Continue
  <1>2. IsARun(run)
    BY DEF RunType
  <1> HIDE DEF failed, at, wake, epoch
  <1>3. /\ IsARun(run') /\ run'.exit = run.exit /\ run'.script = run.script
        /\ run'.at = at /\ run'.epoch = epoch /\ run'.seen = seen
    BY <1>1, <1>2 DEF IsARun, RunFields
  <1> QED
    BY <1>1, <1>3 DEF at, epoch


LEMMA Stopping ==
  ASSUME RunType, NEW disturbed,
         run' = [run EXCEPT !.exit = 1, !.disturbed = disturbed]
  PROVE  Ends /\ run'.exit = 1
PROOF
  <1>1. /\ IsARun(run') /\ run'.exit = 1 /\ run'.script = run.script
        /\ run'.at = run.at /\ run'.epoch = run.epoch /\ run'.seen = run.seen
    BY DEF RunType, IsARun, RunFields
  <1> QED
    BY <1>1 DEF Ends

LEMMA Returning ==
  ASSUME RunType, NEW failed, NEW disturbed,
         run' = [run EXCEPT !.failed = failed, !.exit = 0, !.disturbed = disturbed]
  PROVE  Ends
PROOF
  <1>1. /\ IsARun(run') /\ run'.exit = 0 /\ run'.script = run.script
        /\ run'.at = run.at /\ run'.epoch = run.epoch /\ run'.seen = run.seen
    BY DEF RunType, IsARun, RunFields
  <1> QED
    BY <1>1 DEF Ends

\* What a call that throws comes to: the run ends, without success unless it is the
\* operator flow, or that flow goes on.
LEMMA ThrowsEffect ==
  ASSUME RunType, NEW disturbed, Throws(disturbed) \/ ReadThrows
  PROVE  \/ Ends /\ (run'.exit = 0 => Verify)
         \/ /\ Verify /\ GoesOn /\ ~At("read_epoch")
            /\ \E skip \in {0, 1} :
                 /\ skip = 1 <=> At("rotate")
                 /\ Continue({Label}, skip, disturbed)
PROOF
  <1>1. CASE ReadThrows
    <2>1. run' = [run EXCEPT !.exit = 1, !.disturbed = TRUE]
      BY <1>1 DEF ReadThrows
    <2>2. Ends /\ run'.exit = 1
      BY <2>1, Stopping, Zenon
    <2> QED
      BY <2>2
  <1>2. CASE Throws(disturbed) /\ GoesOn
    <2>1. Continue({Label}, IF At("rotate") THEN 1 ELSE 0, disturbed)
      BY <1>2 DEF Throws
    <2>2. Verify /\ ~At("read_epoch")
      BY <1>2 DEF GoesOn, At
    <2> QED
      BY <1>2, <2>1, <2>2
  <1>3. CASE Throws(disturbed) /\ ~GoesOn /\ Verify
    <2>1. run' = [run EXCEPT !.failed = @ \cup {Label}, !.exit = 0, !.disturbed = disturbed]
      BY <1>3 DEF Throws
    <2> QED
      BY <1>3, <2>1, Returning
  <1>4. CASE Throws(disturbed) /\ ~GoesOn /\ ~Verify
    <2>1. run' = [run EXCEPT !.exit = 1, !.disturbed = disturbed]
      BY <1>4 DEF Throws
    <2>2. Ends /\ run'.exit = 1
      BY <2>1, Stopping, Zenon
    <2> QED
      BY <2>2
  <1> QED
    BY <1>1, <1>2, <1>3, <1>4

LEMMA EndsKeeps ==
  ASSUME ScriptsInv, Up, Ends
  PROVE  RunType' /\ EpochRead'
PROOF
  <1>1. RunType'
    BY DEF ScriptsInv, RunType, Ends, Up
  <1>2. EpochRead'
    BY DEF ScriptsInv, EpochRead, Ends
  <1> QED
    BY <1>1, <1>2

\* A run that moves on moves to a call of its script, past the reading of the epoch
\* with an epoch in hand.
LEMMA ContinueKeeps ==
  ASSUME ScriptsInv, TypeOK', Up, NEW failures, NEW skip \in {0, 1}, NEW disturbed,
         skip = 1 => Verify /\ At("rotate"),
         At("read_epoch") => EpochNow \in Epochs,
         Continue(failures, skip, disturbed)
  PROVE  /\ RunType' /\ EpochRead'
         /\ run'.script = run.script
         /\ IF IsLast THEN run'.at = run.at /\ run'.epoch = run.epoch
                              /\ (run'.exit = 0 => failures = {})
                      ELSE run'.at = run.at + 1 + skip /\ run'.exit = Alive
PROOF
  <1>0. /\ RunType /\ EpochRead /\ run.script \in {"lifecycle", "seed", "verify"}
        /\ run.exit = Alive /\ run.at \in Nat \ {0}
    BY DEF ScriptsInv, RunType, Up
  <1>1. CASE IsLast
    BY <1>0, <1>1, ContinueEnds, EndsKeeps DEF Ends
  <1>2. CASE ~IsLast
    <2>1. /\ IsARun(run') /\ run'.exit = run.exit /\ run'.script = run.script
          /\ run'.at = run.at + 1 + skip
          /\ run'.epoch = IF At("read_epoch") THEN EpochNow ELSE run.epoch
          /\ run'.seen = run.seen \/ run'.seen = Snapshot'
      BY <1>0, <1>2, ContinueMoves
    <2>2. run'.seen.treasury \in Nat
      <3>1. (Snapshot').treasury = treasury'
        BY DEF Snapshot
      <3>2. treasury' \in Nat
        BY DEF TypeOK
      <3> QED
        BY <1>0, <2>1, <3>1, <3>2 DEF RunType
    <2>3. Verify => run.at + 1 + skip <= 13
      <3>1. CASE Verify
        <4>1. run.at \in 1 .. 13 /\ Calls(run.script) = OperatorFlow
          BY <1>0, <3>1 DEF RunType, Verify, Calls
        <4>2. run.at # 13
          BY <1>2, <4>1, OperatorCalls DEF IsLast
        <4>3. skip = 1 => run.at = 11
          BY <4>1, OperatorCalls DEF At
        <4> QED
          BY <4>1, <4>2, <4>3
      <3> QED
        BY <3>1
    <2>4. RunType'
      BY <1>0, <2>1, <2>2, <2>3 DEF RunType, Verify
    <2>5. ASSUME run.at + 1 + skip >= Opened(run.script)
          PROVE  run'.epoch \in Epochs
      <3>1. CASE run.at >= Opened(run.script)
        BY <1>0, <2>1, <3>1 DEF EpochRead
      <3>2. CASE run.at < Opened(run.script)
        <4>1. Opened(run.script) \in Nat
          BY DEF Opened
        <4>2. Calls(run.script)[run.at] \in Opening
          BY <1>0, <3>2, OpeningCalls
        <4>3. skip = 0
          BY <4>2 DEF At, Opening
        <4>4. run.at = Opened(run.script) - 1
          BY <1>0, <2>5, <3>2, <4>1, <4>3
        <4>5. At("read_epoch")
          BY <1>0, <4>4, ReadCalls DEF At, Up, Calls, Opened
        <4> QED
          BY <2>1, <4>5
      <3>3. Opened(run.script) \in Nat
        BY DEF Opened
      <3> QED
        BY <1>0, <3>1, <3>2, <3>3
    <2>6. EpochRead'
      BY <1>0, <2>1, <2>5 DEF EpochRead
    <2> QED
      BY <1>0, <1>2, <2>1, <2>4, <2>6
  <1> QED
    BY <1>1, <1>2

----------------------------------------------------------------------------
(* The steps. *)

LEMMA EndsInv ==
  ASSUME ScriptsInv, Up, Ends, run'.exit = 0 => Verify, Call \/ UNCHANGED vars
  PROVE  ScriptsInv'
PROOF
  <1>1. TypeOK' /\ ClaimedSettled' /\ RunType' /\ EpochRead'
    BY CallSettled, EndsKeeps
  <1>2. LifecycleInv'
    BY StaysUndone DEF ScriptsInv, LifecycleInv, Ends, Verify
  <1>3. SeedInv'
    BY DEF ScriptsInv, SeedInv, Ends, Verify
  <1> QED
    BY <1>1, <1>2, <1>3 DEF ScriptsInv

\* Behind a call that was to be refused, and in the operator flow behind any call,
\* nothing is at stake.
LEMMA MovesInv ==
  ASSUME ScriptsInv, Up, Call \/ UNCHANGED vars, ExpectsRefusal \/ Verify,
         NEW failures, NEW skip \in {0, 1}, NEW disturbed,
         skip = 1 => Verify /\ At("rotate"), ~At("read_epoch"),
         Continue(failures, skip, disturbed)
  PROVE  ScriptsInv'
PROOF
  <1>1. TypeOK' /\ ClaimedSettled'
    BY CallSettled
  <1>2. /\ RunType' /\ EpochRead' /\ run'.script = run.script
        /\ IF IsLast THEN run'.at = run.at /\ run'.epoch = run.epoch
                     ELSE run'.at = run.at + 1 + skip /\ run'.exit = Alive
    BY <1>1, ContinueKeeps
  <1>3. ASSUME run.script = "lifecycle"
        PROVE  /\ run'.at <= 29
               /\ run'.at >= 26 => ~protocol'.is_paused
               /\ run'.at = 29 => protocol'.reward_rate = RATE
               /\ run'.exit = 0 => run'.at = 29
    <2>1. /\ run.at \in Nat /\ run.at <= 29 /\ RunType /\ skip = 0
          /\ ExpectsRefusal
      BY <1>3 DEF ScriptsInv, RunType, LifecycleInv, Verify
    <2>2. run.at \notin {25, 28}
      BY <1>3, <2>1, LifecycleCalls DEF ExpectsRefusal, At, Calls
    <2>3. IsLast <=> run.at = 29
      BY <1>3, LifecycleCalls DEF IsLast, Calls
    <2>4. /\ run.at >= 26 => ~protocol'.is_paused
          /\ run.at = 29 => protocol'.reward_rate = RATE
      BY <1>3, StaysUndone
    <2> QED
      BY <1>2, <2>1, <2>2, <2>3, <2>4 DEF Alive
  <1>4. ASSUME run.script = "seed"
        PROVE  run'.at <= 8 /\ run'.exit # 0
    <2>1. run.at \in Nat /\ run.at <= 8 /\ RunType /\ skip = 0 /\ ExpectsRefusal
      BY <1>4 DEF ScriptsInv, RunType, SeedInv, Verify
    <2>2. run.at # 8
      BY <1>4, <2>1, SeedCalls DEF ExpectsRefusal, At, Calls
    <2>3. ~IsLast
      BY <1>4, <2>2, SeedCalls DEF IsLast, Calls
    <2> QED
      BY <1>2, <2>1, <2>2, <2>3 DEF Alive
  <1>5. LifecycleInv' /\ SeedInv'
    BY <1>2, <1>3, <1>4 DEF LifecycleInv, SeedInv
  <1> QED
    BY <1>1, <1>2, <1>5 DEF ScriptsInv

\* The finalization the seeding script ends with, answered as it expects.
LEMMA SeedPays ==
  ASSUME ScriptsInv, run.script = "seed", At("finalize"), Call, AsExpected
  PROVE  LET ep == repoch'[good][run.epoch]
         IN  ep.finalized /\ ~ep.claimed /\ ep.reward_amount > 0
PROOF
  <1>0. TypeOK /\ ClaimedSettled /\ RunType /\ EpochRead /\ Up
    BY DEF ScriptsInv, At
  <1>1. FinalizeRouterEpoch(good, run.epoch)
    BY DEF Call, Onboarding, Uptime, Settlement, Governance, At
  <1>2. "finalize" \notin Opening
    BY DEF Opening
  <1>3. good \in Routers /\ run.epoch \in Epochs
    BY <1>0, <1>2, Asks, ReadBefore
  <1>4. repoch'[good][run.epoch].finalized /\ ~repoch'[good][run.epoch].claimed
    BY <1>0, <1>1, <1>3, FinalizeSettled
  <1>5. repoch'[good][run.epoch].reward_amount > 0
    BY DEF AsExpected, At, Verify
  <1> QED
    BY <1>4, <1>5

LEMMA AnsweredInv ==
  ASSUME ScriptsInv, Answered
  PROVE  ScriptsInv'
PROOF
  <1> DEFINE failures == IF AsExpected THEN {} ELSE {Label}
  <1>0. /\ Up /\ Call /\ (At("read_epoch") => EpochNow \in Epochs)
        /\ Continue(failures, 0, run.disturbed \/ TooLate)
    BY DEF Answered, Due
  <1>f. failures = {} => AsExpected
    OBVIOUS
  <1> HIDE DEF failures
  <1>1. TypeOK' /\ ClaimedSettled'
    BY <1>0, CallSettled
  <1>2. /\ RunType' /\ EpochRead' /\ run'.script = run.script
        /\ IF IsLast THEN run'.at = run.at /\ run'.epoch = run.epoch
                              /\ (run'.exit = 0 => failures = {})
                     ELSE run'.at = run.at + 1 + 0 /\ run'.exit = Alive
    BY <1>0, <1>1, ContinueKeeps
  <1>3. ASSUME run.script = "lifecycle"
        PROVE  /\ run'.at <= 29
               /\ run'.at >= 26 => ~protocol'.is_paused
               /\ run'.at = 29 => protocol'.reward_rate = RATE
               /\ run'.exit = 0 => run'.at = 29
    <2>1. run.at \in Nat /\ run.at <= 29
      BY <1>3 DEF ScriptsInv, RunType, LifecycleInv
    <2>2. IsLast <=> run.at = 29
      BY <1>3, LifecycleCalls DEF IsLast, Calls
    <2>3. /\ run.at >= 26 => ~protocol'.is_paused
          /\ run.at = 29 => protocol'.reward_rate = RATE
      BY <1>0, <1>3, StaysUndone
    <2>4. /\ run.at = 25 => ~protocol'.is_paused
          /\ run.at = 28 => protocol'.reward_rate = RATE
      BY <1>0, <1>3, Undoes
    <2> QED
      BY <1>2, <2>1, <2>2, <2>3, <2>4 DEF Alive
  <1>4. ASSUME run.script = "seed"
        PROVE  /\ run'.at <= 8
               /\ run'.exit = 0 => run'.at = 8
               /\ run'.exit = 0 => LET ep == repoch'[good][run'.epoch]
                                   IN  ep.finalized /\ ~ep.claimed /\ ep.reward_amount > 0
    <2>1. run.at \in Nat /\ run.at <= 8
      BY <1>4 DEF ScriptsInv, RunType, SeedInv
    <2>2. IsLast <=> run.at = 8
      BY <1>4, SeedCalls DEF IsLast, Calls
    <2>3. CASE IsLast
      <3>1. At("finalize")
        BY <1>0, <1>4, <2>2, <2>3, SeedCalls DEF At, Calls
      <3>2. ASSUME run'.exit = 0
            PROVE  LET ep == repoch'[good][run.epoch]
                   IN  ep.finalized /\ ~ep.claimed /\ ep.reward_amount > 0
        <4>1. AsExpected
          BY <1>f, <1>2, <2>3, <3>2
        <4> QED
          BY <1>0, <1>4, <3>1, <4>1, SeedPays
      <3>3. run'.at = 8 /\ run'.epoch = run.epoch
        BY <1>2, <2>2, <2>3
      <3> QED
        BY <3>2, <3>3
    <2>4. CASE ~IsLast
      BY <1>2, <2>1, <2>2, <2>4 DEF Alive
    <2> QED
      BY <2>3, <2>4
  <1>5. LifecycleInv' /\ SeedInv'
    BY <1>2, <1>3, <1>4 DEF LifecycleInv, SeedInv
  <1> QED
    BY <1>1, <1>2, <1>5 DEF ScriptsInv

LEMMA RefusalIsNoReading ==
  ASSUME ExpectsRefusal
  PROVE  ~At("read_epoch")
BY DEF ExpectsRefusal, At

LEMMA ThrowsInv ==
  ASSUME ScriptsInv, Up, Call \/ UNCHANGED vars, NEW disturbed,
         Throws(disturbed) \/ ReadThrows
  PROVE  ScriptsInv'
PROOF
  <1>1. RunType
    BY DEF ScriptsInv
  <1>2. CASE Ends /\ (run'.exit = 0 => Verify)
    BY <1>2, EndsInv
  <1>3. CASE /\ Verify /\ GoesOn /\ ~At("read_epoch")
             /\ \E skip \in {0, 1} :
                  /\ skip = 1 <=> At("rotate")
                  /\ Continue({Label}, skip, disturbed)
    <2>1. PICK skip \in {0, 1} : /\ skip = 1 <=> At("rotate")
                                 /\ Continue({Label}, skip, disturbed)
      BY <1>3
    <2> QED
      BY <1>3, <2>1, MovesInv
  <1> QED
    BY <1>1, <1>2, <1>3, ThrowsEffect

LEMMA RefusedInv ==
  ASSUME ScriptsInv, Refused
  PROVE  ScriptsInv'
PROOF
  <1>1. Up /\ UNCHANGED vars
    BY DEF Refused, Due
  <1>2. CASE ExpectsRefusal
    <2>1. Continue({}, 0, run.disturbed)
      BY <1>2 DEF Refused
    <2> QED
      BY <1>1, <1>2, <2>1, RefusalIsNoReading, MovesInv
  <1>3. CASE ~ExpectsRefusal
    <2>1. Throws(run.disturbed \/ TooLate)
      BY <1>3 DEF Refused
    <2> QED
      BY <1>1, <2>1, ThrowsInv
  <1> QED
    BY <1>2, <1>3

LEMMA FailsInv ==
  ASSUME ScriptsInv, Fails
  PROVE  ScriptsInv'
PROOF
  <1>1. Up /\ (Call \/ UNCHANGED vars)
    BY DEF Fails, Due
  <1>2. CASE ExpectsRefusal
    <2>1. \E disturbed : Continue({}, 0, disturbed)
      BY <1>2, Zenon DEF Fails
    <2>2. PICK disturbed : Continue({}, 0, disturbed)
      BY <2>1
    <2> QED
      BY <1>1, <1>2, <2>2, RefusalIsNoReading, MovesInv
  <1>3. CASE ~ExpectsRefusal
    <2>1. Throws(TRUE) \/ ReadThrows
      BY <1>3 DEF Fails
    <2> QED
      BY <1>1, <2>1, ThrowsInv
  <1> QED
    BY <1>2, <1>3

LEMMA LaunchInv ==
  ASSUME ScriptsInv, NEW script \in {"lifecycle", "seed", "verify"}, Launch(script)
  PROVE  ScriptsInv'
PROOF
  <1>1. /\ run.script = "none" /\ UNCHANGED vars
        /\ run' = [run EXCEPT !.script = script]
    BY DEF Launch
  <1>2. RunType /\ run.at = 1 /\ run.exit = Alive
    BY <1>1 DEF ScriptsInv, RunType
  <1>3. /\ IsARun(run') /\ run'.script = script /\ run'.at = 1 /\ run'.exit = Alive
        /\ run'.seen = run.seen
    BY <1>1, <1>2 DEF RunType, IsARun, RunFields
  <1>4. RunType'
    BY <1>2, <1>3 DEF RunType
  <1>5. EpochRead' /\ LifecycleInv' /\ SeedInv'
    BY <1>3 DEF EpochRead, Opened, LifecycleInv, SeedInv, Alive
  <1>6. TypeOK' /\ ClaimedSettled'
    BY <1>1, StutterType, NothingClaimed DEF ScriptsInv, vars, accounts
  <1> QED
    BY <1>4, <1>5, <1>6 DEF ScriptsInv

LEMMA DeployInv ==
  ASSUME ScriptsInv, Deploy
  PROVE  ScriptsInv'
PROOF
  <1>1. PICK c \in Configs : InitializeProtocol(c)
    BY DEF Deploy
  <1>2. run.script = "none" /\ run' = run
    BY DEF Deploy
  <1>3. TypeOK' /\ ClaimedSettled'
    BY <1>1, InitializeProtocolType, NothingClaimed
       DEF ScriptsInv, InitializeProtocol, accounts
  <1>4. RunType' /\ EpochRead' /\ LifecycleInv' /\ SeedInv'
    BY <1>2 DEF ScriptsInv, RunType, EpochRead, LifecycleInv, SeedInv, Snapshot
  <1> QED
    BY <1>3, <1>4 DEF ScriptsInv

LEMMA CrankInv ==
  ASSUME ScriptsInv, Crank
  PROVE  ScriptsInv'
PROOF
  <1>1. PICK r \in Routers : Keeper(r)
    BY DEF Crank
  <1>2. Up /\ run' = [run EXCEPT !.disturbed = TRUE]
    BY DEF Crank
  <1>3. /\ TypeOK' /\ ClaimedSettled'
        /\ protocol'.is_paused = protocol.is_paused
        /\ protocol'.reward_rate = protocol.reward_rate
    BY <1>1, KeeperSettled DEF ScriptsInv
  <1>4. /\ IsARun(run') /\ run'.script = run.script /\ run'.at = run.at
        /\ run'.exit = run.exit /\ run'.epoch = run.epoch /\ run'.seen = run.seen
    BY <1>2 DEF ScriptsInv, RunType, IsARun, RunFields
  <1>5. run.exit # 0
    BY <1>2 DEF Up, Alive
  <1>6. RunType' /\ EpochRead'
    BY <1>4 DEF ScriptsInv, RunType, EpochRead
  <1>7. LifecycleInv' /\ SeedInv'
    BY <1>3, <1>4, <1>5 DEF ScriptsInv, LifecycleInv, SeedInv
  <1> QED
    BY <1>3, <1>6, <1>7 DEF ScriptsInv

LEMMA WaitInv ==
  ASSUME ScriptsInv, Wait
  PROVE  ScriptsInv'
PROOF
  <1>1. PICK d \in TickSteps : Tick(d)
    BY DEF Wait
  <1>2. run' = run
    BY DEF Wait
  <1>3. protocol' = protocol /\ repoch' = repoch
    BY <1>1 DEF Tick, accounts
  <1>4. TypeOK' /\ ClaimedSettled'
    BY <1>1, <1>3, TickType, NothingClaimed DEF ScriptsInv
  <1>5. RunType' /\ EpochRead' /\ LifecycleInv' /\ SeedInv'
    BY <1>2, <1>3 DEF ScriptsInv, RunType, EpochRead, LifecycleInv, SeedInv
  <1> QED
    BY <1>4, <1>5 DEF ScriptsInv

LEMMA ScriptsStep ==
  ASSUME ScriptsInv, [ScriptsNext]_scriptVars
  PROVE  ScriptsInv'
PROOF
  <1>1. CASE UNCHANGED scriptVars
    <2>1. run' = run /\ protocol' = protocol /\ repoch' = repoch /\ UNCHANGED vars
      BY <1>1 DEF scriptVars, vars, accounts
    <2>2. TypeOK' /\ ClaimedSettled'
      BY <2>1, StutterType, NothingClaimed DEF ScriptsInv
    <2>3. RunType' /\ EpochRead' /\ LifecycleInv' /\ SeedInv'
      BY <2>1 DEF ScriptsInv, RunType, EpochRead, LifecycleInv, SeedInv
    <2> QED
      BY <2>2, <2>3 DEF ScriptsInv
  <1> QED
    BY <1>1, DeployInv, LaunchInv, AnsweredInv, RefusedInv, FailsInv, CrankInv, WaitInv
       DEF ScriptsNext

LEMMA ScriptsStart ==
  ASSUME ScriptsInit
  PROVE  ScriptsInv
PROOF
  <1>1. TypeOK
    BY InitType DEF ScriptsInit
  <1>2. ClaimedSettled
    BY DEF ScriptsInit, Init, ClaimedSettled, NoRouterEpoch
  <1>3. /\ IsARun(run) /\ run.script = "none" /\ run.at = 1 /\ run.exit = Alive
        /\ run.seen = Snapshot
    BY DEF ScriptsInit, IsARun, RunFields
  <1>4. run.seen.treasury \in Nat
    BY <1>1, <1>3 DEF Snapshot, TypeOK
  <1>5. RunType /\ EpochRead /\ LifecycleInv /\ SeedInv
    BY <1>3, <1>4 DEF RunType, EpochRead, LifecycleInv, SeedInv
  <1> QED
    BY <1>1, <1>2, <1>5 DEF ScriptsInv

(***************************************************************************)
(* A script works on an epoch it has read, a run that has reported stays   *)
(* where it was, and at each of the lifecycle's last calls the protocol is *)
(* what the calls before have left: the type invariant of the program goes *)
(* along, since scripts compose its instructions.                          *)
(***************************************************************************)
THEOREM ScriptsInvariant == ScriptsSpec => []ScriptsInv
PROOF
  <1>1. ScriptsInit => ScriptsInv
    BY ScriptsStart
  <1>2. ScriptsInv /\ [ScriptsNext]_scriptVars => ScriptsInv'
    BY ScriptsStep
  <1> QED
    BY <1>1, <1>2, PTL DEF ScriptsSpec

(***************************************************************************)
(* When the seeding script says it is ready, the record it made is         *)
(* finalized, pays, and nobody has claimed it: the claim panel has its     *)
(* button (seed-claimable.ts:2-10).                                        *)
(***************************************************************************)
THEOREM SeedReady == ScriptsSpec => []SeedLeavesAClaim
PROOF
  <1>1. ScriptsInv => SeedLeavesAClaim
    BY DEF ScriptsInv, SeedInv, SeedLeavesAClaim
  <1> QED
    BY <1>1, ScriptsInvariant, PTL

(***************************************************************************)
(* A lifecycle that reports success has resumed what it paused and put     *)
(* back the rate it raised, whatever failed to answer on the way           *)
(* (full-lifecycle.ts:323, 344).                                           *)
(***************************************************************************)
THEOREM NoTrace == ScriptsSpec => []SuccessLeavesNoTrace
PROOF
  <1>1. ScriptsInv => SuccessLeavesNoTrace
    BY DEF ScriptsInv, LifecycleInv, RunType, SuccessLeavesNoTrace
  <1> QED
    BY <1>1, ScriptsInvariant, PTL

----------------------------------------------------------------------------
(* A script is a client: whatever its calls meet, all it does to the program *)
(* is send it transactions.                                                  *)

LEMMA OnboardingSends ==
  ASSUME ScriptsInv, Up, Onboarding
  PROVE  [Transaction]_vars
PROOF
  <1>1. /\ GenesisAsk \in Nat /\ StakeAsk \in Nat /\ Owner \in Wallets
        /\ good \in Routers /\ bad \in Routers /\ goodDev \in DeviceKeys /\ badDev \in DeviceKeys
    BY Asks DEF ScriptsInv
  <1>2. CASE \E c \in Configs : InitializeProtocol(c)
    BY <1>2 DEF Transaction, ByAuthority
  <1>3. CASE MintGenesis(Owner, GenesisAsk)
    BY <1>1, <1>3 DEF Transaction, ByAuthority
  <1>4. CASE \/ RegisterRouter(good, goodDev) \/ RegisterRouter(bad, badDev)
             \/ EpochNow \in Epochs /\ Heartbeat(goodDev, good, EpochNow)
             \/ StakeCollateral(good, StakeAsk) \/ StakeCollateral(bad, StakeAsk)
    BY <1>1, <1>4 DEF Transaction, ByOperator
  <1> QED
    BY <1>2, <1>3, <1>4 DEF Onboarding, Initialize, Genesis

LEMMA UptimeSends ==
  ASSUME ScriptsInv, Up, Uptime
  PROVE  [Transaction]_vars
PROOF
  <1>1. good \in Routers /\ bad \in Routers /\ goodDev \in DeviceKeys /\ badDev \in DeviceKeys
    BY Asks DEF ScriptsInv
  <1>2. ASSUME NEW l \in {"beat", "beat_bad", "foreign"}, At(l)
        PROVE  run.epoch \in Epochs
    <2>1. l \notin Opening
      BY DEF Opening
    <2> QED
      BY <1>2, <2>1, ReadBefore DEF ScriptsInv
  <1>3. \/ UNCHANGED vars
        \/ /\ run.epoch \in Epochs
           /\ \/ Heartbeat(goodDev, good, run.epoch) \/ Heartbeat(badDev, bad, run.epoch)
              \/ Heartbeat(badDev, good, run.epoch)
    BY <1>2 DEF Uptime
  <1> QED
    BY <1>1, <1>3 DEF Transaction, ByOperator

LEMMA SettlementSends ==
  ASSUME ScriptsInv, Up, Settlement
  PROVE  [Transaction]_vars
PROOF
  <1>1. good \in Routers /\ bad \in Routers
    BY Asks DEF ScriptsInv
  <1>2. ASSUME NEW l \in {"finalize", "finalize_bad", "claim", "reclaim", "vest", "slash",
                          "reslash"}, At(l)
        PROVE  run.epoch \in Epochs
    <2>1. l \notin Opening
      BY DEF Opening
    <2> QED
      BY <1>2, <2>1, ReadBefore DEF ScriptsInv
  <1>3. CASE BurnTreasury(treasury - run.seen.treasury)
    <2>1. treasury - run.seen.treasury \in Nat
      BY <1>3, TypeParts DEF BurnTreasury, RunType, ScriptsInv
    <2> QED
      BY <1>3, <2>1 DEF Transaction, ByAuthority
  <1>4. \/ BurnTreasury(treasury - run.seen.treasury)
        \/ /\ run.epoch \in Epochs
           /\ \/ FinalizeRouterEpoch(good, run.epoch) \/ FinalizeRouterEpoch(bad, run.epoch)
              \/ ClaimReward(good, run.epoch) \/ ClaimVested(good, run.epoch)
              \/ SlashRouter(bad, run.epoch)
    BY <1>2 DEF Settlement
  <1> QED
    BY <1>1, <1>3, <1>4 DEF Transaction, ByOperator, Keeper

LEMMA GovernanceSends ==
  ASSUME ScriptsInv, Up, Governance
  PROVE  [Transaction]_vars
PROOF
  <1>0. TypeOK /\ RunType /\ EpochRead
    BY DEF ScriptsInv
  <1>1. /\ good \in Routers /\ UnstakeAsk \in Nat
        /\ replacement \in DeviceKeys /\ goodDev \in DeviceKeys
    BY <1>0, Asks
  <1>2. CASE At("paused") /\ Heartbeat(replacement, good, ProbeEpoch)
    <2>1. CASE ~Verify
      <3>1. ProbeEpoch = run.epoch /\ run.epoch \in Epochs
        BY <1>0, <1>2, <2>1, ReadBefore DEF ProbeEpoch, Opening
      <3> QED
        BY <1>1, <1>2, <3>1 DEF Transaction, ByOperator
    <2>2. CASE Verify
      <3>1. run.at \in 1 .. 13 /\ OperatorFlow[run.at] = "paused"
        BY <1>0, <1>2, <2>2 DEF At, Verify, Calls, RunType
      <3> QED
        BY <3>1, OperatorCalls
    <2> QED
      BY <2>1, <2>2
  <1>3. CASE \/ RotateDeviceKey(good, replacement)
             \/ ProbeEpoch \in Epochs /\ Heartbeat(goodDev, good, ProbeEpoch)
             \/ Unstake(good, UnstakeAsk)
    BY <1>1, <1>3 DEF Transaction, ByOperator
  <1>4. CASE PauseProtocol \/ ResumeProtocol \/ UpdateRewardRate(RAISED) \/ UpdateRewardRate(RATE)
    <2>1. RAISED \in Nat /\ RATE \in Nat
      BY DEF RAISED, RATE
    <2> QED
      BY <1>4, <2>1 DEF Transaction, ByAuthority
  <1> QED
    BY <1>2, <1>3, <1>4 DEF Governance

LEMMA ScriptsTransaction == ScriptsInv /\ [ScriptsNext]_scriptVars => [Transaction]_vars
PROOF
  <1> SUFFICES ASSUME ScriptsInv, [ScriptsNext]_scriptVars PROVE [Transaction]_vars
    OBVIOUS
  <1>1. ASSUME Up, Call PROVE [Transaction]_vars
    BY <1>1, OnboardingSends, UptimeSends, SettlementSends, GovernanceSends DEF Call
  <1>2. ASSUME Deploy \/ Crank \/ Wait PROVE [Transaction]_vars
    BY <1>2 DEF Deploy, Crank, Wait, Transaction, ByAuthority, Environment
  <1>3. ASSUME \E script \in {"lifecycle", "seed", "verify"} : Launch(script)
        PROVE  UNCHANGED vars
    BY <1>3 DEF Launch
  <1>4. Answered \/ Refused \/ Fails => UNCHANGED vars \/ (Up /\ Call)
    BY DEF Answered, Refused, Fails, Due
  <1>5. UNCHANGED scriptVars => UNCHANGED vars
    BY DEF scriptVars
  <1> QED
    BY <1>1, <1>2, <1>3, <1>4, <1>5 DEF ScriptsNext

(***************************************************************************)
(* Whatever a script finds deployed and however its calls are answered, it *)
(* only sends the program transactions: an epoch the program numbers, a    *)
(* burn of what there is, a device that is known.                          *)
(***************************************************************************)
THEOREM ScriptsSendTransactions == ScriptsSpec => [][Transaction]_vars
PROOF
  <1>1. ScriptsInv /\ [ScriptsNext]_scriptVars => [Transaction]_vars
    BY ScriptsTransaction
  <1> QED
    BY <1>1, ScriptsInvariant, PTL DEF ScriptsSpec

LEMMA ServiceUnderScripts == ScriptsSpec => []ServiceInv
PROOF
  <1>1. ScriptsInit => ServiceInv
    BY InitService DEF ScriptsInit
  <1> QED
    BY <1>1, ServiceInductive, ScriptsSendTransactions, PTL DEF ScriptsSpec

(***************************************************************************)
(* After every call the books balance; so the supply the lifecycle reads   *)
(* at its end is what was minted less what was burned                      *)
(* (full-lifecycle.ts:360-367); and no call blocks the crank.              *)
(***************************************************************************)
THEOREM BooksUnderScripts ==
  ScriptsSpec => [](VaultBacksStake /\ SlashedAsFixed /\ SupplyAccounted /\ NeverBlocked)
PROOF
  <1>1. ServiceInv => VaultBacksStake /\ SlashedAsFixed /\ SupplyAccounted
    BY DEF ServiceInv, LedgerInv
  <1> QED
    BY <1>1, Unblocked, ServiceUnderScripts, PTL

(***************************************************************************)
(* What the scripts issue, they issue as RewardIssuance says.              *)
(***************************************************************************)
THEOREM IssuanceUnderScripts == ScriptsSpec => ImplementsIssuance
PROOF
  <1>1. ScriptsInit => Issuance!Init
    BY IssuanceInit DEF ScriptsInit, Init, Unused
  <1>2. ServiceInv => ProgramInv
    BY ServiceParts
  <1> QED
    BY <1>1, <1>2, IssuanceStep, ServiceUnderScripts, ScriptsSendTransactions, PTL
       DEF ScriptsSpec, ImplementsIssuance, Issuance!Spec

----------------------------------------------------------------------------
(* The operator flow up to its probe.                                       *)

\* The device, registered by call 3, beats in calls 6 and 7 and is replaced by
\* call 11.
DeviceStands(n) ==
  LET device == router[good]
  IN  /\ n >= 4 => device.exists /\ device.status = "Active"
      /\ n \in 4 .. 6 => device.heartbeat_count = 0
      /\ n \in 4 .. 7 => device.uptime_score = MAX_SCORE
      /\ n >= 12 => device.device_pubkey = replacement

\* It has one record, that of the epoch e the flow has read, opened by call 6,
\* finalized by call 8 and known from call 9 on to pay.  A record of two heartbeats
\* is paid or slashed and never both.
RecordStands(n, e) ==
  LET ep == repoch[good][e]
  IN  /\ \A f \in Epochs : EpochOpened(good, f) => n >= 7 /\ f = e
      /\ n >= 7 => /\ EpochOpened(good, e)
                   /\ ep.heartbeats <= 1 \/ (n >= 8 /\ ep.heartbeats = 2)
                   /\ router[good].last_heartbeat < ep.end_time
                   /\ ep.reward_amount = 0 \/ ep.slash_amount = 0
      /\ n >= 9 => ep.finalized
      /\ n >= 10 => ep.reward_amount > 0

\* The collateral its heartbeats required is there unless that record was slashed.
CollateralStands(n, e) ==
  n >= 7 => \/ router[good].staked_amount >= config.min_stake
            \/ (repoch[good][e].finalized /\ repoch[good][e].slash_amount > 0)

Standing(n, e) ==
  ~protocol.is_paused /\ DeviceStands(n) /\ RecordStands(n, e) /\ CollateralStands(n, e)

OperatorInv ==
  run.script \in {"none", "verify"} /\ run.exit = Alive /\ run.at <= 12 =>
    Standing(run.at, run.epoch)

\* The calls of the operator flow by their places.
LEMMA OperatorPlaces ==
  /\ OperatorFlow[1] = "initialize" /\ OperatorFlow[2] = "genesis"
  /\ OperatorFlow[3] = "register" /\ OperatorFlow[4] = "stake"
  /\ OperatorFlow[5] = "read_epoch" /\ OperatorFlow[6] = "beat" /\ OperatorFlow[7] = "beat"
  /\ OperatorFlow[8] = "finalize" /\ OperatorFlow[9] = "claim" /\ OperatorFlow[10] = "vest"
  /\ OperatorFlow[11] = "rotate" /\ OperatorFlow[12] = "retired"
  /\ OperatorFlow[13] = "unstake"
BY DEF OperatorFlow, OperatorStart, OperatorBeats, OperatorPaid

LEMMA OperatorSends ==
  ASSUME Up, Verify, Call
  PROVE  /\ run.at = 1 => Initialize
         /\ run.at = 2 => Genesis
         /\ run.at = 3 => RegisterRouter(good, goodDev)
         /\ run.at = 4 => StakeCollateral(good, StakeAsk)
         /\ run.at = 5 => UNCHANGED vars
         /\ run.at \in {6, 7} => Heartbeat(goodDev, good, run.epoch)
         /\ run.at = 8 => FinalizeRouterEpoch(good, run.epoch)
         /\ run.at = 9 => ClaimReward(good, run.epoch)
         /\ run.at = 10 => ClaimVested(good, run.epoch)
         /\ run.at = 11 => RotateDeviceKey(good, replacement)
PROOF
  <1>1. \A l : At(l) => l = OperatorFlow[run.at]
    BY DEF At, Verify, Calls
  <1>2. run.at = 1 => Initialize
    BY <1>1, OperatorPlaces DEF Call, Onboarding, Uptime, Settlement, Governance
  <1>3. run.at = 2 => Genesis
    BY <1>1, OperatorPlaces DEF Call, Onboarding, Uptime, Settlement, Governance
  <1>4. run.at = 3 => RegisterRouter(good, goodDev)
    BY <1>1, OperatorPlaces DEF Call, Onboarding, Uptime, Settlement, Governance
  <1>5. run.at = 4 => StakeCollateral(good, StakeAsk)
    BY <1>1, OperatorPlaces DEF Call, Onboarding, Uptime, Settlement, Governance
  <1>6. run.at = 5 => UNCHANGED vars
    BY <1>1, OperatorPlaces DEF Call, Onboarding, Uptime, Settlement, Governance
  <1>7. run.at \in {6, 7} => Heartbeat(goodDev, good, run.epoch)
    BY <1>1, OperatorPlaces DEF Call, Onboarding, Uptime, Settlement, Governance
  <1>8. run.at = 8 => FinalizeRouterEpoch(good, run.epoch)
    BY <1>1, OperatorPlaces DEF Call, Onboarding, Uptime, Settlement, Governance
  <1>9. run.at = 9 => ClaimReward(good, run.epoch)
    BY <1>1, OperatorPlaces DEF Call, Onboarding, Uptime, Settlement, Governance
  <1>10. run.at = 10 => ClaimVested(good, run.epoch)
    BY <1>1, OperatorPlaces DEF Call, Onboarding, Uptime, Settlement, Governance
  <1>11. run.at = 11 => RotateDeviceKey(good, replacement)
    BY <1>1, OperatorPlaces DEF Call, Onboarding, Uptime, Settlement, Governance
  <1> QED
    BY <1>2, <1>3, <1>4, <1>5, <1>6, <1>7, <1>8, <1>9, <1>10, <1>11

\* What the flow stands on is still there after a step that leaves its router alone,
\* also where a call asks nothing new of it.
LEMMA StandingKept ==
  ASSUME NEW n \in 1 .. 12, NEW e, NEW m, NEW f, Standing(n, e), ~protocol'.is_paused,
         router'[good] = router[good], repoch'[good] = repoch[good],
         n >= 7 => config' = config,
         \/ m = n /\ f = e
         \/ n \in {1, 2, 10} /\ m = n + 1 /\ f = e
         \/ n = 5 /\ m = 6
  PROVE  Standing(m, f)'
PROOF
  <1>1. CASE m = n /\ f = e
    BY <1>1 DEF Standing, DeviceStands, RecordStands, CollateralStands, EpochOpened
  <1>2. CASE n \in {1, 2} /\ m = n + 1 /\ f = e
    BY <1>2 DEF Standing, DeviceStands, RecordStands, CollateralStands, EpochOpened
  <1>3. CASE n = 10 /\ m = 11 /\ f = e
    BY <1>3 DEF Standing, DeviceStands, RecordStands, CollateralStands, EpochOpened
  <1>4. CASE n = 5 /\ m = 6
    BY <1>4 DEF Standing, DeviceStands, RecordStands, CollateralStands, EpochOpened
  <1> QED
    BY <1>1, <1>2, <1>3, <1>4

LEMMA RegisterStands ==
  ASSUME TypeOK, NEW e, Standing(3, e), good \in Routers, goodDev \in DeviceKeys,
         RegisterRouter(good, goodDev)
  PROVE  Standing(4, e)'
PROOF
  <1>1. /\ router'[good].exists /\ router'[good].heartbeat_count = 0
        /\ router'[good].status = "Active" /\ router'[good].uptime_score = MAX_SCORE
    BY RegisterRouterEffect
  <1>2. repoch' = repoch /\ protocol'.is_paused = protocol.is_paused
    BY TypeParts DEF RegisterRouter, ProtocolType
  <1> QED
    BY <1>1, <1>2 DEF Standing, DeviceStands, RecordStands, CollateralStands, EpochOpened

LEMMA StakeStands ==
  ASSUME TypeOK, NEW e, Standing(4, e), good \in Routers, NEW amount \in Nat,
         StakeCollateral(good, amount)
  PROVE  Standing(5, e)'
PROOF
  <1>1. /\ router'[good].exists
        /\ router'[good].status = router[good].status
        /\ router'[good].uptime_score = router[good].uptime_score
        /\ router'[good].heartbeat_count = router[good].heartbeat_count
    BY StakeEffect
  <1>2. repoch' = repoch /\ protocol'.is_paused = protocol.is_paused
    BY TypeParts DEF StakeCollateral, ProtocolType
  <1> QED
    BY <1>1, <1>2 DEF Standing, DeviceStands, RecordStands, CollateralStands, EpochOpened

\* One late heartbeat does not suspend a router of full score.
LEMMA FullScoreStands ==
  ASSUME TypeOK, NEW r \in Routers, router[r].status = "Active",
         router[r].uptime_score = MAX_SCORE
  PROVE  Scored(r).status = "Active"
PROOF
  <1> DEFINE elapsed == now - router[r].last_heartbeat
             score == Calculate(router[r].uptime_score, elapsed,
                                config.heartbeat_interval).new_score
             missed == router[r].missed_heartbeats
                         + Calculate(router[r].uptime_score, elapsed,
                                     config.heartbeat_interval).missed_count
             status == IF ShouldSuspend(score) /\ router[r].status = "Active"
                       THEN "Suspended" ELSE router[r].status
  <1>0. router[r] \in RouterType
    BY TypeParts
  <1>1. Scored(r) = [router[r] EXCEPT !.uptime_score = score,
                       !.missed_heartbeats = missed, !.status = status]
    BY DEF Scored
  <1>2. score \in {100, 90}
    BY DEF Calculate, MAX_SCORE, LATE_DROP, Lesser, SaturatingSub
  <1>3. status = "Active"
    <2> HIDE DEF score
    <2> QED
      BY <1>2 DEF ShouldSuspend, SUSPENSION_THRESHOLD
  <1> HIDE DEF score, missed, status
  <1> QED
    BY <1>0, <1>1, <1>3 DEF RouterType

\* What a heartbeat leaves: a record that is open and in time, and one beat more.
LEMMA BeatEffect ==
  ASSUME ProgramInv, NEW r \in Routers, NEW k \in DeviceKeys, NEW e \in Epochs,
         Heartbeat(k, r, e)
  PROVE  /\ router[r].exists /\ router'[r].exists
         /\ router'[r].last_heartbeat < repoch'[r][e].end_time
         /\ router'[r].staked_amount >= config.min_stake
         /\ repoch'[r][e].heartbeats =
              (IF EpochOpened(r, e) THEN repoch[r][e].heartbeats ELSE 0) + 1
         /\ \A f \in Epochs \ {e} : repoch'[r][f] = repoch[r][f]
         /\ router[r].heartbeat_count # 0 /\ router[r].status = "Active"
              /\ router[r].uptime_score = MAX_SCORE => router'[r].status = "Active"
PROOF
  <1> DEFINE ep == OpenRouterEpoch(r, e)
             beats == ep.heartbeats + 1
             live == IF FirstBeat(r) THEN [router[r] EXCEPT !.status = "Active"]
                                     ELSE Scored(r)
             count == live.heartbeat_count + 1
  <1>0. TypeOK /\ AccountsInOrder
    BY InvParts
  <1>1. /\ repoch' = [repoch EXCEPT ![r][e] = [ep EXCEPT !.heartbeats = beats]]
        /\ router' = [router EXCEPT ![r] =
             [live EXCEPT !.last_heartbeat = now, !.heartbeat_count = count]]
        /\ router[r].exists /\ router[r].staked_amount >= config.min_stake
        /\ protocol.initialized
        /\ e = EpochNumberAt(protocol.genesis_time, config.epoch_duration, now)
    BY DEF Heartbeat, MayHeartbeat, CurrentEpoch, Running
  <1>2. ep \in RouterEpochType
    BY <1>0, <1>1, FreshRouterEpochType, TypeParts DEF OpenRouterEpoch
  <1>3. ep.heartbeats = IF EpochOpened(r, e) THEN repoch[r][e].heartbeats ELSE 0
    BY DEF OpenRouterEpoch, FreshRouterEpoch, NoRouterEpoch
  <1>4. live \in RouterType
    <2>1. router[r] \in RouterType /\ "Active" \in Statuses
      BY <1>0, TypeParts DEF Statuses
    <2>2. Scored(r) \in RouterType
      BY <1>0, ScoredType
    <2> QED
      BY <2>1, <2>2 DEF RouterType
  <1>5. ~FirstBeat(r) => live = Scored(r)
    OBVIOUS
  <1> HIDE DEF ep, beats, live, count
  <1>6. repoch'[r][e] = [ep EXCEPT !.heartbeats = beats]
        /\ \A f \in Epochs \ {e} : repoch'[r][f] = repoch[r][f]
    BY <1>0, <1>1, TypeParts
  <1>7. repoch'[r][e].heartbeats = beats
    BY <1>2, <1>6 DEF RouterEpochType
  <1>8. router'[r] = [live EXCEPT !.last_heartbeat = now, !.heartbeat_count = count]
    BY <1>0, <1>1, TypeParts
  <1>9. router'[r].last_heartbeat = now /\ router'[r].status = live.status
    BY <1>4, <1>8 DEF RouterType
  <1>10. router'[r].exists /\ router'[r].staked_amount = router[r].staked_amount
    BY <1>0, HeartbeatEffect
  <1>11. now < repoch'[r][e].end_time
    <2> DEFINE g == protocol.genesis_time
               d == config.epoch_duration
    <2>1. repoch'[r][e].end_time = EpochEnd(g, d, e)
      BY HeartbeatRecord
    <2>2. g \in Nat /\ g <= now /\ now \in Nat
      BY <1>0, <1>1, TypeParts DEF AccountsInOrder, ProtocolType
    <2>3. d \in Nat \ {0}
      <3>1. /\ config.epoch_duration \in Int /\ config.heartbeat_interval \in Int
            /\ config.heartbeat_interval >= 60
            /\ config.epoch_duration >= config.heartbeat_interval * 2
        BY <1>0, <1>1 DEF TypeOK, ConfigType, ValidConfig, MIN_HEARTBEATS_PER_EPOCH
      <3> QED
        BY <3>1
    <2>4. e = EpochNumberAt(g, d, now)
      BY <1>1
    <2> HIDE DEF g, d
    <2> QED
      BY <2>1, <2>2, <2>3, <2>4, EpochContainsNow
  <1>12. ASSUME router[r].heartbeat_count # 0, router[r].status = "Active",
                router[r].uptime_score = MAX_SCORE
         PROVE  router'[r].status = "Active"
    <2>1. Scored(r).status = "Active"
      BY <1>0, <1>12, FullScoreStands
    <2> QED
      BY <1>5, <1>9, <1>12, <2>1 DEF FirstBeat
  <1> QED
    BY <1>1, <1>3, <1>7, <1>9, <1>10, <1>11, <1>12 , <1>6 DEF beats

LEMMA BeatStands ==
  ASSUME ProgramInv, NEW n \in {6, 7}, NEW e \in Epochs, Standing(n, e),
         good \in Routers, goodDev \in DeviceKeys, Heartbeat(goodDev, good, e)
  PROVE  Standing(n + 1, e)'
PROOF
  <1>0. TypeOK
    BY InvParts
  <1>1. /\ router[good].exists /\ router'[good].exists
        /\ router'[good].last_heartbeat < repoch'[good][e].end_time
        /\ router'[good].staked_amount >= config.min_stake
        /\ repoch'[good][e].heartbeats =
             (IF EpochOpened(good, e) THEN repoch[good][e].heartbeats ELSE 0) + 1
        /\ \A f \in Epochs \ {e} : repoch'[good][f] = repoch[good][f]
        /\ router[good].heartbeat_count # 0 /\ router[good].status = "Active"
             /\ router[good].uptime_score = MAX_SCORE => router'[good].status = "Active"
    BY BeatEffect
  <1>2. /\ repoch'[good][e].reward_amount = 0 /\ repoch'[good][e].expected_heartbeats # 0
        /\ UNCHANGED <<config, protocol>>
    BY HeartbeatRecord
  <1>3. router[good].heartbeat_count = 0 =>
          router'[good].status = "Active" /\ router'[good].uptime_score = router[good].uptime_score
    BY <1>0, HeartbeatEffect
  <1>4. ~protocol'.is_paused
    BY <1>2 DEF Standing
  <1>5. DeviceStands(n + 1)'
    BY <1>1, <1>3 DEF Standing, DeviceStands
  <1>6. CollateralStands(n + 1, e)'
    BY <1>1, <1>2 DEF CollateralStands
  <1>7. \A f \in Epochs : EpochOpened(good, f)' => f = e
    BY <1>1 DEF Standing, RecordStands, EpochOpened
  <1>8. repoch'[good][e].heartbeats <= 1 \/ (n = 7 /\ repoch'[good][e].heartbeats = 2)
    <2>1. repoch[good][e].heartbeats \in Nat
      BY <1>0, TypeParts DEF RouterEpochType
    <2>2. EpochOpened(good, e) => n = 7 /\ repoch[good][e].heartbeats <= 1
      BY DEF Standing, RecordStands
    <2> QED
      BY <1>1, <2>1, <2>2
  <1>9. RecordStands(n + 1, e)'
    BY <1>1, <1>2, <1>7, <1>8 DEF RecordStands, EpochOpened
  <1> QED
    BY <1>4, <1>5, <1>6, <1>9 DEF Standing

LEMMA FinalizePaysOrSlashes ==
  ASSUME TypeOK, NEW r \in Routers, NEW e \in Epochs, FinalizeRouterEpoch(r, e),
         repoch[r][e].heartbeats <= 2
  PROVE  repoch'[r][e].reward_amount = 0 \/ repoch'[r][e].slash_amount = 0
PROOF
  <1> DEFINE ep == repoch[r][e]
             em == OpenEmission(e)
             uptime == MeasuredUptime(ep)
             base == BaseReward(ep)
             reward == Reward(ep, em)
             slash == SlashFor(stake[r].amount, uptime)
  <1>1. /\ repoch' = [repoch EXCEPT ![r][e] = [ep EXCEPT !.uptime_bps = uptime,
             !.reward_amount = reward, !.slash_amount = slash, !.finalized = TRUE]]
        /\ EpochOpened(r, e) /\ Fits(em.total_emission) /\ Fits(base)
    BY DEF FinalizeRouterEpoch, MayFinalize
  <1>2. ep \in RouterEpochType /\ stake[r].amount \in Nat
    BY TypeParts DEF StakeType
  <1>3. em \in EmissionType
    BY <1>1, OpenEmissionType
  <1>4. reward = 0 \/ slash = 0
    <2>1. ep.heartbeats \in 0 .. 2 /\ ep.expected_heartbeats \in Nat \ {0}
      BY <1>1, <1>2 DEF EpochOpened, RouterEpochType
    <2>2. base \in Nat
      BY <1>1, MaxU64Assumption DEF Fits
    <2>3. uptime = UptimeBps(ep.heartbeats, ep.expected_heartbeats)
      BY DEF MeasuredUptime
    <2>4. reward = Lesser(TieredReward(base, uptime), Remaining(em))
      BY DEF Reward
    <2>5. Remaining(em) \in Nat
      BY <1>3 DEF Remaining, SaturatingSub, EmissionType
    <2> HIDE DEF reward, base, uptime
    <2>6. TieredReward(base, uptime) = 0 \/ slash = 0
      BY <1>2, <2>1, <2>2, <2>3, PaidOrSlashed
    <2> HIDE DEF slash
    <2> QED
      BY <2>4, <2>5, <2>6 DEF Lesser
  <1> HIDE DEF ep, em, uptime, base, reward, slash
  <1>5. repoch'[r][e] = [ep EXCEPT !.uptime_bps = uptime, !.reward_amount = reward,
                           !.slash_amount = slash, !.finalized = TRUE]
    BY <1>1, TypeParts
  <1>6. repoch'[r][e].reward_amount = reward /\ repoch'[r][e].slash_amount = slash
    BY <1>2, <1>5 DEF RouterEpochType
  <1> QED
    BY <1>4, <1>6

\* Whoever finalizes the flow's router finalizes its one record, at a time the flow
\* can bear it.
LEMMA FinalizeStands ==
  ASSUME TypeOK, NEW n \in 1 .. 12, NEW e, Standing(n, e), good \in Routers,
         NEW f \in Epochs, FinalizeRouterEpoch(good, f)
  PROVE  f = e /\ n \in {7, 8} /\ Standing(n, e)' /\ repoch'[good][e].finalized
PROOF
  <1>1. /\ EpochOpened(good, f)
        /\ ~repoch[good][f].finalized /\ repoch'[good][f].finalized
        /\ repoch'[good][f].end_time = repoch[good][f].end_time
        /\ repoch'[good][f].heartbeats = repoch[good][f].heartbeats
        /\ repoch'[good][f].expected_heartbeats = repoch[good][f].expected_heartbeats
        /\ UNCHANGED <<config, protocol, router>>
    BY FinalizeEffect
  <1>2. f = e /\ n \in {7, 8}
    BY <1>1 DEF Standing, RecordStands
  <1>3. \A g \in Epochs \ {e} : repoch'[good][g] = repoch[good][g]
    BY <1>2, FinalizeOthers
  <1>4. repoch[good][e].heartbeats <= 2
    <2>1. repoch[good][e].heartbeats <= 1 \/ repoch[good][e].heartbeats = 2
      BY <1>2 DEF Standing, RecordStands
    <2>2. repoch[good][e].heartbeats \in Nat
      BY <1>2, TypeParts DEF RouterEpochType
    <2> QED
      BY <2>1, <2>2
  <1>5. repoch'[good][e].reward_amount = 0 \/ repoch'[good][e].slash_amount = 0
    BY <1>2, <1>4, FinalizePaysOrSlashes
  <1>6. RecordStands(n, e)'
    BY <1>1, <1>2, <1>3, <1>5 DEF Standing, RecordStands, EpochOpened
  <1>7. ~protocol'.is_paused /\ DeviceStands(n)'
    BY <1>1 DEF Standing, DeviceStands
  <1>8. CollateralStands(n, e)'
    BY <1>1, <1>2 DEF Standing, CollateralStands
  <1> QED
    BY <1>1, <1>2, <1>6, <1>7, <1>8 DEF Standing

LEMMA ClaimStands ==
  ASSUME TypeOK, NEW e \in Epochs, Standing(9, e), good \in Routers, ClaimReward(good, e)
  PROVE  Standing(10, e)'
PROOF
  <1> DEFINE rewards == router[good].total_rewards + repoch[good][e].reward_amount
             ep == ClaimRecorded(good, e)
  <1>1. /\ repoch'[good][e].finalized /\ repoch[good][e].reward_amount > 0
        /\ repoch'[good][e].end_time = repoch[good][e].end_time
        /\ repoch'[good][e].heartbeats = repoch[good][e].heartbeats
        /\ repoch'[good][e].expected_heartbeats = repoch[good][e].expected_heartbeats
        /\ repoch'[good][e].reward_amount = repoch[good][e].reward_amount
        /\ repoch'[good][e].slash_amount = repoch[good][e].slash_amount
        /\ config' = config
    BY ClaimEffect
  <1>2. /\ router' = [router EXCEPT ![good] = [router[good] EXCEPT !.total_rewards = rewards]]
        /\ repoch' = [repoch EXCEPT ![good][e] = ep]
    BY DEF ClaimReward
  <1>3. protocol'.is_paused = protocol.is_paused
    BY TypeParts DEF ClaimReward, ProtocolType
  <1> HIDE DEF rewards, ep
  <1>4. \A g \in Epochs \ {e} : repoch'[good][g] = repoch[good][g]
    BY <1>2, TypeParts
  <1>5. /\ router'[good].exists = router[good].exists
        /\ router'[good].status = router[good].status
        /\ router'[good].last_heartbeat = router[good].last_heartbeat
        /\ router'[good].staked_amount = router[good].staked_amount
    BY <1>2, TypeParts DEF RouterType
  <1>6. RecordStands(10, e)'
    BY <1>1, <1>4, <1>5 DEF Standing, RecordStands, EpochOpened
  <1>7. ~protocol'.is_paused /\ DeviceStands(10)'
    BY <1>3, <1>5 DEF Standing, DeviceStands
  <1>8. CollateralStands(10, e)'
    BY <1>1, <1>5 DEF Standing, CollateralStands
  <1> QED
    BY <1>6, <1>7, <1>8 DEF Standing

LEMMA RotateStands ==
  ASSUME TypeOK, NEW e, Standing(11, e), good \in Routers, replacement \in DeviceKeys,
         RotateDeviceKey(good, replacement)
  PROVE  Standing(12, e)'
PROOF
  <1> DEFINE version == router[good].device_key_version + 1
  <1>1. /\ router' = [router EXCEPT ![good] = [router[good] EXCEPT
             !.device_pubkey = replacement, !.device_key_version = version]]
        /\ UNCHANGED <<config, protocol, repoch>>
    BY TypeParts DEF RotateDeviceKey
  <1> HIDE DEF version
  <1>2. /\ router'[good].exists = router[good].exists
        /\ router'[good].status = router[good].status
        /\ router'[good].last_heartbeat = router[good].last_heartbeat
        /\ router'[good].staked_amount = router[good].staked_amount
        /\ router'[good].device_pubkey = replacement
    BY <1>1, TypeParts DEF RouterType
  <1> QED
    BY <1>1, <1>2 DEF Standing, DeviceStands, RecordStands, CollateralStands, EpochOpened

LEMMA SlashStands ==
  ASSUME TypeOK, AccountsInOrder, NEW n \in 1 .. 12, NEW e, Standing(n, e),
         good \in Routers, NEW f \in Epochs, SlashRouter(good, f)
  PROVE  Standing(n, e)'
PROOF
  <1> DEFINE ep == [repoch[good][f] EXCEPT !.slashed = TRUE]
             left == SaturatingSub(stake[good].amount, SlashDue(good, f))
             penalties == router[good].total_penalties + SlashDue(good, f)
  <1>1. /\ repoch[good][f].finalized /\ repoch'[good][f].finalized
        /\ repoch'[good][f].end_time = repoch[good][f].end_time
        /\ repoch'[good][f].heartbeats = repoch[good][f].heartbeats
        /\ repoch'[good][f].expected_heartbeats = repoch[good][f].expected_heartbeats
        /\ repoch'[good][f].reward_amount = repoch[good][f].reward_amount
        /\ repoch'[good][f].slash_amount = repoch[good][f].slash_amount
    BY SlashRecord
  <1>2. /\ repoch' = [repoch EXCEPT ![good][f] = ep]
        /\ router' = [router EXCEPT ![good] = [router[good] EXCEPT
             !.staked_amount = left, !.total_penalties = penalties]]
        /\ SlashDue(good, f) > 0
    BY TypeParts DEF SlashRouter, MaySlash
  <1>3. protocol'.is_paused = protocol.is_paused
    BY TypeParts DEF SlashRouter, ProtocolType
  <1> HIDE DEF ep, left, penalties
  <1>4. f = e /\ n >= 7
    BY <1>1 DEF AccountsInOrder, Standing, RecordStands
  <1>5. repoch[good][e].slash_amount > 0
    <2>1. repoch[good][e].slash_amount \in Nat /\ stake[good].amount \in Nat
      BY <1>4, TypeParts DEF RouterEpochType, StakeType
    <2> QED
      BY <1>2, <1>4, <2>1 DEF SlashDue, Lesser
  <1>6. \A g \in Epochs \ {e} : repoch'[good][g] = repoch[good][g]
    BY <1>2, <1>4, TypeParts
  <1>7. /\ router'[good].exists = router[good].exists
        /\ router'[good].status = router[good].status
        /\ router'[good].heartbeat_count = router[good].heartbeat_count
        /\ router'[good].uptime_score = router[good].uptime_score
        /\ router'[good].device_pubkey = router[good].device_pubkey
        /\ router'[good].last_heartbeat = router[good].last_heartbeat
    BY <1>2, TypeParts DEF RouterType
  <1>8. RecordStands(n, e)'
    BY <1>1, <1>4, <1>6, <1>7 DEF Standing, RecordStands, EpochOpened
  <1>9. ~protocol'.is_paused /\ DeviceStands(n)'
    BY <1>3, <1>7 DEF Standing, DeviceStands
  <1>10. CollateralStands(n, e)'
    BY <1>1, <1>4, <1>5 DEF CollateralStands
  <1> QED
    BY <1>8, <1>9, <1>10 DEF Standing

LEMMA CrankStands ==
  ASSUME ProgramInv, ClaimedSettled, NEW n \in 1 .. 12, NEW e, Standing(n, e), good \in Routers,
         NEW r \in Routers, Keeper(r)
  PROVE  Standing(n, e)'
PROOF
  <1>0. TypeOK /\ AccountsInOrder
    BY InvParts
  <1>1. CASE r = good
    BY <1>0, <1>1, FinalizeStands, SlashStands DEF Keeper
  <1>2. CASE r # good
    <2>1. router'[good] = router[good] /\ repoch'[good] = repoch[good] /\ config' = config
      BY <1>0, <1>2, TypeParts DEF Keeper, FinalizeRouterEpoch, SlashRouter
    <2>2. ~protocol'.is_paused
      BY <1>0, KeeperSettled DEF Standing
    <2> QED
      BY <2>1, <2>2, StandingKept
  <1> QED
    BY <1>1, <1>2

\* What is at stake is what the run's own place asks for.
LEMMA StandingAt ==
  ASSUME NEW m, NEW f, run'.at = m, run'.epoch = f, Standing(m, f)'
  PROVE  OperatorInv'
BY DEF OperatorInv, Standing, DeviceStands, RecordStands, CollateralStands, EpochOpened

LEMMA NothingAtStake ==
  ASSUME \/ Ends
         \/ run'.script \notin {"none", "verify"}
         \/ run'.at = 13
  PROVE  OperatorInv'
BY DEF OperatorInv, Ends, Alive

LEMMA ContinueStands ==
  ASSUME RunType, Up, NEW failures, NEW skip \in {0, 1}, NEW disturbed,
         Continue(failures, skip, disturbed),
         NEW n, NEW e, NEW f, n = run.at, e = run.epoch,
         f = IF At("read_epoch") THEN EpochNow ELSE e,
         Verify /\ n + skip <= 11 => Standing(n + 1 + skip, f)'
  PROVE  OperatorInv'
PROOF
  <1>1. CASE IsLast
    BY <1>1, ContinueEnds, NothingAtStake
  <1>2. CASE ~IsLast
    <2>1. /\ run'.script = run.script /\ run'.at = n + 1 + skip /\ run'.epoch = f
      BY <1>2, ContinueMoves
    <2>2. CASE ~Verify
      BY <2>1, <2>2, NothingAtStake DEF Up, Verify
    <2>3. CASE Verify /\ n + skip <= 11
      BY <2>1, <2>3, StandingAt
    <2>4. CASE Verify /\ ~(n + skip <= 11)
      <3>1. n \in 1 .. 13 /\ Calls(run.script) = OperatorFlow
        BY <2>4 DEF RunType, Verify, Calls
      <3>2. n # 13
        BY <1>2, <3>1, OperatorCalls DEF IsLast
      <3>3. n + 1 + skip = 13 \/ n + 1 + skip = 14
        BY <2>4, <3>1, <3>2
      <3> QED
        BY <2>1, <3>3 DEF OperatorInv
    <2> QED
      BY <2>2, <2>3, <2>4
  <1> QED
    BY <1>1, <1>2

LEMMA OperatorAnswered ==
  ASSUME ScriptsInv, ProgramInv, Up, Verify, Call,
         NEW n \in 1 .. 11, NEW e, NEW f, n = run.at, e = run.epoch, Standing(n, e),
         n # 5 => f = e
  PROVE  Standing(n + 1, f)'
PROOF
  <1>0. TypeOK /\ RunType /\ EpochRead
    BY DEF ScriptsInv
  <1>1. /\ GenesisAsk \in Nat /\ StakeAsk \in Nat /\ Owner \in Wallets
        /\ good \in Routers /\ goodDev \in DeviceKeys /\ replacement \in DeviceKeys
    BY <1>0, Asks
  <1>2. n >= 6 => e \in Epochs
    BY <1>0 DEF EpochRead, Verify, Opened
  <1>3. CASE n = 1
    <2>1. Initialize
      BY <1>3, OperatorSends
    <2>2. /\ ~protocol'.is_paused /\ router' = router /\ repoch' = repoch
      BY <2>1 DEF Initialize, InitializeProtocol, NoProtocol, Standing, vars, accounts
    <2> QED
      BY <1>3, <2>2, StandingKept
  <1>4. CASE n = 2
    <2>1. Genesis
      BY <1>4, OperatorSends
    <2>2. /\ ~protocol'.is_paused /\ router' = router /\ repoch' = repoch
      BY <1>0, <2>1, TypeParts
         DEF Genesis, MintGenesis, ProtocolType, Standing, vars, accounts
    <2> QED
      BY <1>4, <2>2, StandingKept
  <1>5. CASE n = 3
    BY <1>0, <1>1, <1>5, OperatorSends, RegisterStands
  <1>6. CASE n = 4
    BY <1>0, <1>1, <1>6, OperatorSends, StakeStands
  <1>7. CASE n = 5
    <2>1. UNCHANGED vars
      BY <1>7, OperatorSends
    <2>2. /\ ~protocol'.is_paused /\ router' = router /\ repoch' = repoch
      BY <2>1 DEF Standing, vars, accounts
    <2> QED
      BY <1>7, <2>2, StandingKept
  <1>8. CASE n \in {6, 7}
    BY <1>1, <1>2, <1>8, OperatorSends, BeatStands
  <1>9. CASE n = 8
    <2>1. FinalizeRouterEpoch(good, e)
      BY <1>9, OperatorSends
    <2>2. Standing(n, e)' /\ repoch'[good][e].finalized
      BY <1>0, <1>1, <1>2, <1>9, <2>1, FinalizeStands
    <2> QED
      BY <1>9, <2>2 DEF Standing, DeviceStands, RecordStands, CollateralStands
  <1>10. CASE n = 9
    BY <1>0, <1>1, <1>2, <1>10, OperatorSends, ClaimStands
  <1>11. CASE n = 10
    <2>1. ClaimVested(good, e)
      BY <1>11, OperatorSends
    <2>2. /\ ~protocol'.is_paused /\ router' = router /\ repoch' = repoch
          /\ config' = config
      BY <1>0, <2>1, TypeParts DEF ClaimVested, ProtocolType, Standing
    <2> QED
      BY <1>11, <2>2, StandingKept
  <1>12. CASE n = 11
    BY <1>0, <1>1, <1>12, OperatorSends, RotateStands
  <1> QED
    BY <1>3, <1>4, <1>5, <1>6, <1>7, <1>8, <1>9, <1>10, <1>11, <1>12

LEMMA AnsweredStands ==
  ASSUME ScriptsInv, ProgramInv, OperatorInv, Answered
  PROVE  OperatorInv'
PROOF
  <1>0. RunType /\ Up /\ Call
    BY DEF ScriptsInv, Answered, Due
  <1>1. PICK n : n = run.at
    OBVIOUS
  <1>2. PICK e : e = run.epoch
    OBVIOUS
  <1>3. PICK f : f = IF At("read_epoch") THEN EpochNow ELSE e
    OBVIOUS
  <1>4. PICK failures, disturbed : Continue(failures, 0, disturbed)
    BY DEF Answered
  <1>5. ASSUME Verify, n + 0 <= 11
        PROVE  Standing(n + 1 + 0, f)'
    <2>1. n \in 1 .. 11
      BY <1>0, <1>1, <1>5 DEF RunType, Verify
    <2>2. Standing(n, e)
      BY <1>0, <1>1, <1>2, <1>5, <2>1 DEF OperatorInv, Verify, Up
    <2>3. n # 5 => f = e
      <3>1. At("read_epoch") => OperatorFlow[n] = "read_epoch"
        BY <1>1, <1>5 DEF At, Verify, Calls
      <3>2. OperatorFlow[n] = "read_epoch" => n = 5
        BY <2>1, OperatorPlaces
      <3> QED
        BY <1>3, <3>1, <3>2
    <2>4. Standing(n + 1, f)'
      BY <1>0, <1>1, <1>2, <1>5, <2>1, <2>2, <2>3, OperatorAnswered
    <2>5. n + 1 + 0 = n + 1
      BY <2>1
    <2> QED
      BY <2>4, <2>5
  <1> QED
    BY <1>0, <1>1, <1>2, <1>3, <1>4, <1>5, ContinueStands

\* The calls that are to be refused stand at place 12, and only the vested claim may
\* throw on the way there.
LEMMA OperatorPassed ==
  ASSUME ScriptsInv, ProgramInv, OperatorInv, Up, Call \/ UNCHANGED vars,
         NEW failures, NEW skip \in {0, 1}, NEW disturbed,
         Continue(failures, skip, disturbed),
         ExpectsRefusal \/ (Verify /\ GoesOn),
         Verify /\ GoesOn => (skip = 1 <=> At("rotate"))
  PROVE  OperatorInv'
PROOF
  <1>0. RunType
    BY DEF ScriptsInv
  <1>1. PICK n : n = run.at
    OBVIOUS
  <1>2. PICK e : e = run.epoch
    OBVIOUS
  <1>3. PICK f : f = IF At("read_epoch") THEN EpochNow ELSE e
    OBVIOUS
  <1>4. ASSUME Verify, n + skip <= 11
        PROVE  Standing(n + 1 + skip, f)'
    <2>1. n \in 1 .. 11
      BY <1>0, <1>1, <1>4 DEF RunType, Verify
    <2>2. \A l : At(l) <=> l = OperatorFlow[n]
      BY <1>1, <1>4 DEF At, Verify, Calls
    <2>3. ~ExpectsRefusal
      BY <2>1, <2>2, OperatorPlaces DEF ExpectsRefusal
    <2>4. n \in {10, 11} /\ (skip = 1 <=> n = 11)
      BY <1>4, <2>1, <2>2, <2>3, OperatorPlaces DEF GoesOn
    <2>5. n = 10 /\ skip = 0
      BY <1>4, <2>4
    <2>6. Standing(n, e)
      BY <1>0, <1>1, <1>2, <1>4, <2>5 DEF OperatorInv, Verify, Up
    <2>7. f = e
      BY <1>3, <2>2, <2>5, OperatorPlaces
    <2>8. Standing(11, e)'
      <3>1. CASE UNCHANGED vars
        <4>1. /\ ~protocol'.is_paused /\ router' = router /\ repoch' = repoch
              /\ config' = config
          BY <3>1, <2>6 DEF Standing, vars, accounts
        <4> QED
          BY <2>5, <2>6, <4>1, StandingKept
      <3>2. CASE Call
        <4>1. Standing(n + 1, e)'
          BY <1>1, <1>2, <1>4, <2>1, <2>6, <3>2, OperatorAnswered
        <4> QED
          BY <2>5, <4>1
      <3> QED
        BY <3>1, <3>2
    <2> QED
      BY <2>5, <2>7, <2>8
  <1> QED
    BY <1>0, <1>1, <1>2, <1>3, <1>4, ContinueStands

LEMMA ThrowsStands ==
  ASSUME ScriptsInv, ProgramInv, OperatorInv, Up, Call \/ UNCHANGED vars, NEW disturbed,
         Throws(disturbed) \/ ReadThrows
  PROVE  OperatorInv'
PROOF
  <1>1. RunType
    BY DEF ScriptsInv
  <1>2. CASE Ends
    BY <1>2, NothingAtStake
  <1>3. CASE /\ Verify /\ GoesOn
             /\ \E skip \in {0, 1} :
                  /\ skip = 1 <=> At("rotate")
                  /\ Continue({Label}, skip, disturbed)
    <2>1. PICK skip \in {0, 1} : /\ skip = 1 <=> At("rotate")
                                 /\ Continue({Label}, skip, disturbed)
      BY <1>3
    <2> QED
      BY <1>3, <2>1, OperatorPassed
  <1> QED
    BY <1>1, <1>2, <1>3, ThrowsEffect

LEMMA RefusedStands ==
  ASSUME ScriptsInv, ProgramInv, OperatorInv, Refused
  PROVE  OperatorInv'
PROOF
  <1>1. Up /\ UNCHANGED vars
    BY DEF Refused, Due
  <1>2. CASE ExpectsRefusal
    <2>1. PICK disturbed : Continue({}, 0, disturbed)
      BY <1>2 DEF Refused
    <2>2. ~GoesOn
      BY <1>2 DEF ExpectsRefusal, GoesOn, At
    <2> QED
      BY <1>1, <1>2, <2>1, <2>2, OperatorPassed
  <1>3. CASE ~ExpectsRefusal
    <2>1. \E disturbed : Throws(disturbed)
      BY <1>3, Zenon DEF Refused
    <2>2. PICK disturbed : Throws(disturbed)
      BY <2>1
    <2> QED
      BY <1>1, <2>2, ThrowsStands
  <1> QED
    BY <1>2, <1>3

LEMMA FailsStands ==
  ASSUME ScriptsInv, ProgramInv, OperatorInv, Fails
  PROVE  OperatorInv'
PROOF
  <1>1. Up /\ (Call \/ UNCHANGED vars)
    BY DEF Fails, Due
  <1>2. CASE ExpectsRefusal
    <2>1. \E disturbed : Continue({}, 0, disturbed)
      BY <1>2, Zenon DEF Fails
    <2>2. PICK disturbed : Continue({}, 0, disturbed)
      BY <2>1
    <2>3. ~GoesOn
      BY <1>2 DEF ExpectsRefusal, GoesOn, At
    <2> QED
      BY <1>1, <1>2, <2>2, <2>3, OperatorPassed
  <1>3. CASE ~ExpectsRefusal
    <2>1. Throws(TRUE) \/ ReadThrows
      BY <1>3 DEF Fails
    <2> QED
      BY <1>1, <2>1, ThrowsStands
  <1> QED
    BY <1>2, <1>3

\* Steps that leave the run where it is: a launch, a deployment before it, the crank
\* and the clock.
LEMMA BesideStands ==
  ASSUME ScriptsInv, ProgramInv, OperatorInv,
         \/ \E script \in {"lifecycle", "seed", "verify"} : Launch(script)
         \/ Deploy \/ Crank \/ Wait \/ UNCHANGED scriptVars
  PROVE  OperatorInv'
PROOF
  <1>0. TypeOK /\ RunType /\ ClaimedSettled
    BY DEF ScriptsInv
  <1>1. good \in Routers
    BY ScriptsAssumption
  <1>2. PICK n : n = run.at
    OBVIOUS
  <1>3. PICK e : e = run.epoch
    OBVIOUS
  <1>4. /\ run'.at = n /\ run'.epoch = e /\ run'.exit = run.exit
        /\ run'.script \in {"none", "verify"} => run.script \in {"none", "verify"}
    <2>1. CASE \E script \in {"lifecycle", "seed", "verify"} : Launch(script)
      <3>1. PICK script \in {"lifecycle", "seed", "verify"} : Launch(script)
        BY <2>1
      <3>2. run.script = "none" /\ run' = [run EXCEPT !.script = script]
        BY <3>1 DEF Launch
      <3> QED
        BY <1>0, <1>2, <1>3, <3>2 DEF RunType, IsARun, RunFields
    <2>2. CASE Crank
      <3>1. run' = [run EXCEPT !.disturbed = TRUE]
        BY <2>2 DEF Crank
      <3> QED
        BY <1>0, <1>2, <1>3, <3>1 DEF RunType, IsARun, RunFields
    <2>3. CASE Deploy \/ Wait \/ UNCHANGED scriptVars
      BY <1>2, <1>3, <2>3 DEF Deploy, Wait, scriptVars
    <2> QED
      BY <2>1, <2>2, <2>3
  <1>5. CASE run'.script \in {"none", "verify"} /\ run.exit = Alive /\ n <= 12
    <2>1. n \in 1 .. 12 /\ Standing(n, e)
      BY <1>0, <1>2, <1>3, <1>4, <1>5 DEF RunType, OperatorInv
    <2>2. Standing(n, e)'
      <3>1. CASE Crank
        <4>1. PICK r \in Routers : Keeper(r)
          BY <3>1 DEF Crank
        <4> QED
          BY <1>0, <1>1, <2>1, <4>1, CrankStands
      <3>2. CASE Deploy
        <4>1. n = 1
          BY <1>0, <1>2, <3>2 DEF Deploy, RunType
        <4>2. /\ ~protocol'.is_paused /\ router' = router /\ repoch' = repoch
          BY <3>2 DEF Deploy, InitializeProtocol, NoProtocol, accounts
        <4> QED
          BY <2>1, <4>1, <4>2, StandingKept
      <3>3. CASE \/ \E script \in {"lifecycle", "seed", "verify"} : Launch(script)
                 \/ Wait \/ UNCHANGED scriptVars
        <4>1. /\ ~protocol'.is_paused /\ router' = router /\ repoch' = repoch
              /\ config' = config
          BY <2>1, <3>3 DEF Launch, Wait, Tick, scriptVars, vars, accounts, Standing
        <4> QED
          BY <2>1, <4>1, StandingKept
      <3> QED
        BY <3>1, <3>2, <3>3
    <2> QED
      BY <1>4, <2>2, StandingAt
  <1>6. CASE ~(run'.script \in {"none", "verify"} /\ run.exit = Alive /\ n <= 12)
    BY <1>4, <1>6 DEF OperatorInv
  <1> QED
    BY <1>5, <1>6

LEMMA OperatorStep ==
  ASSUME ScriptsInv, ServiceInv, OperatorInv, [ScriptsNext]_scriptVars
  PROVE  OperatorInv'
PROOF
  <1>1. ProgramInv
    BY ServiceParts
  <1> QED
    BY <1>1, AnsweredStands, RefusedStands, FailsStands, BesideStands DEF ScriptsNext

LEMMA BeforeTheFlow == ScriptsInit => OperatorInv
PROOF
  <1> SUFFICES ASSUME ScriptsInit PROVE OperatorInv
    OBVIOUS
  <1>1. run.at = 1 /\ ~protocol.is_paused
    BY DEF ScriptsInit, Init, NoProtocol
  <1>2. good \in Routers
    BY ScriptsAssumption
  <1>3. \A f \in Epochs : ~EpochOpened(good, f)
    BY <1>2 DEF ScriptsInit, Init, EpochOpened, NoRouterEpoch
  <1> QED
    BY <1>1, <1>3 DEF OperatorInv, Standing, DeviceStands, RecordStands, CollateralStands

(***************************************************************************)
(* At every call of the operator flow its router stands as the calls       *)
(* before have left it, whoever turned the crank meanwhile: active, with   *)
(* one record that pays or is slashed, and with its collateral unless that *)
(* record was slashed.                                                     *)
(***************************************************************************)
THEOREM OperatorStands == ScriptsSpec => []OperatorInv
PROOF
  <1>1. ScriptsInit => OperatorInv
    BY BeforeTheFlow
  <1>2. ScriptsInv /\ ServiceInv /\ OperatorInv /\ [ScriptsNext]_scriptVars => OperatorInv'
    BY OperatorStep
  <1> QED
    BY <1>1, <1>2, ScriptsInvariant, ServiceUnderScripts, PTL DEF ScriptsSpec

\* When the retired key is tried, the window of the flow's record has closed, so the
\* last heartbeat is past and the epoch of the probe has no settled record; and the
\* claim was answered, so that the record pays and took no collateral.
LEMMA ReplacementBeats ==
  ASSUME ScriptsInv, ProgramInv, OperatorInv, Verify, At("retired"), NEW p \in Epochs,
         p = EpochNow
  PROVE  MayHeartbeat(replacement, good, p)
PROOF
  <1>0. /\ TypeOK /\ RunType /\ EpochRead /\ AccountsInOrder /\ FinalizedAfterWindow
        /\ good \in Routers
    BY InvParts, ScriptsAssumption DEF ScriptsInv
  <1>1. run.at = 12
    <2>1. run.at \in 1 .. 13 /\ OperatorFlow[run.at] = "retired"
      BY <1>0 DEF RunType, Verify, At, Calls
    <2> QED
      BY <2>1, OperatorPlaces
  <1>2. PICK e : e = run.epoch
    OBVIOUS
  <1>3. e \in Epochs
    BY <1>0, <1>1, <1>2 DEF EpochRead, Verify, Opened
  <1>4. Standing(12, e)
    BY <1>1, <1>2 DEF OperatorInv, Verify, At, Up
  <1>5. /\ ~protocol.is_paused
        /\ router[good].exists /\ router[good].status = "Active"
        /\ router[good].device_pubkey = replacement
        /\ \A f \in Epochs : EpochOpened(good, f) => f = e
        /\ EpochOpened(good, e) /\ repoch[good][e].finalized
        /\ router[good].last_heartbeat < repoch[good][e].end_time
    BY <1>4 DEF Standing, DeviceStands, RecordStands
  <1>6. router[good].staked_amount >= config.min_stake
    <2>1. repoch[good][e].reward_amount > 0
          /\ (repoch[good][e].reward_amount = 0 \/ repoch[good][e].slash_amount = 0)
      BY <1>4 DEF Standing, RecordStands
    <2>2. ~(repoch[good][e].slash_amount > 0)
      BY <2>1
    <2> QED
      BY <1>4, <2>2 DEF Standing, CollateralStands
  <1>7. protocol.initialized /\ protocol.genesis_time <= now
    BY <1>0, <1>3, <1>5 DEF AccountsInOrder
  <1>8. /\ now >= repoch[good][e].end_time
        /\ repoch[good][e].end_time = EpochEnd(protocol.genesis_time, config.epoch_duration, e)
    BY <1>0, <1>3, <1>5 DEF FinalizedAfterWindow
  <1>9. now > router[good].last_heartbeat
    <2>1. /\ now \in Int /\ router[good].last_heartbeat \in Int
          /\ repoch[good][e].end_time \in Int
      BY <1>0, <1>3, TypeParts DEF RouterType, RouterEpochType
    <2> QED
      BY <1>5, <1>8, <2>1
  <1>10. p # e
    <2> DEFINE g == protocol.genesis_time
               d == config.epoch_duration
    <2>1. g \in Nat /\ g <= now /\ now \in Nat
      BY <1>0, <1>7, TypeParts DEF ProtocolType
    <2>2. d \in Nat \ {0}
      <3>1. /\ config.epoch_duration \in Int /\ config.heartbeat_interval \in Int
            /\ config.heartbeat_interval >= 60
            /\ config.epoch_duration >= config.heartbeat_interval * 2
        BY <1>0, <1>7 DEF TypeOK, ConfigType, ValidConfig, MIN_HEARTBEATS_PER_EPOCH
      <3> QED
        BY <3>1
    <2>3. p = EpochNumberAt(g, d, now) /\ EpochEnd(g, d, e) <= now
      BY <1>8 DEF EpochNow
    <2>4. EpochEnd(g, d, p) \in Int /\ EpochEnd(g, d, e) \in Int
      <3>1. p \in Nat /\ e \in Nat
        BY <1>3, RouterPulseAssumption
      <3> HIDE DEF g, d
      <3> QED
        BY <2>1, <2>2, <3>1 DEF EpochEnd, EpochStart
    <2> HIDE DEF g, d
    <2>5. now < EpochEnd(g, d, p)
      BY <2>1, <2>2, <2>3, EpochContainsNow
    <2> QED
      BY <2>1, <2>3, <2>4, <2>5
  <1>11. Unsettled(OpenRouterEpoch(good, p))
    <2>1. ~EpochOpened(good, p)
      BY <1>5, <1>10
    <2> QED
      BY <1>0, <1>7, <2>1, FreshRouterEpochWindow DEF Unsettled, OpenRouterEpoch
  <1>12. CurrentEpoch(p)
    BY DEF CurrentEpoch, EpochNow
  <1> QED
    BY <1>5, <1>6, <1>7, <1>9, <1>11, <1>12 DEF MayHeartbeat, Running

(***************************************************************************)
(* The probe of the operator flow is conclusive: at the moment the retired *)
(* key is tried, the device's new key would be accepted, whoever finalized *)
(* or slashed the record before the flow did, whatever call was lost on    *)
(* the way.  So the refusal the script reports is about the key and about  *)
(* nothing else.                                                           *)
(***************************************************************************)
THEOREM ProbeSafe == ScriptsSpec => []OperatorFlowConclusive
PROOF
  <1>1. ScriptsInv /\ ServiceInv /\ OperatorInv => OperatorFlowConclusive
    <2> SUFFICES ASSUME ScriptsInv, ServiceInv, OperatorInv, Verify, At("retired"),
                        ProbeEpoch \in Epochs
                 PROVE  \E k \in DeviceKeys : MayHeartbeat(k, good, ProbeEpoch)
      BY DEF OperatorFlowConclusive, ProbeConclusive
    <2>1. ProgramInv
      BY ServiceParts
    <2>2. ProbeEpoch = EpochNow
      BY DEF ProbeEpoch
    <2>3. MayHeartbeat(replacement, good, ProbeEpoch)
      BY <2>1, <2>2, ReplacementBeats
    <2>4. replacement \in DeviceKeys
      BY ScriptsAssumption
    <2> QED
      BY <2>3, <2>4
  <1> QED
    BY <1>1, ScriptsInvariant, ServiceUnderScripts, OperatorStands, PTL

=============================================================================
