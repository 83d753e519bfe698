------------------------------ MODULE Scripts ------------------------------
(***************************************************************************)
(* The scripts that exercise a deployed program: the lifecycle and the     *)
(* seeding of routerpulse/scripts, and the operator flow of web/scripts.   *)
(* Each is a client of RouterPulse that sends one transaction after the    *)
(* other from the authority's wallet, waits out a real epoch, and asserts  *)
(* on what it reads back; some calls it expects to be refused.             *)
(*                                                                         *)
(* A script is the sequence of its calls.  Between two of them time        *)
(* passes, anyone may turn the crank, and a call may throw: not executed,  *)
(* or executed and not confirmed.  What is read before a call to be        *)
(* compared afterwards is kept in run.seen.                                *)
(*                                                                         *)
(* Abstracted: printing, funding of devices, token accounts.  A token is   *)
(* 1000 units; times are the scripts' own, rounded up to the clock's.  A   *)
(* call that throws is not executed later: nearly all of them end the      *)
(* script, and what is called after the others does not read what they     *)
(* write.                                                                  *)
(***************************************************************************)
EXTENDS RouterPulse, Sequences

CONSTANTS
  Owner,               \* the wallet in ~/.config/solana/id.json, the authority
  good, bad,           \* the routers a run registers; two scripts only the first
  goodDev, badDev, replacement

ASSUME ScriptsAssumption ==
  /\ {good, bad} \subseteq Routers /\ good # bad
  /\ {goodDev, badDev, replacement} \subseteq DeviceKeys
  /\ Cardinality({goodDev, badDev, replacement}) = 3
  /\ \A r \in Routers : OwnerOf[r] = Owner

VARIABLE
  run   \* [script, at, epoch, wake, seen, failed, exit, disturbed]

scriptVars == <<vars, run>>

----------------------------------------------------------------------------
RATE   == 2
RAISED == 3
TOKEN  == 1000

Alive == -1     \* run.exit before the process has ended

Up      == run.script # "none" /\ run.exit = Alive
Verify  == run.script = "verify"

Supply == vault + treasury + TotalWallets

Snapshot == [vault |-> vault, treasury |-> treasury, supply |-> Supply,
             balance |-> wallet[Owner]]

----------------------------------------------------------------------------
(* The calls of each script, in order. *)

Bootstrap   == <<"initialize", "genesis">>
Onboard     == <<"register", "register_bad">>
Collateral  == <<"gate", "stake", "stake_bad">>
Performance == <<"read_epoch", "beat", "beat", "beat_bad", "foreign">>
Closing     == <<"finalize", "finalize_bad">>
Claiming    == <<"claim", "reclaim", "vest">>
Slashing    == <<"slash", "reslash", "burn">>
Recovery    == <<"rotate", "retired">>

\* Leaves the raised rate behind (mutation).
GovernUnrestored == <<"pause", "paused", "resume", "raise", "audit">>
Govern           == <<"pause", "paused", "resume", "raise", "audit", "restore">>

Lifecycle ==
  Bootstrap \o Onboard \o Collateral \o Performance \o Closing \o Claiming \o Slashing
    \o Recovery \o Govern \o <<"unstake">>

SeedStart == <<"fetch", "genesis", "register", "stake">>

\* Goes on to the claim the demonstration is about (mutation).
SeedClaiming == SeedStart \o <<"read_epoch", "beat", "beat", "finalize", "claim">>

Seed == SeedStart \o <<"read_epoch", "beat", "beat", "finalize">>

OperatorStart == <<"initialize", "genesis", "register", "stake">>
OperatorBeats == <<"read_epoch", "beat", "beat">>
OperatorPaid  == <<"finalize", "claim", "vest">>
OperatorFlow  == OperatorStart \o OperatorBeats \o OperatorPaid \o <<"rotate", "retired", "unstake">>

Calls(script) ==
  CASE script = "lifecycle" -> Lifecycle
    [] script = "seed"      -> Seed
    [] script = "verify"    -> OperatorFlow

At(l)  == Up /\ Calls(run.script)[run.at] = l
IsLast == run.at = Len(Calls(run.script))
Next_  == IF IsLast THEN "end" ELSE Calls(run.script)[run.at + 1]

----------------------------------------------------------------------------
(* The transactions behind the names. *)

EpochNow == EpochNumberAt(protocol.genesis_time, config.epoch_duration, now)

\* The seeding script tops up to the minimum stake, the others take a round sum.
GenesisAsk ==
  CASE run.script = "lifecycle" -> 1000 * TOKEN
    [] run.script = "verify"    -> 500 * TOKEN
    [] run.script = "seed"      -> SaturatingSub(config.min_stake, wallet[Owner])
StakeAsk   == IF run.script = "seed" THEN config.min_stake ELSE 10 * TOKEN
UnstakeAsk == (IF Verify THEN 1 ELSE 5) * TOKEN

\* The probes of the operator flow are sent in the epoch of its heartbeats, too
\* (mutation).
ProbeEpochStale == run.epoch

\* The lifecycle sends its last heartbeats in the epoch it read in act 5.
ProbeEpoch == IF Verify THEN EpochNow ELSE run.epoch

Initialize ==
  IF protocol.initialized THEN UNCHANGED vars ELSE \E c \in Configs : InitializeProtocol(c)
Genesis == IF GenesisAsk = 0 THEN UNCHANGED vars ELSE MintGenesis(Owner, GenesisAsk)

Onboarding ==
  \/ At("fetch") /\ protocol.initialized /\ UNCHANGED vars
  \/ At("initialize") /\ Initialize
  \/ At("genesis") /\ Genesis
  \/ At("register") /\ RegisterRouter(good, goodDev)
  \/ At("register_bad") /\ RegisterRouter(bad, badDev)
  \/ At("gate") /\ EpochNow \in Epochs /\ Heartbeat(goodDev, good, EpochNow)
  \/ At("stake") /\ StakeCollateral(good, StakeAsk)
  \/ At("stake_bad") /\ StakeCollateral(bad, StakeAsk)

Uptime ==
  \/ At("read_epoch") /\ UNCHANGED vars
  \/ At("beat") /\ Heartbeat(goodDev, good, run.epoch)
  \/ At("beat_bad") /\ Heartbeat(badDev, bad, run.epoch)
  \/ At("foreign") /\ Heartbeat(badDev, good, run.epoch)

Settlement ==
  \/ At("finalize") /\ FinalizeRouterEpoch(good, run.epoch)
  \/ At("finalize_bad") /\ FinalizeRouterEpoch(bad, run.epoch)
  \/ At("claim") /\ ClaimReward(good, run.epoch)
  \/ At("reclaim") /\ ClaimReward(good, run.epoch)
  \/ At("vest") /\ ClaimVested(good, run.epoch)
  \/ At("slash") /\ SlashRouter(bad, run.epoch)
  \/ At("reslash") /\ SlashRouter(bad, run.epoch)
  \/ At("burn") /\ BurnTreasury(treasury - run.seen.treasury)

Governance ==
  \/ At("rotate") /\ RotateDeviceKey(good, replacement)
  \/ At("retired") /\ ProbeEpoch \in Epochs /\ Heartbeat(goodDev, good, ProbeEpoch)
  \/ At("pause") /\ PauseProtocol
  \/ At("paused") /\ Heartbeat(replacement, good, ProbeEpoch)
  \/ At("resume") /\ ResumeProtocol
  \/ At("raise") /\ UpdateRewardRate(RAISED)
  \/ At("audit") /\ UNCHANGED vars
  \/ At("restore") /\ UpdateRewardRate(RATE)
  \/ At("unstake") /\ Unstake(good, UnstakeAsk)

Call == Onboarding \/ Uptime \/ Settlement \/ Governance

----------------------------------------------------------------------------
(* Assertions and the end of a run. *)

ExpectsRefusal == \E l \in {"gate", "foreign", "reclaim", "reslash", "retired", "paused"} : At(l)

\* What a call that succeeded is asserted to have done.
AsExpected ==
  LET seen == run.seen
      ep   == repoch'[good][run.epoch]
      v    == vesting'[good][run.epoch]
      gained == wallet'[Owner] - seen.balance
  IN CASE At("stake") /\ Verify -> vault' - seen.vault = StakeAsk
       [] At("stake_bad") -> vault' - seen.vault = 2 * StakeAsk
       [] At("finalize_bad") ->
            LET failing == repoch'[bad][run.epoch]
            IN  /\ ep.reward_amount > 0 /\ ep.slash_amount = 0
                /\ failing.reward_amount = 0 /\ failing.slash_amount > 0
       [] At("finalize") /\ run.script # "lifecycle" -> ep.reward_amount > 0
       [] At("claim") -> Supply' = seen.supply
       [] At("vest") -> gained > 0 /\ gained < v.total_amount
       [] At("slash") -> treasury' - seen.treasury = repoch'[bad][run.epoch].slash_amount
       [] At("burn") -> Supply' = seen.supply - (treasury - seen.treasury)
       [] At("rotate") -> /\ router'[good].device_pubkey = replacement
                          /\ router'[good].device_key_version >= 1
       [] At("unstake") ->
            /\ seen.vault - vault' = UnstakeAsk
            /\ ~Verify => Supply' = protocol'.total_minted - protocol'.total_burned
       [] ExpectsRefusal -> FALSE
       [] OTHER -> TRUE

Label == Calls(run.script)[run.at]

\* The vested claim is sent at once (mutation).
WakeEarly(l) ==
  CASE l = "beat" -> now' + 1
    [] l = "finalize" -> EpochEnd(protocol.genesis_time, config.epoch_duration, run.epoch)
    [] OTHER -> 0

\* When the next call is due: heartbeats need different seconds, the epoch has to
\* close, the cliff has to pass.
Wake(l) ==
  CASE l = "beat" -> now' + 1
    [] l = "finalize" -> EpochEnd(protocol.genesis_time, config.epoch_duration, run.epoch)
    [] l = "vest" -> now' + 9
    [] OTHER -> 0

Measured == {"stake", "claim", "vest", "slash", "unstake"}

\* Goes on behind the next `skip` calls, or ends with the exit code.
Continue(failures, skip, disturbed) ==
  LET failed == run.failed \cup failures
  IN  IF IsLast
      THEN run' = [run EXCEPT !.failed = failed, !.disturbed = disturbed,
                              !.exit = IF failed = {} THEN 0 ELSE 1]
      ELSE run' = [run EXCEPT !.failed = failed, !.disturbed = disturbed,
                     !.at = @ + 1 + skip,
                     !.wake = Wake(Next_),
                     !.seen = IF Next_ \in Measured THEN Snapshot' ELSE @,
                     !.epoch = IF At("read_epoch") THEN EpochNow ELSE @]

\* Whether the operator flow goes on after `bad(...)`, and over how many calls.
GoesOn == Verify /\ \E l \in {"vest", "rotate", "unstake"} : At(l)

\* A call threw.  The operator flow counts it and, unless it goes on, returns from
\* main(): the process ends without an exit code of its own.
Throws(disturbed) ==
  CASE GoesOn -> Continue({Label}, IF At("rotate") THEN 1 ELSE 0, disturbed)
    [] Verify /\ ~GoesOn ->
         run' = [run EXCEPT !.failed = @ \cup {Label}, !.exit = 0, !.disturbed = disturbed]
    [] OTHER -> run' = [run EXCEPT !.exit = 1, !.disturbed = disturbed]

\* A read outside of any try: the catch of main().
ReadThrows == run' = [run EXCEPT !.exit = 1, !.disturbed = TRUE]

----------------------------------------------------------------------------
(* Steps. *)

\* The clock has left the epoch of the heartbeats, or the grant has vested whole.
TooLate ==
  \/ (At("beat") \/ At("beat_bad")) /\ EpochNow # run.epoch
  \/ At("vest") /\ Vested(vesting[good][run.epoch], now) = vesting[good][run.epoch].total_amount

Due == Up /\ now >= run.wake

Answered ==
  /\ Due /\ Call
  /\ At("read_epoch") => EpochNow \in Epochs
  /\ Continue(IF AsExpected THEN {} ELSE {Label}, 0, run.disturbed \/ TooLate)

Refused ==
  /\ Due /\ ~ENABLED Call
  /\ UNCHANGED vars
  /\ IF ExpectsRefusal THEN Continue({}, 0, run.disturbed)
                       ELSE Throws(run.disturbed \/ TooLate)

\* Failed connections and foreign cranks: one disturbance in a run (bound).
Disturbs == ~run.disturbed

\* The connection fails, with or without the call having been executed.
Fails ==
  /\ Due /\ Disturbs
  /\ Call \/ UNCHANGED vars
  /\ CASE ExpectsRefusal -> Continue({}, 0, TRUE)
       [] OTHER -> Throws(TRUE) \/ ReadThrows

Launch(script) ==
  /\ run.script = "none"
  /\ script = "seed" => protocol.initialized
  /\ run' = [run EXCEPT !.script = script]
  /\ UNCHANGED vars

\* Someone else is first to finalize or slash.
Crank ==
  /\ Up /\ Disturbs
  /\ \E r \in Routers : Keeper(r)
  /\ run' = [run EXCEPT !.disturbed = TRUE]

Wait == (\E d \in TickSteps : Tick(d)) /\ run.exit = Alive /\ UNCHANGED run

ScriptsInit ==
  /\ Init
  /\ run = [script |-> "none", at |-> 1, epoch |-> 0, wake |-> 0, seen |-> Snapshot,
            failed |-> {}, exit |-> Alive, disturbed |-> FALSE]

\* The protocol may have been deployed before, by an earlier script.
Deploy ==
  run.script = "none" /\ (\E c \in Configs : InitializeProtocol(c)) /\ UNCHANGED run

ScriptsNext ==
  \/ Deploy
  \/ \E script \in {"lifecycle", "seed", "verify"} : Launch(script)
  \/ Answered \/ Refused \/ Fails
  \/ Crank \/ Wait

ScriptsSpec == ScriptsInit /\ [][ScriptsNext]_scriptVars

----------------------------------------------------------------------------
(* Properties. *)

\* Wherever in an epoch a script is launched: with no other keeper at work, no
\* connection lost, and its heartbeats and its vested claim in time, every
\* assertion holds and it ends with 0.
AssertionsHold == ~run.disturbed => run.failed = {} /\ run.exit # 1

\* The seeding script says it is ready only if the claim panel has a button to
\* press, whatever went wrong on the way (seed-claimable.ts:2-10).
SeedLeavesAClaim ==
  run.script = "seed" /\ run.exit = 0 =>
    LET ep == repoch[good][run.epoch]
    IN  ep.finalized /\ ~ep.claimed /\ ep.reward_amount > 0

\* A lifecycle that reports success leaves the protocol running at the rate it
\* deploys with (full-lifecycle.ts:323, 344).
SuccessLeavesNoTrace ==
  run.script = "lifecycle" /\ run.exit = 0 =>
    ~protocol.is_paused /\ protocol.reward_rate = RATE

\* The retired key is tried where the current one would be accepted, so that its
\* refusal shows that rotation took effect.
ProbeConclusive ==
  At("retired") /\ ProbeEpoch \in Epochs =>
    \E k \in DeviceKeys : MayHeartbeat(k, good, ProbeEpoch)

OperatorFlowConclusive == Verify => ProbeConclusive

=============================================================================
