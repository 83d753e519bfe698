----------------------------- MODULE Simulator ------------------------------
(***************************************************************************)
(* The device simulator and keeper (routerpulse/simulator/src): one        *)
(* process that owns several routers through one wallet, as a client of    *)
(* the on-chain program of RouterPulse.  It registers its routers one      *)
(* after the other, then runs one async loop per router: heartbeat, then   *)
(* settle the epoch before.                                                *)
(*                                                                         *)
(* A step is what happens between two awaits.  A transaction a client      *)
(* sends is accepted, refused by the program, or given up: the call throws *)
(* (an RPC error, a confirmation timeout) or the process ends while the    *)
(* network may still execute it, at once, much later, after the client or  *)
(* the next launch has read the accounts again, or never.  The process may *)
(* exit at any await and be launched again.                                *)
(*                                                                         *)
(* Abstracted: missed heartbeats and the sleeps between two turns change   *)
(* no state; counters that are only printed are left out.  A transaction   *)
(* given up never expires, where the network forgets it with its blockhash *)
(* (a minute or two).  Lamports are counted in thousands.                  *)
(***************************************************************************)
EXTENDS RouterPulse, Sequences

CONSTANTS
  Wallet,          \* the wallet of loadWallet(), owner of every router
  IsAuthority,     \* it is the protocol authority, too
  RegisterOrder,   \* routerConfigs: a sequence of all the routers
  SeedKey,         \* [Routers -> DeviceKeys]: sha256(DEVICE_KEY_SEED:routerId)
  Skews,           \* what Date.now() may differ from the chain's clock by
  Funds,           \* DEVICE_FUND_LAMPORTS
  MaxFaults,       \* calls that throw in a run (bound)
  MaxLaunches      \* processes in a run (bound)

DEVICE_MIN_LAMPORTS == 5000

ASSUME SimulatorAssumption ==
  /\ Wallet \in Wallets /\ \A r \in Routers : OwnerOf[r] = Wallet
  /\ \A e \in Epochs : e > 0 => e - 1 \in Epochs
  /\ Routers = {RegisterOrder[i] : i \in 1 .. Len(RegisterOrder)}
  /\ SeedKey \in [Routers -> DeviceKeys]
  /\ IsAuthority \in BOOLEAN
  /\ Skews \subseteq Int /\ Funds \in Nat /\ Funds >= DEVICE_MIN_LAMPORTS
  /\ MaxFaults \in Nat /\ MaxLaunches \in Nat

VARIABLES
  main,       \* the process: [pc, turn, draw, seeded, seedless, stopped, launches]
  sim,        \* [Routers -> RouterSimulator]
  lamports,   \* [DeviceKeys -> SOL balance of the device]
  faults,     \* calls that have thrown
  sent,       \* transactions given up that the network may still execute
  late        \* history: those executed after their account was read again

simVars == <<main, sim, lamports, faults, sent, late>>
allVars == <<vars, simVars>>

----------------------------------------------------------------------------
\* Rent of one RouterEpoch account, which the device pays, and the balance below
\* which no account may be left.
EPOCH_RENT  == 1545
RENT_EXEMPT == 891

Never == -1

\* A RouterSimulator before register().
Fresh == [pc |-> "off", device |-> NoKey, existing |-> FALSE, amount |-> 0,
          epoch |-> 0, ep |-> NoRouterEpoch, last |-> Never,
          running |-> FALSE, started |-> FALSE]

At(r, p)   == sim[r].pc = p
Goto(r, p) == [sim EXCEPT ![r].pc = p]
Alive      == main.pc # "exited"

\* Someone deployed the protocol before the simulator is launched.
SimInit ==
  /\ \E c \in Configs :
       /\ ValidConfig(c) /\ config = c
       /\ protocol = [NoProtocol EXCEPT !.initialized = TRUE,
            !.genesis_time = StartTime, !.reward_rate = c.reward_rate]
  /\ now = StartTime
  /\ router = [r \in Routers |-> NoRouter]
  /\ stake = [r \in Routers |-> NoStake]
  /\ repoch = [r \in Routers |-> [e \in Epochs |-> NoRouterEpoch]]
  /\ emission = [e \in Epochs |-> NoEmission]
  /\ vesting = [r \in Routers |-> [e \in Epochs |-> NoVesting]]
  /\ vault = 0 /\ treasury = 0
  /\ wallet = [w \in Wallets |-> 0]
  /\ main = [pc |-> "exited", turn |-> 0, draw |-> 0, seeded |-> FALSE,
             seedless |-> FALSE, stopped |-> FALSE, launches |-> 0]
  /\ sim = [r \in Routers |-> Fresh]
  /\ lamports = [k \in DeviceKeys |-> 0]
  /\ faults = 0
  /\ sent = {}
  /\ late = [draws |-> 0, stakes |-> [r \in Routers |-> 0], keys |-> {}]

----------------------------------------------------------------------------
(* Transactions. *)

SettleSteps == {"fetch", "finalize", "slash", "claim", "vest"}
Calls == {"fund", "register", "rotate", "stake", "beat"} \cup (SettleSteps \ {"fetch"})

Previous(r) == sim[r].epoch - 1

\* The transaction of the call an instance waits for, and the one of main().
Request(r) ==
  [call |-> sim[r].pc, router |-> r, device |-> sim[r].device,
   epoch |-> IF At(r, "beat") THEN sim[r].epoch ELSE Previous(r),
   amount |-> sim[r].amount, nr |-> faults, outrun |-> FALSE]
Draw == [call |-> "mint", amount |-> main.draw, nr |-> faults, outrun |-> FALSE]

\* The device pays for the epoch record its first heartbeat of the epoch opens.
PaysRent(t) ==
  EpochOpened(t.router, t.epoch) \/ lamports[t.device] >= EPOCH_RENT + RENT_EXEMPT

\* The network executes a transaction.
Executes(t) ==
  \/ /\ t.call = "fund" /\ UNCHANGED vars
     /\ lamports' = [lamports EXCEPT ![t.device] = @ + t.amount]
  \/ /\ t.call = "beat" /\ PaysRent(t) /\ Heartbeat(t.device, t.router, t.epoch)
     /\ lamports' = [lamports EXCEPT ![t.device] =
                       IF EpochOpened(t.router, t.epoch) THEN @ ELSE @ - EPOCH_RENT]
  \/ /\ UNCHANGED lamports
     /\ \/ t.call = "mint" /\ MintGenesis(Wallet, t.amount)
        \/ t.call = "register" /\ RegisterRouter(t.router, t.device)
        \/ t.call = "rotate" /\ RotateDeviceKey(t.router, t.device)
        \/ t.call = "stake" /\ StakeCollateral(t.router, t.amount)
        \/ t.call = "finalize" /\ FinalizeRouterEpoch(t.router, t.epoch)
        \/ t.call = "slash" /\ SlashRouter(t.router, t.epoch)
        \/ t.call = "claim" /\ ClaimReward(t.router, t.epoch)
        \/ t.call = "vest" /\ ClaimVested(t.router, t.epoch)

\* Those in flight whose account a client is reading before they are executed.
Outrun(old) == (sent \ old) \cup {[t EXCEPT !.outrun = TRUE] : t \in old}

PendingDraws        == {t \in sent : t.call = "mint"}
Pending(call, r)    == {t \in sent : t.call = call /\ t.router = r}

\* What the history keeps of a transaction that was outrun.
Counted(t) ==
  IF ~t.outrun THEN late
  ELSE CASE t.call = "mint"   -> [late EXCEPT !.draws = @ + 1]
         [] t.call = "stake"  -> [late EXCEPT !.stakes[t.router] = @ + 1]
         [] t.call = "rotate" -> [late EXCEPT !.keys = @ \cup {t.router}]
         [] OTHER             -> late

\* A transaction whose sender gave up on it is executed after all.
Lands ==
  \E t \in sent :
    /\ Executes(t)
    /\ sent' = sent \ {t}
    /\ late' = Counted(t)
    /\ UNCHANGED <<main, sim, faults>>

Fails == faults < MaxFaults /\ faults' = faults + 1

----------------------------------------------------------------------------
(* The process. *)

Launch ==
  /\ ~Alive /\ main.launches < MaxLaunches
  /\ \E seeded \in BOOLEAN :
       main' = [pc |-> "top_up", turn |-> 0, draw |-> 0, seeded |-> seeded,
                seedless |-> main.seedless \/ ~seeded, stopped |-> FALSE,
                launches |-> main.launches + 1]
  /\ UNCHANGED <<vars, sim, lamports, faults, sent, late>>

\* process.exit: Ctrl-C at any time, main() after the last loop, or its catch.
Exit ==
  /\ main' = [main EXCEPT !.pc = "exited", !.draw = 0]
  /\ sim' = [r \in Routers |-> Fresh]

\* Asks for the full amount whatever the wallet holds already (mutation).
RequiredBlindly == config.min_stake * (Cardinality(Routers) + 1)

\* What the wallet lacks to stake every router and one more.
Required ==
  SaturatingSub(config.min_stake * (Cardinality(Routers) + 1), wallet[Wallet])

ReadWallet ==
  /\ main.pc = "top_up"
  /\ main' = IF Required > 0 /\ IsAuthority
             THEN [main EXCEPT !.pc = "mint", !.draw = Required]
             ELSE [main EXCEPT !.pc = "register"]
  /\ sent' = Outrun(PendingDraws)
  /\ UNCHANGED <<vars, sim, lamports, faults, late>>

\* The next router of routerConfigs once the one before is registered and staked.
RegisterNext ==
  LET r == RegisterOrder[main.turn + 1]
  IN  /\ main.pc = "register"
      /\ main.turn < Len(RegisterOrder)
      /\ main.turn > 0 => At(RegisterOrder[main.turn], "ready")
      /\ main' = [main EXCEPT !.turn = @ + 1]
      /\ sim' = Goto(r, "lookup")
      /\ UNCHANGED <<vars, lamports, faults, sent, late>>

AllRegistered ==
  /\ main.pc = "register"
  /\ \A r \in Routers : At(r, "ready")
  /\ main' = [main EXCEPT !.pc = "run"]
  /\ UNCHANGED <<vars, sim, lamports, faults, sent, late>>

\* RUN_DURATION_MS is over: every instance is asked to stop, started or not.
StopAll ==
  /\ main.pc = "run" /\ ~main.stopped
  /\ main' = [main EXCEPT !.stopped = TRUE]
  /\ sim' = [r \in Routers |-> [sim[r] EXCEPT !.running = FALSE]]
  /\ UNCHANGED <<vars, lamports, faults, sent, late>>

\* Starts are staggered, so one may come after the stop.
Start(r) ==
  /\ main.pc = "run" /\ At(r, "ready")
  /\ sim' = [sim EXCEPT ![r].running = TRUE, ![r].started = TRUE, ![r].pc = "loop"]
  /\ UNCHANGED <<vars, main, lamports, faults, sent, late>>

----------------------------------------------------------------------------
(* What an instance reads between two transactions. *)

\* A device no process has used before, or the one derived from the seed.
DeriveDevice(r) ==
  IF main.seeded THEN {SeedKey[r]}
  ELSE LET unused == {k \in DeviceKeys : lamports[k] = 0}
                       \ ({SeedKey[x] : x \in Routers}
                            \cup {t.device : t \in sent \ PendingDraws})
       IN  IF unused = {} THEN {} ELSE {CHOOSE k \in unused : TRUE}

Lookup(r) ==
  /\ At(r, "lookup")
  /\ \E k \in DeriveDevice(r) :
       sim' = [sim EXCEPT ![r].device = k, ![r].existing = router[r].exists,
                          ![r].pc = "balance"]
  /\ UNCHANGED <<vars, main, lamports, faults, sent, late>>

\* Where register() goes on once the device is funded.
Funded(r) == IF sim[r].existing THEN "compare" ELSE "register"

\* Funding is skipped when the device holds enough.
ReadBalance(r) ==
  /\ At(r, "balance")
  /\ LET balance == lamports[sim[r].device]
     IN  sim' = IF balance >= DEVICE_MIN_LAMPORTS THEN Goto(r, Funded(r))
                ELSE [sim EXCEPT ![r].amount = Funds - balance, ![r].pc = "fund"]
  /\ UNCHANGED <<vars, main, lamports, faults, sent, late>>

\* Re-attaches to a registered router without rotating its key (mutation).
NeverRotates(r) == FALSE

\* Only a key that differs is rotated.
Rotates(r) == router[r].device_pubkey # sim[r].device

Compare(r) ==
  /\ At(r, "compare")
  /\ sim' = Goto(r, IF Rotates(r) THEN "rotate" ELSE "measure")
  /\ sent' = Outrun(Pending("rotate", r))
  /\ late' = [late EXCEPT !.keys = @ \ {r}]
  /\ UNCHANGED <<vars, main, lamports, faults>>

\* Where the instance goes on when it is collateralized.
Resting(r) == IF sim[r].started THEN "loop" ELSE "ready"

\* Stakes the minimum whatever is staked already (mutation).
WholeMinimum(r) == IF router[r].staked_amount >= config.min_stake THEN 0
                   ELSE config.min_stake

Shortfall(r) == SaturatingSub(config.min_stake, router[r].staked_amount)

EnsureStaked(r) ==
  /\ At(r, "measure")
  /\ sim' = [sim EXCEPT ![r].amount = Shortfall(r),
                        ![r].pc = IF Shortfall(r) = 0 THEN Resting(r) ELSE "stake"]
  /\ sent' = Outrun(Pending("stake", r))
  /\ UNCHANGED <<vars, main, lamports, faults, late>>

\* Mirrors Protocol::epoch_number_at, from the local clock.
CurrentEpochNumber(t) ==
  IF t <= protocol.genesis_time \/ config.epoch_duration <= 0 THEN 0
  ELSE (t - protocol.genesis_time) \div config.epoch_duration

ReadClock(r) ==
  /\ At(r, "loop") /\ sim[r].running
  /\ \E skew \in Skews :
       LET e == CurrentEpochNumber(now + skew)
       IN  /\ e \in Epochs
           /\ sim' = [sim EXCEPT ![r].epoch = e, ![r].pc = "beat"]
  /\ UNCHANGED <<vars, main, lamports, faults, sent, late>>

\* A stop is only ever noticed by the loop's own test (mutation: it is not).
IgnoresStop(r) == FALSE

LeavesLoop(r) == ~sim[r].running

FinishLoop(r) ==
  /\ At(r, "loop") /\ LeavesLoop(r)
  /\ sim' = Goto(r, "done")
  /\ UNCHANGED <<vars, main, lamports, faults, sent, late>>

\* Leaves the settling to a later epoch (mutation).
SettlesLater(r) == sim[r].epoch > 1 /\ sim[r].last # Previous(r)

\* Only the epoch just ended, once.
Settles(r) == sim[r].epoch > 0 /\ sim[r].last # Previous(r)

LookBack(r) ==
  /\ At(r, "settle")
  /\ sim' = Goto(r, IF Settles(r) /\ EpochOpened(r, Previous(r)) THEN "fetch" ELSE "loop")
  /\ UNCHANGED <<vars, main, lamports, faults, sent, late>>

\* What is left to do for the record as it was fetched.
Slashable(ep) == ep.slash_amount > 0 /\ ~ep.slashed
Claimable(ep) == ep.reward_amount > 0 /\ ~ep.claimed

\* The next call of maybeSettlePreviousEpoch after `from` was answered.
Settling(r, ep, from) ==
  IF from = "fetch" /\ ~ep.finalized THEN "finalize"
  ELSE IF from = "fetch" /\ Slashable(ep) THEN "slash"
  ELSE IF from \in {"fetch", "slash"} /\ Claimable(ep) THEN "claim"
  ELSE IF from # "vest" /\ vesting'[r][Previous(r)].total_amount # 0 THEN "vest"
  ELSE "settled"

\* lastFinalizedEpoch is set after the last call, and only then.
Settle(r, ep, from) ==
  LET p == Settling(r, ep, from)
  IN  IF p = "settled"
      THEN [sim EXCEPT ![r].last = Previous(r), ![r].ep = NoRouterEpoch, ![r].pc = "loop"]
      ELSE [sim EXCEPT ![r].ep = ep, ![r].pc = p]

\* The catch ticks the epoch off like the end of the try (mutation).
SkipTickedOff(r) ==
  [sim EXCEPT ![r].last = Previous(r), ![r].ep = NoRouterEpoch, ![r].pc = "loop"]

\* The catch of maybeSettlePreviousEpoch: the next heartbeat tries again.
Skip(r) == [sim EXCEPT ![r].ep = NoRouterEpoch, ![r].pc = "loop"]

FetchEpoch(r) ==
  /\ At(r, "fetch")
  /\ UNCHANGED <<vars, main, lamports, faults, sent, late>>
  /\ sim' = Settle(r, repoch[r][Previous(r)], "fetch")

----------------------------------------------------------------------------
(* How a call ends. *)

Sends(r) == sim[r].pc \in Calls /\ Executes(Request(r))

\* The call returned.
Returned(r) ==
  CASE At(r, "fund")     -> Goto(r, Funded(r))
    [] sim[r].pc \in {"register", "rotate"} -> Goto(r, "measure")
    [] At(r, "stake")    -> Goto(r, Resting(r))
    [] At(r, "beat")     -> Goto(r, "settle")
    [] At(r, "finalize") -> Goto(r, "fetch")
    [] OTHER             -> Settle(r, sim[r].ep, sim[r].pc)

\* The call threw: fatal before the loop is running, a missed turn inside it.
Throws(r) ==
  IF sim[r].started
  THEN /\ sim' = IF sim[r].pc \in SettleSteps THEN Skip(r) ELSE Goto(r, "loop")
       /\ UNCHANGED main
  ELSE Exit

\* What the error of a refused heartbeat tells the loop to do.
BeatRefused(r) ==
  CASE router[r].device_pubkey # sim[r].device \/ ~PaysRent(Request(r))
         \/ ~Running \/ ~CurrentEpoch(sim[r].epoch) -> Goto(r, "loop")
    [] OTHER ->
         CASE router[r].status = "Suspended" ->
                [sim EXCEPT ![r].running = FALSE, ![r].pc = "loop"]
           [] router[r].status # "Suspended"
                /\ router[r].staked_amount < config.min_stake -> Goto(r, "measure")
           [] OTHER -> Goto(r, "loop")

\* NothingVested is the one refusal settling survives.
NothingVested(r) == At(r, "vest") /\ Running /\ Releasable(vesting[r][Previous(r)]) = 0

Accepted(r) ==
  Sends(r) /\ sim' = Returned(r) /\ UNCHANGED <<main, faults, sent, late>>

\* The program does not accept the call the loop makes.
Rejects(r) == ~ENABLED Sends(r)

Refused(r) ==
  /\ sim[r].pc \in Calls /\ Rejects(r)
  /\ \/ At(r, "beat") /\ sim' = BeatRefused(r) /\ UNCHANGED main
     \/ NothingVested(r) /\ sim' = Settle(r, sim[r].ep, "vest") /\ UNCHANGED main
     \/ ~At(r, "beat") /\ ~NothingVested(r) /\ Throws(r)
  /\ UNCHANGED <<vars, lamports, faults, sent, late>>

\* The call throws with its transaction sent, or a read throws (where that ends the
\* process it is a Quit).
GivenUp(r) ==
  /\ sim[r].pc \in Calls \cup {"measure", "settle", "fetch"}
  /\ Throws(r) /\ Fails
  /\ sent' = IF sim[r].pc \in Calls THEN sent \cup {Request(r)} ELSE sent
  /\ UNCHANGED <<vars, lamports, late>>

DrawAccepted ==
  /\ main.pc = "mint" /\ Executes(Draw)
  /\ main' = [main EXCEPT !.pc = "register", !.draw = 0]
  /\ UNCHANGED <<sim, faults, sent, late>>

RejectsDraw == ~ENABLED Executes(Draw)

DrawRefused ==
  /\ main.pc = "mint" /\ RejectsDraw
  /\ Exit
  /\ UNCHANGED <<vars, lamports, faults, sent, late>>

\* What the process is waiting for when it ends.
Unanswered ==
  {Request(r) : r \in {x \in Routers : sim[x].pc \in Calls}}
    \cup (IF main.pc = "mint" THEN {Draw} ELSE {})

\* A draw that throws ends the process too; what is still unsent is never executed.
Quit ==
  /\ Alive /\ Exit
  /\ \/ UNCHANGED <<faults, sent>>
     \/ Unanswered # {} /\ Fails /\ sent' = sent \cup Unanswered
  /\ UNCHANGED <<vars, lamports, late>>

----------------------------------------------------------------------------
Turn(r) ==
  \/ Lookup(r) \/ ReadBalance(r) \/ Compare(r) \/ EnsureStaked(r)
  \/ ReadClock(r) \/ FinishLoop(r) \/ LookBack(r) \/ FetchEpoch(r)
  \/ Accepted(r) \/ Refused(r)

Process ==
  \/ Launch \/ ReadWallet \/ DrawAccepted \/ DrawRefused \/ RegisterNext
  \/ AllRegistered \/ StopAll \/ Quit
  \/ \E r \in Routers : Start(r) \/ Turn(r) \/ GivenUp(r)

\* Anyone may turn the crank, the authority may pause and punish, time passes.
Others ==
  /\ (\E r \in Routers : Keeper(r)) \/ PauseProtocol \/ ResumeProtocol
  /\ UNCHANGED simVars
Punish == (\E r \in Routers : ApplyPenalty(r)) /\ UNCHANGED simVars
Clock  == (\E d \in TickSteps : Tick(d)) /\ UNCHANGED simVars

SimNext == Process \/ Lands \/ Others \/ Punish \/ Clock

SimSpec == SimInit /\ [][SimNext]_allVars

\* Every loop keeps turning: failRate < 1, so a heartbeat is tried again and again.
LoopFairness == \A r \in Routers : WF_allVars(Turn(r))

SimFairSpec == SimSpec /\ LoopFairness

----------------------------------------------------------------------------
(* Properties. *)

\* What the loop ticked off needs no further crank: the epoch is finalized, the
\* slash it was fixed for is executed and its reward is claimed, whoever did it
\* and whichever call failed on the way (router.ts:349).
SettledIsSettled ==
  \A r \in Routers :
    sim[r].last # Never =>
      LET ep == repoch[r][sim[r].last]
      IN  ep.finalized /\ ~Slashable(ep) /\ ~Claimable(ep)

\* Through launches that reuse a device and launches that make a new one, and
\* registrations given up half way, a loop signs with the key on chain; with one
\* exception: a rotation an earlier launch gave up on is executed after this one
\* compared the keys, and not every launch derived its devices from the seed
\* (router.ts:132-157).
SignsWithCurrentKey ==
  \A r \in Routers :
    sim[r].started =>
      router[r].device_pubkey = sim[r].device \/ (r \in late.keys /\ main.seedless)

\* Staking up to the minimum is safe to repeat as far as the stake is read again
\* after the one given up was executed: a router holds one minimum, whatever
\* slashes, relaunches and lost confirmations came before, and at most one more
\* for each stake executed after the stake it added to was read again
\* (router.ts:184).
NeverOverstakes ==
  \A r \in Routers :
    router[r].staked_amount <= config.min_stake * (1 + late.stakes[r])

\* However often it is launched, the simulator draws from genesis only what its
\* routers hold, what they were slashed and one round of stakes, and one round
\* more for each draw executed after the next launch read the wallet
\* (index.ts:75-87).
GenesisDrawBounded ==
  protocol.genesis_minted <=
    config.min_stake * (Cardinality(Routers) + 1) * (1 + late.draws)
      + protocol.total_staked + protocol.total_slashed

\* A loop that had started before the stop ends, whatever call it was waiting for
\* and however that call is answered (index.ts:115-117).
StoppedLoopsEnd ==
  \A r \in Routers :
    main.stopped /\ sim[r].started /\ ~sim[r].running ~> sim[r].pc \in {"done", "off"}

\* The loop is a keeper: an epoch followed by a heartbeat of the next one gets
\* finalized by it, paused or not, unless one of its calls failed or it was shut
\* down on the way (router.ts:239).
NextBeatFinalizes ==
  \A r \in Routers, e \in Epochs :
    e + 1 \in Epochs /\ EpochOpened(r, e) /\ EpochOpened(r, e + 1)
      ~> repoch[r][e].finalized \/ faults > 0 \/ ~Alive \/ main.launches > 1
=============================================================================
