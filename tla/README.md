# RouterPulse: specifications, model checking and proofs

RouterPulse pays operators of home routers for uptime. An Anchor program on Solana
keeps the money and the rules; an indexer copies what it does into MongoDB; an API
and a dashboard read that copy and let an operator act on it; a simulator plays the
devices and turns the settlement crank; scripts exercise the whole from outside. This
directory models all of these in TLA+, checks them with TLC on small instances, and
proves the main safety properties with TLAPS for every value of the constants.

## 1. Inventory

| Part | State it keeps | Operations | What is hard, and what makes it correct |
|---|---|---|---|
| Program arithmetic (`math.rs`, `uptime.rs`, `state/protocol.rs`) | none | tiers, basis points, emission decay, vesting, score, epoch clock | rounding and boundaries: vesting never ahead of its line, every second in exactly one epoch, a punctual device earns the whole epoch |
| On-chain program (`instructions/*.rs`, `state/*.rs`) | Protocol, Router, Stake, RouterEpoch, EmissionSchedule, RewardVesting accounts; vault, treasury and holders' token balances | 18 instructions by operators, devices, keepers (anyone) and the authority | every order of everybody's transactions: conservation of tokens, one budget per epoch, no double claim or slash, mirrors in step, statuses final |
| Indexer ingestion (`backfill.ts`, `live.ts`, `ingest.ts`) | `transactions`, `events` | list history, follow the logs, claim a signature, write and project its events | two processes on one signature, late RPC answers, crashes between awaits: apply once, claim nothing unseen |
| Indexer projection (`projections.ts`, `reconcile.ts`) | `routers`, `epochs`, `protocol` | apply an event; overwrite from the accounts on a timer | stale snapshots, overlapping passes, lost and reordered events: converge on the accounts |
| Fan-out (`publisher.ts`), gateway (`realtime.gateway.ts`), live feed (`LiveFeed.tsx`) | subscriptions; the rows shown | publish, forward, prepend | lost at every hop, may arrive twice: nothing shown that is not stored, nothing new dropped |
| API sign-in (`auth.service.ts`, guards) and `useSession.ts` | one nonce per wallet in Redis; a session on disk and in each instance of the hook | challenge, sign, verify, restore, sign out | get and delete apart, tabs, reloads and wallet switches: the session survives all but a sign-out |
| API queries (`explorer`, `routers`, `analytics`, `protocol`) | none | cursor pages over MongoDB | a page boundary among events of one second, string against number cursors, rows written between pages |
| Operator page (`app/operator`, `RouterActions.tsx`, `RegisterRouter.tsx`) | lists shown, fetches and transactions in flight, keys just generated | switch wallet, select, fetch, register, rotate, stake, claim | answers in any order, confirmations that never come, cards that unmount: what is shown belongs to whom it is shown |
| Simulator and keeper (`simulator/src`) | per router: device key, place in its loop, last epoch settled | top up, register, stake, heartbeat, settle the epoch before, stop, exit, launch again | calls refused, or given up and executed at once, late or never, at each step: nothing ticked off half done, nothing staked or drawn twice but by a transaction executed after its repetition had read the account |
| Scripts (`full-lifecycle.ts`, `seed-claimable.ts`, `verify-operator-flow.ts`) | what was read before a call | 10 to 30 calls and assertions in real time | epoch boundaries, other keepers and failing calls between two steps: a success means what it says |
| Migrations, docker, index creation | none at run time | deployment | not part of the running system |

Interactions: the simulator, the scripts and the dashboard send transactions to the
program. The program emits events into transaction logs. The indexer is notified of
signatures, fetches the transactions, projects the events and then publishes them to
Redis; its reconciliation reads the accounts themselves. The API reads MongoDB and
never writes it, forwards Redis messages to the sockets connected at that moment, and
its guard trusts the reconciled `protocol` document. Whoever runs the keeper has no
privilege: finalize and slash are open to all, and not stopped by a pause.

`PROJECT.json` lists every component with its status, and every hazard of the code
with its line and the properties that watch it.

## 2. Modules

| Module | Models | Extends |
|---|---|---|
| `RouterMath` | `math.rs`, `uptime.rs`, epoch clock | |
| `RouterMathCheck` | reference definitions for `RouterMath` over bounded inputs | `RouterMath` |
| `RouterPulse` | the whole program, one action per instruction | `RouterMath` |
| `RewardIssuance` | what finalize and claim promise, with nothing else in it | |
| `Simulator` | the simulator process and its loops, composed with the program | `RouterPulse` |
| `Scripts` | the three scripts, composed with the program | `RouterPulse` |
| `Indexer` | ingestion, projection, reconciliation | |
| `EventDelivery` | what ingestion promises for the events of a transaction | |
| `Session` | `useSession` in several tabs, `AuthService` | |
| `OperatorPage` | the operator page of one tab, composed with the sign-in | `Session` |
| `Queries` | cursor-paginated lists and the live feed over what the indexer writes | |
| `MCRouterPulse`, `MCProgram`, `MCIndexer`, `MCIngest`, `MCSimulator`, `MCClients` | small instances | the above |
| `RouterMathProofs` | lemmas: bounds of the arithmetic, sums over finite sets | `RouterMath` |
| `RouterMathCheckProofs` | theorems about the arithmetic | `RouterMathCheck`, `RouterMathProofs` |
| `RouterPulseProofs` | types, order, budget, grants, statuses and the refinement | `RouterPulse`, `RouterMathProofs` |
| `RouterPulseLedger` | the balances, and that the crank is never blocked | `RouterPulseProofs` |
| `SimulatorProofs`, `ScriptsProofs` | theorems about the two clients of the program | the module and `RouterPulseLedger` |
| `ClientProofs` | theorems about the sign-in, the operator page, the lists and the feed | `OperatorPage`, `Queries` |
| `IndexerProofs` | theorems about ingestion, its refinement of `EventDelivery` and the first backfill | `Indexer` |

### RouterPulse

A Solana transaction is atomic, so an instruction is one action. An instruction that
fails a `require!`, an account constraint or a checked operation leaves no trace; it
is a stuttering step and has no action. Each action's guard is the conjunction of
these conditions, and the account constraints (`has_one`, seeds, signer) appear as
the action's parameters: a router `r` is its PDA, whose seeds fix the owner, so
`OwnerOf` is a constant; a heartbeat is parameterised by the key `k` that signs it.
Checked `u64` results are `Fits` guards. Accounts that were never created are records
of zero values, because that is what Anchor allocates and what the code tests
(`created_at == 0`, `expected_heartbeats == 0`). The guards of the heartbeat and of the
instructions anybody may send are operators of their own (`MayHeartbeat`,
`MayFinalize`, `MaySlash`, `MayPenalize`), so that a property can say that a call is
accepted.

Two actions belong to the environment: `Tick` (the Clock sysvar moves between
transactions) and `HolderTransfer` (any holder can send tokens anywhere, the vault
and the treasury included).

Left out: router ids and coordinates, bumps, rent, `registered_at`,
`last_claim_time` (written, never read), the limits of `i64` seconds and of the
heartbeat counters, which a clock that counts seconds does not reach, and
`uptime_percentage`, which nothing calls.

### RewardIssuance

One pool per epoch, opened once; one award per router and epoch, paid out of the
pool; minting within the award. `RouterPulse` maps to it with
`pool = total_emission - allocated`, `award = reward_amount`,
`minted = claimed_amount`: finalize is `Lock`, claim_vested is `Mint`, and every
other instruction is a stutter.

### Simulator

One process owns several routers through one wallet. `main` is where `index.ts` is
(top up, register one router after the other, run), `sim[r]` is a `RouterSimulator`
with `pc` naming the await its loop is at. Everything between two awaits is one step;
each transaction is the very action of `RouterPulse`, so its guard, not the model of
the client, decides whether it is accepted.

How a call ends is separate from what it does: `Accepted`; `Refused`, when the program
rejects it, with what the loop does about that error (a refused heartbeat may stop the
loop, stake again or do nothing, in the order in which the program tests its
conditions; `NothingVested` is swallowed; anything else inside the settling abandons
it until the next heartbeat); `GivenUp`, when `rpc()` throws although the transaction
may still be valid. A transaction given up stays in `sent`, and `Lands` executes it
whenever the program accepts it: at once, after the loop or the next launch has read the
accounts again, or never. Outside a running loop a throw ends the process
(`main().catch`), and the process may exit at any await (`Quit`), with what it was
waiting for still on its way, and be launched again, with `DEVICE_KEY_SEED` (the same
devices) or without (new ones). The devices' lamports are kept because they decide
whether the first heartbeat of an epoch can pay for its record.

Staking, topping up and rotating read an account and send what it lacks. A transaction
in flight while a client makes such a read is marked `outrun`. The history `late`
counts the outrun draws and stakes that were executed, and keeps the routers of the
outrun rotations that were. It has no influence on any step; the properties use it to
say when repeating is safe, and what it costs when it is not.

Left out: statistics; randomly missed heartbeats and the sleeps between two turns, as
they change no state (a turn taken later is a turn). A transaction given up never
expires here, while the network forgets it with its blockhash after a minute or two:
the model allows later executions than the code can meet, and none fewer.

### Scripts

A script is the sequence of its calls (`Lifecycle`, `Seed`, `OperatorFlow`), an index
into it, what it read earlier (`run.seen`) and the labels of the assertions that
failed. `Call` is the action of `RouterPulse` behind a label, `AsExpected` the
assertion after it, `ExpectsRefusal` the calls made to be rejected, and `run.wake` the
real time a script waits for an epoch to close or a grant to vest. Time passes, and a
disturbance (somebody else's crank, a connection that fails with the call executed or
not) may come, between any two calls. `Throws` says where each script's catch leads:
some go on, some set the exit code, some do neither.

Left out: that a call which throws is executed later still. Nearly all of them end the
script. The operator flow goes on after three: `vest`, which touches the grant and the
wallet only, `rotate`, after which it does not try the retired key, and `unstake`, its
last. What is sent to be refused is refused by the node before it is broadcast.

### Session

`useSession` is mounted twice in a tab (`WalletBar`, operator page), so
`session[t]` has a `bar` and a `page`; `stored` is localStorage, shared by the tabs.
`Effects` is the hook's effect on a wallet change, with `LeavesOnDisk` and `Restored`
for what it does to disk and memory. Sign-in is `Challenge`, `Sign`, `VerifyReads`,
`VerifyBurns`, `SignInDone`: the API's get and del are apart, with other requests in
between. A message is its nonce, a token is the wallet and the nonce it was given for.

### OperatorPage

`flights[l]` are the unanswered fetches of a list (routers, epochs, admin probe),
`FetchAnswered(l, i)` answers any of them, with what the API knows at that moment;
`behind` and `stale` only record, for the properties, whether the answer shown last
was an overtaken one. `sent` are transactions: executed or not, awaited or not; a
confirmation may never come. `card` and `form` hold the keys the two components have
generated and show, and are reset when the code would unmount them. `unheard` records
routers whose key was changed by a transaction nobody was told about.

Left out: the refresh that follows a success even when the card is gone
(`useTx.ts:37` awaits `onDone` of the closure), which only fetches once more what the
page wants; and a second click that passes while the button still awaits the token
account, before `run()` sets the phase (`RouterActions.tsx:64-66`, `105-107`,
`127-129`), which sends one more transaction without a key. Neither can make a list or
a key wrong.

### Queries

`walk[l]` is a client following `nextCursor` through a list while the indexer adds to
it; `Ahead` is the sort, `Beyond` the cursor's filter, `Pages` the pages the sort
allows (ties come in any order). Epoch numbers are stored and sorted as strings
(`Lexical`: any order without ties) but compared with a number, so the second page of
the epoch list is empty: `Beyond` says FALSE. The
feed is the insert, the publication after it, the death of the indexer in between, the
Redis subscription and the socket up or down, and `Prepended`, the handler.

### Indexer

An action is the code between two awaits. `processSignature` is the chain of actions
`FetchNull`/`FetchFound`, `Claim`, `WriteEvents`, `ProjectEvent` for one process and
one signature; backfill runs them one signature after another, a live service any
number at once. `reconcileOnce` is `ReadAccounts` and `WriteDocument` three times
(protocol, routers, epochs): what is written was read before the await, and passes
may overlap because `setInterval` waits for nobody. MongoDB survives a crash, memory
does not. The duplicate-key error of the unique `_id` is `FirstClaim`.

A transaction is the pair of its kind and the accounts after it. Documents of
different routers and epochs never touch, so there is one of each. Only fields that
two writers compete for are kept. `RouterSlashed` updates two documents with an await
between them; they are written in one step, because no property compares them.
The program's part of this module (`Executes`, `After`) is the guard and effect of
each instruction as far as these fields can tell.

### EventDelivery

The promise of ingestion without processes, calls or claims: a position per signature.
A signature is taken up once and only after the RPC node served it; its events are
stored once and then applied one by one, in their order; it may be abandoned anywhere
and is then never taken up again; beside that, only accounts the chain held at some time
overwrite documents. `Indexer` maps to it through the one call that claimed a signature:
`Claim` is `Take`, `WriteEvents` is `Store`, `ProjectEvent` is `Apply`, a crash or a
failed call abandons whatever was under way in it.

## 3. Runs

| Run | What varies | States | Properties |
|---|---|---|---|
| `economy` | two routers: two epochs of heartbeats, finalize, slash, claim, vest in any order; or one epoch with stake, unstake, slash, decommission over one vault | 359k | `EmissionWithinBudget`, `GrantMatchesEpoch`, `ReleasedOnSchedule`, `VaultBacksStake`, `MirrorInSync`, `SlashedAsFixed`, `FrozenAfterFinalize`, `ImplementsIssuance`, `CollateralDebits` |
| `ledger` | the whole program from before deployment with every rejected configuration; or one router's score over three epochs; or the arithmetic on every bounded input | 856k | `TypeOK`, `NeverBlocked`, `SupplyAccounted`, `ActiveAboveThreshold`, `HeartbeatsInWindow`, `VestingFollowsTheLine`, `EpochWindowsPartitionTime`, `PunctualDeviceEarnsFull` |
| `settlement` | two epochs with pauses, unstakes and decommissioning, under fairness | 16k | `EpochsSettle`, `SlashesExecute`, `GrantsVestFully` |
| `index_ingest` | service and job over a chain of three, late RPC, one fault; or a first backfill over three histories and their continuations | 94k | `AppliedByOne`, `ImplementsDelivery`, `BackfillRebuilds`, `BackfillCatchesUp` |
| `index_converge` | live ingestion, two overlapping passes, one fault | 582k | `ProjectionConverges` |
| `keeper` | the simulator: one fault, its transaction executed at once, late or never, and a second launch in the life of a loop, or three launches before any; or beside other keepers and pauses; or punished until suspended; or two loops on one wallet | 171k | `SettledIsSettled`, `SignsWithCurrentKey`, `NeverOverstakes`, `GenesisDrawBounded`, `StoppedLoopsEnd`, `NextBeatFinalizes` |
| `clients` | each script launched anywhere in an epoch with one disturbance; or sign-in in tabs; or the page's lists, admin probe or keys; or a walk through each list; or the feed | 465k | `AssertionsHold`, `SeedLeavesAClaim`, `SuccessLeavesNoTrace`, `OperatorFlowConclusive`, `QuietPageIsCurrent`, `ShownKeysAreLive`, `WalksMissOnlyAtCuts`, `FeedIsDurable`, `SessionOutlivesReload` |

The other five runs are the findings of section 4.

Where a run has several concerns, its MC module has a variable `focus`, chosen in the
initial state and never changed: each behaviour explores one concern far, and the
product of the concerns, which share nothing, is not paid for.

Bounds and why they are enough:

- The timing is the smallest the program accepts: a 60 s interval and a 120 s epoch,
  so an epoch holds 0, 1 or 2 heartbeats, which is uptime 0, 50% or 100%. All six
  tiers are covered by the arithmetic focus of `ledger`, with up to 31 expected
  heartbeats.
- `economy`: a perfect epoch earns 120 and the budget is 150 in epoch 0 and 120 in
  epoch 1 (decay 80% a year of one epoch), so the second router to finalize is cut
  short or gets nothing. `MaxTime` 301 is two epochs and a full vesting schedule after
  the first claim. Collateral moves in steps of 10 around a minimum of 10, so a
  position is empty, at the minimum or above it, and a slash of 10% leaves it below.
- `ledger`: one router can be penalised from 100 to 20 in four steps, so suspension is
  reached by penalties and by late heartbeats; the clock reaches three epochs. That
  focus has no minimum stake: collateral is not its question, and `HeartbeatsInWindow`
  is proved for every minimum.
- `economy` and `settlement` start after registration and staking, a state `Spec`
  reaches, and leave out the actions their question does not need. `ledger` starts
  before deployment with every action of `Spec`.
- `MaxU64` is 100000 (2000000000 in `clients`, where a token is 1000 units), above
  every amount of these runs; the proofs hold for any. In `ledger` it is 1300000, just
  above the product of a perfect epoch's reward and the penalty (120 by 10000), the
  largest that focus can make. The overflows that `NeverBlocked` excepts are not reached
  in the run: that they are the only ones is what `UnblockedSafe` proves, for any
  `MaxU64`.
- Indexer chains of 3 to 6 transactions hold a registration, a stake and what races;
  one fault at any await is enough to lose anything once, and two passes are enough
  to overlap.
- `keeper`: two epochs and three minutes reach the settling of the first epoch from the
  second; one fault and two launches are enough for each call to fail once, be
  repeated by the loop or by the next process, and be executed before or after the
  repetition has read its account. A third launch comes back to the devices of the first
  after one without the seed. Genesis tokens for two launches in one deployment, not
  enough for one in the other, so that top-ups are refused too. What the three properties
  except does happen within these bounds: without `late`, TLC finds a router staked
  twice, a second round drawn and a loop with a retired key.
- `clients`: one disturbance in a script's run, clock steps of 30 s (the scripts wait
  whole epochs), which start a script in each quarter of an epoch. Three tabs and two
  challenges: one pending, one replacing it. Two unanswered fetches of a kind, enough
  to overtake each other; three key pairs, so one router can be rotated and another
  registered; one lost confirmation. Pages of two rows over five routers, four epochs
  numbered 8 to 11 (where the order of strings and numbers differ) and four events,
  two a second, so that a page is cut inside a second and between two.
- `Swap` exchanges a router and its owner with the other pair. It is used only where
  no liveness is checked.

Deadlock checking is off: every run is bounded by its clock, chain, fault or launch
bound and stops there.

### Fairness

`settlement`: the clock advances (Solana does); `FinalizeRouterEpoch` and
`SlashRouter` are weakly fair for each router and epoch, because anyone may call
them, nothing but their own execution disables finalization, and every simulated device
runs them (`maybeSettlePreviousEpoch`); a pause ends (`ResumeProtocol`); the
beneficiary claims again and again, strongly fair because pauses disable claiming and
enable it again. Neither the operator's heartbeats nor anything of the authority but
the resume is assumed. `SlashesExecute` allows the operator to have emptied the
position first: a suspended or decommissioned router may, between finalize and slash.

`keeper`: `LoopFairness`, every loop that can take a turn takes one: awaited calls
return or throw, and `failRate` is below 1, so a missed heartbeat is followed by a
tried one. Nothing is assumed of the other keepers, the clock or the process staying
up; `NextBeatFinalizes` therefore excuses exits and failed calls, and is the part of
the keeper fairness of `settlement` that the simulator's code itself gives.

`index_*`: a supervisor restarts the service, awaited calls return and the timer
fires (each weakly fair). The RPC node is *not* assumed ever to serve a transaction,
notifications may be lost, and nobody has to run the job. `ProjectionConverges` needs
the faults to be finitely many, which `MaxFaults` says.

`clients` has no liveness property: a browser or a script may be closed at any time.

## 4. Where documentation and code differ

Five runs find the difference and are listed under `findings`:

- `below_minimum`: `unstake.rs:31-33` says an operator must decommission a router to
  withdraw below the minimum; a suspended router may as well, and may be reinstated.
- `index_overcount`: `indexer/README.md:47-48` says `$inc` fields never
  double-count. Nothing is applied twice (`AppliedByOne`), but a pass can copy a
  count that includes a heartbeat whose own `$inc` is still to come. The next pass
  repairs it (`ProjectionConverges`).
- `index_stranded`: `indexer/README.md:38` says a partial failure cannot strand a
  signature; a crash between the claim and `insertMany` does.
- `sign_in_page`: `web/README.md:21-22` says signing in unlocks the admin panel. The
  button is in the wallet bar, the panel in the operator page, and each has its own
  instance of `useSession` (`useSession.ts:24`): the page learns of the session only
  when it is mounted again or the wallet reconnects.
- `live_feed`: `LiveFeed.tsx:26-28` says it drops second arrivals of one event. It
  compares `_id`, which a published event does not carry, so after the first live
  event all later ones are dropped until the page is loaded again.

Seen while modelling, without a run of their own:

- Program: a registered router is `Active` before its first heartbeat, never
  `Inactive` (`register_router.rs` does not set the status; proved as part of
  `AccountsInOrder`); `expected_heartbeats` is rounded down where `state/epoch.rs:22`
  says ceil; `claim_vested.rs:10` calls itself the only instruction that increases the
  supply, beside `mint_genesis`; `claim_reward.rs:15-17` says a router that vanishes
  forfeits what has not vested, and `GrantsVestFully` shows that it does not;
  `apply_penalty` multiplies in `u64` where `math.rs` uses `u128`, one of the three
  overflows that `NeverBlocked` has to except; with
  `min_stake = 0` a router without a Stake account can heartbeat, and its epoch can
  then never be finalized.
- Simulator: only the epoch just ended is ever settled, so one whose slash or claim
  failed until the next boundary stays so; `stop()` before a staggered `start()` is
  lost (`router.ts:356`). A transaction executed only after its repetition has read the
  account is not guarded against: a late stake puts a router above the minimum
  (`router.ts:180-200`), a late top-up mints a second round of genesis tokens
  (`index.ts:75-87`), and a rotation of an earlier launch leaves the loop of the next
  with a retired key for its whole run (`router.ts:132-157`), unless every launch derived
  its devices from the seed. The properties count these cases with `late` and allow no
  others.
- Scripts: `verify-operator-flow.ts` returns after a failed step without setting the
  exit code (lines 98, 113, 137, 155, 199, 218 and 234 against 305), so an exit of 0
  does not mean every check passed. `full-lifecycle.ts:311` tries the retired key on an
  epoch it has finalized, where any key is refused; the operator flow tries it on the
  open epoch, which is why `OperatorFlowConclusive` is stated of that script only.
- Page: a late answer for the wallet or router before overwrites a newer one
  (`page.tsx:36-44`); the new key is lost when `rpc()` throws after landing or the
  card unmounts, and the card of one router goes on showing the key rotated in
  another's (`RouterActions` is not keyed by router); a sign-out in the bar leaves the
  page's session; the refresh 1.5 s after a transaction may come before the indexer.
- API: the second page of a router's epochs is always empty and their order is that of
  strings (`routers.service.ts:55-61`); a page cut inside a second skips the other
  events of that second (`explorer.service.ts:29`). `WalksMissOnlyAtCuts` says that
  nothing else is missed. get, verify and del of a challenge are not atomic
  (`auth.service.ts:54`).

## 5. Proofs

Every theorem is about a module's own specification, so for any number of routers,
wallets, epochs, tabs, rows, events and amounts, any accepted configuration and any
clock. The assumptions are the ones the modules declare: types, finiteness and
distinctness of names; for the simulator, that its wallet owns its routers and epochs
are numbered without gaps; for the scripts, that the authority owns the routers; for
the indexer, that the histories it may find are histories the program can have executed
(`Executed`, the guards and effects of `Executes` and `After`, from the first
transaction on). TLC evaluates each of them in a run.

**The program.** `RouterPulseProofs` begins with `TypeCorrect`. Not a formality here:
that no balance, stake or counter goes below zero is what makes Nat the right type, and
needs each guard before each subtraction. The inductive invariant is `ProgramInv`, the
conjunction of `TypeOK`, `AccountsInOrder`, `FinalizedAfterWindow`, `MirrorInSync`,
`ActiveAboveThreshold`, `EmissionWithinBudget`, `GrantMatchesEpoch` and
`ReleasedOnSchedule`. None is inductive alone. `ReleasedOnSchedule` needs
`GrantMatchesEpoch` (a new schedule starts with nothing released) and lemma
`VestedAmountMonotone` (time only helps); `GrantMatchesEpoch` needs `AccountsInOrder`
(an open record has no reward yet); `FinalizedAfterWindow` needs `AccountsInOrder` (no
record before deployment fixes the genesis time). Each conjunct has a step for each
instruction that can disturb it, and frame lemmas dispose of the others. From
`ProgramInv` follow the action properties `FrozenAfterFinalize`, `CollateralDebits`,
`DecommissionedIsFinal` and `HeartbeatsInWindow`, and the refinement `IssuanceRefined`
of `RewardIssuance`.

**The balances** (`RouterPulseLedger`). `VaultBacksStake`, `SlashedAsFixed` and
`SupplyAccounted` compare counters with sums over all accounts. The sums come from a
recursion over finite sets, and a theorem about it needs an induction no prover here
can instantiate from the library; `RouterMathProofs` therefore proves induction for a
*set* of numbers (`SetInduction`, from the well-foundedness of `<`), and with it that
the recursion has exactly one solution and does not depend on its order (`SumExists`,
`SumUnique`), so that changing one term changes the sum by the difference
(`SumUpdate`). `LedgerInv` adds to `ProgramInv` and the three properties that before
the deployment no counter moved (`Undeployed`) and that a slashed record is finalized
(`SlashesSettled`: no later finalization resizes what was slashed). They need each
other: the subtraction on `total_staked` saturates in the code, and is exact only
because it *is* the sum of the positions; a claim overwrites a vesting account, and
loses nothing only because `ReleasedOnSchedule` bounds what a grant not yet made can
have released.

**The crank** (`RouterPulseLedger`). `NeverBlocked` says that finalizing, slashing and
penalizing are refused for a reason in the record itself or for an overflow it names,
never for what the operator or anybody else did meanwhile. Each guard is a conjunction
of account constraints and checked operations, and the facts that decide them lie
elsewhere: the collateral account is there, because a heartbeat required collateral and
nothing closes the account (`CollateralTaken`); the reward fits beside what the others
were allocated, because together they stay within a budget that was stored
(`EmissionWithinBudget`, `StoredFit`); the vault holds what a slash takes
(`VaultBacksStake`); the counters of what was slashed and lost fit, because slashes
come out of minted tokens and penalties out of rewards (`SupplyAccounted`,
`EarningsCovered`); nobody registers before the deployment (`DeployedFirst`).
`ServiceInv` is `LedgerInv` with these, inductive for transactions
(`ServiceInductive`), and `UnblockedSafe` follows. That a budget still to be opened fits
is a fact about the emission curve, a recursion over years: `EpochEmissionType` shows by
induction (`SetInduction` again) that it has a value for every epoch and never exceeds
the first.

**The clients of the program.** The simulator and the scripts choose their own amounts,
epochs and keys. The steps of `Next` are therefore proved about as what they are on
chain, a `Transaction`: any instruction with any amount (`RouterPulseProofs`; `StepSends`
places `Next` in it), and `ProgramInv` and `LedgerInv` are inductive for transactions.
`SendsTransactions` and `ScriptsSendTransactions` prove that no step of a client,
answered, given up or repeated, and no transaction executed late, does anything else to
the program. They need the invariants of the
clients below: that an instance which calls has its device (`KeysInv`) and works on an
epoch that exists (`SimInv`), that a script has read its epoch and burns no more than
the treasury holds (`ScriptsInv`). With them the books balance under the clients as they
do alone and nobody's crank is blocked: `BooksUnderLoad`, from a deployed and unused
program, and `BooksUnderScripts`. The refinement of `RewardIssuance` is likewise proved
for transactions (`IssuanceStep`), so issuance keeps its promise under both:
`IssuanceUnderLoad`, `IssuanceUnderScripts`.

**The arithmetic** (`RouterMathCheckProofs`). `VestingSafe`, `WindowsSafe` and
`PunctualSafe` prove, for every amount, length and instant, what the run checks on
bounded inputs. The last one counts the beats of a window: the first
`duration / interval` of them, rounded down, fall into it whatever the phase.

**The simulator** (`SimulatorProofs`). `SimInv` says what a loop's place in the
settling says about the chain: what it fetched still agrees with the record but for
flags set since, because a finalized record is frozen (`EpochFrozen`, proved anew for
the simulator's steps); at `claim` the slash is executed or there is none; at `vest`
the reward is claimed or there is none. A call that throws leaves the settling without
ticking the epoch off, and a launch forgets what was ticked off: `TickedOffIsSettled`,
for any number of loops, faults and launches.

A transaction given up is what makes the other three hard: it can be executed between a
read and the call that follows from it. `KeysInv` has four parts. `CrewInv` is what an
instance knows before `register()` has attached its device (its loop is not started) and
after (its key is the router's, unless an outrun rotation was executed), and that the
stake it is sending fits beside what is staked. `Outstanding` says of each transaction
in flight that it was outrun, or that no instance acts on the account it writes: a
rotation of an instance that has not compared keys, a stake whose router nobody stakes
for and which fits. `OneStake`: of those not outrun there is at most one per router, as
whoever sends a stake has read the account first and so outran the ones before.
`Covered`: what is staked stays under one minimum and one more per late stake
(`StakesBounded`). `KeysCurrent` needs one invariant more, `SeededInv`: as long as every
launch used the seed, each router's key is its seed's and nothing that is in flight
rotates it. `DrawInv` is the same argument for the wallet: what was drawn from genesis is
in the wallet, staked or slashed; a draw only fills the wallet up to one round of
stakes, and of the draws in flight at most one has not been outrun by the next launch's
read, none once that launch sends its own. Hence `DrawBounded`.

**The scripts** (`ScriptsProofs`). `ScriptsInv` follows a run from call to call: from
its heartbeats on it works on an epoch it has read; the lifecycle past its resumption
finds the protocol running and past its restoration at the first rate, under its own
calls as under another keeper's; and a run that has ended stays where it was. That
gives `NoTrace` and, with `FinalizeSettled` (a finalization leaves the record
unclaimed), `SeedReady`: in any epoch, under any configuration, whatever is refused,
lost or done by somebody else. `OperatorInv` follows the operator flow
to its probe of the retired key, to show that the refusal it then expects means what it
says: the router's present key *would* be accepted (`OperatorStands`, `ProbeSafe`). The
protocol runs, the device is active and has been silent for a second (`DeviceStands`),
the epoch is not the settled one (`RecordStands`), and the collateral still covers the
minimum (`CollateralStands`), although anybody may have finalized and slashed
meanwhile. The last is the point: the flow waits for a reward before it rotates, and a
record of two heartbeats is paid or slashed, never both (lemma `PaidOrSlashed`, over the
tiers), so nobody can have slashed a router the script has seen paid.

**Ingestion** (`IndexerProofs`). `IngestInv` says that a call past its fetch is on a
served signature, that one past its claim is on a claimed one, that no two of these are
on the same, and that stored events are not written again: `AppliedOnceSafe` and
`ServedSafe`. With it every step of any number of processes, overlapping passes, faults
and restarts is a step of `EventDelivery` or a stutter (`DeliveryRefined`): because the
claim is unique, the call that holds it is the position of its signature. `RebuildInv` adds that the chain is a history of the program, that a
backfill has at most one call in flight, the one at its cursor, that only a live
service reconciles, and, while nothing has failed and no job has run, that the
documents are what the transactions below the cursor make of the accounts unless one
of them was not served. The step is lemma by lemma over the kinds of transaction: the
events of each, projected one after the other, do to the documents what the instruction
did to the accounts. `BackfillSafe` follows.

**Browser and API** (`ClientProofs`). `SessionInv`: no session on disk or in memory is
anything but a signed one or none; `OutlivesReload`. The page composes the sign-in
(`PageSignsIn`: its behaviours are behaviours of `SessionSpec`), so `PageInv` is
`SessionInv` with two parts. `FetchInv`: of each list the newest fetch is for what is
wanted now, and once it is answered, that is shown or the list is marked stale; an
answer that overtakes another is what makes the second half necessary. `QuietPage`
follows. `KeysInv`: key pairs are generated in order, so a router's first key is its
lowest; a card waits for one rotation at a time; and a key on screen, or that an awaited
rotation may still put there, is the router's, or the router was given another by a
transaction still on its way or unheard. `LiveKeys` follows. `DurableFeed`: what is
still to be published is stored already. `WalksComplete`: what a client has read lies
behind its cursor and what it has not yet read beyond it, unless it is tied with the row
a page of events was cut at, or behind the one page of epochs that is full; for any
number of rows, any page size, and rows inserted anywhere in between.

Only model-checked:

- The liveness properties (`EpochsSettle`, `SlashesExecute`, `GrantsVestFully`,
  `BackfillCatchesUp`, `ProjectionConverges`, `StoppedLoopsEnd`,
  `NextBeatFinalizes`): the prover has no rules for fairness.
- `AssertionsHold`: a script learns that a call was refused when it is not ENABLED,
  which the prover does not know; and it holds of configurations the scripts are written
  for (a minimum stake their round sums cover), not of every one. `ScriptsProofs` proves
  the rest, what holds whether or not a call is refused.

Proved, and in no run: `AccountsInOrder` (`OrderSafe`), `FinalizedAfterWindow`
(`WindowSafe`), `DecommissionedIsFinal` (`RetiredSafe`) and `ClaimedWereServed`
(`ServedSafe`).

## 6. Not modelled

- Indexer: `sync_cursors`, device key events, and the document fields only one writer
  touches (scores, keys, dates, vesting amounts, which reconciliation does not repair).
  `db.ts` and `config.ts` run once at start; the unique index they create is
  `FirstClaim`.
- API: the expiry of challenges and tokens (a challenge that is gone is a failed
  sign-in); the queries that are one read without state (analytics, protocol, health,
  audit), and the read-only pages the server renders from them.
- Simulator and scripts: statistics and printing; that a heartbeat batch of the funded
  size fits a device's balance for a whole run (`router.ts:11`), as the bound on time
  is far below it.
- Infrastructure: Dockerfiles, compose file, migrations and shell scripts keep no
  state at run time.

Worth doing next: the expiry of challenges in `Session`.
