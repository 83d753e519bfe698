--------------------------- MODULE SimulatorProofs ---------------------------
(***************************************************************************)
(* Whatever routers the simulator owns, whichever of its calls are refused *)
(* or given up, however late those are executed and however often it is    *)
(* launched again: an epoch its loop has ticked off is settled, and what   *)
(* transactions executed late can do to the keys, to the stakes and to the *)
(* genesis draw is bounded by how many of them were outrun by a read.      *)
(***************************************************************************)
EXTENDS Simulator, RouterPulseLedger, FiniteSetTheorems

----------------------------------------------------------------------------
(* The chain under the simulator's steps. *)

\* A finalized record has been opened.
OpenedFirst ==
  \A r \in Routers, e \in Epochs : repoch[r][e].finalized => EpochOpened(r, e)

\* What a step may do to the accounts: keep them typed, and every finalized
\* record as it was but for the flags claimed and slashed.
ChainMoves ==
  /\ TypeOK' /\ OpenedFirst'
  /\ \A r \in Routers, e \in Epochs : EpochFrozen(r, e)

LEMMA StillMoves ==
  ASSUME TypeOK, OpenedFirst, TypeOK', repoch' = repoch
  PROVE  ChainMoves
BY DEF OpenedFirst, EpochOpened, ChainMoves, EpochFrozen

\* A record written, the others left alone.
LEMMA RecordMoves ==
  ASSUME TypeOK, OpenedFirst, TypeOK', NEW x \in Routers, NEW f \in Epochs,
         NEW ep, repoch' = [repoch EXCEPT ![x][f] = ep],
         EpochFrozen(x, f), ep.finalized => ep.expected_heartbeats # 0
  PROVE  ChainMoves /\ repoch'[x][f] = ep
<1>1. repoch \in [Routers -> [Epochs -> RouterEpochType]]
  BY TypeParts
<1>2. repoch'[x][f] = ep
  BY <1>1
<1>3. ASSUME NEW r \in Routers, NEW e \in Epochs, r # x \/ e # f
      PROVE  repoch'[r][e] = repoch[r][e]
  BY <1>1, <1>3
<1>4. ASSUME NEW r \in Routers, NEW e \in Epochs
      PROVE  /\ EpochFrozen(r, e)
             /\ repoch'[r][e].finalized => repoch'[r][e].expected_heartbeats # 0
  <2>1. CASE r = x /\ e = f
    BY <1>2, <2>1
  <2>2. CASE r # x \/ e # f
    BY <1>3, <2>2 DEF EpochFrozen, OpenedFirst, EpochOpened
  <2> QED
    BY <2>1, <2>2
<1> QED
  BY <1>2, <1>4 DEF ChainMoves, OpenedFirst, EpochOpened

LEMMA HeartbeatMoves ==
  ASSUME TypeOK, OpenedFirst, NEW k, NEW r \in Routers, NEW e \in Epochs,
         Heartbeat(k, r, e)
  PROVE  ChainMoves
<1> DEFINE open == OpenRouterEpoch(r, e)
           beats == open.heartbeats + 1
           ep == [open EXCEPT !.heartbeats = beats]
<1>1. /\ repoch' = [repoch EXCEPT ![r][e] = ep]
      /\ ~open.finalized /\ protocol.initialized
  BY DEF Heartbeat, MayHeartbeat, Unsettled, Running
<1>2. ~repoch[r][e].finalized
  BY <1>1 DEF OpenRouterEpoch, OpenedFirst
<1>3. open \in RouterEpochType
  BY <1>1, FreshRouterEpochType, TypeParts DEF OpenRouterEpoch
<1> HIDE DEF open, beats
<1>4. ~ep.finalized
  BY <1>1, <1>3 DEF RouterEpochType
<1> HIDE DEF ep
<1>5. EpochFrozen(r, e)
  BY <1>2 DEF EpochFrozen
<1>6. TypeOK'
  BY HeartbeatType
<1> QED
  BY <1>1, <1>4, <1>5, <1>6, RecordMoves

LEMMA FinalizeMoves ==
  ASSUME TypeOK, OpenedFirst, NEW r \in Routers, NEW e \in Epochs,
         FinalizeRouterEpoch(r, e)
  PROVE  ChainMoves /\ repoch'[r][e].finalized
<1> DEFINE old == repoch[r][e]
           em == OpenEmission(e)
           uptime == UptimeBps(old.heartbeats, old.expected_heartbeats)
           base == (old.end_time - old.start_time) * protocol.reward_rate
           reward == Lesser(TieredReward(base, uptime), Remaining(em))
           slash == SlashFor(stake[r].amount, uptime)
           ep == [old EXCEPT !.uptime_bps = uptime, !.reward_amount = reward,
                             !.slash_amount = slash, !.finalized = TRUE]
<1>1. repoch' = [repoch EXCEPT ![r][e] = ep]
  BY DEF FinalizeRouterEpoch, MeasuredUptime, BaseReward, Reward
<1>2. old.expected_heartbeats # 0 /\ old \in RouterEpochType
  BY FinalizeEffect, TypeParts DEF EpochOpened
<1> HIDE DEF old, em, uptime, base, reward, slash
<1>3. ep.expected_heartbeats # 0 /\ ep.finalized
  BY <1>2 DEF RouterEpochType
<1> HIDE DEF ep
<1>4. EpochFrozen(r, e)
  BY FinalizeEffect DEF EpochFrozen
<1>5. TypeOK'
  BY FinalizeRouterEpochType
<1> QED
  BY <1>1, <1>3, <1>4, <1>5, RecordMoves

LEMMA ClaimMoves ==
  ASSUME TypeOK, OpenedFirst, NEW r \in Routers, NEW e \in Epochs, ClaimReward(r, e)
  PROVE  ChainMoves /\ repoch'[r][e].claimed
<1> DEFINE ep == [repoch[r][e] EXCEPT !.claimed = TRUE]
<1>1. repoch' = [repoch EXCEPT ![r][e] = ep] /\ repoch[r][e].finalized
  BY DEF ClaimReward, ClaimRecorded
<1>2. ep.expected_heartbeats # 0
  BY <1>1, TypeParts DEF OpenedFirst, EpochOpened, RouterEpochType
<1> HIDE DEF ep
<1>3. EpochFrozen(r, e)
  BY ClaimEffect DEF EpochFrozen
<1>4. TypeOK'
  BY ClaimRewardType
<1> QED
  BY <1>1, <1>2, <1>3, <1>4, RecordMoves, ClaimEffect

LEMMA SlashMoves ==
  ASSUME TypeOK, OpenedFirst, NEW r \in Routers, NEW e \in Epochs, SlashRouter(r, e)
  PROVE  ChainMoves /\ repoch'[r][e].slashed
<1> DEFINE ep == [repoch[r][e] EXCEPT !.slashed = TRUE]
<1>1. repoch' = [repoch EXCEPT ![r][e] = ep] /\ repoch[r][e].finalized
  BY DEF SlashRouter, MaySlash, SlashPending
<1>2. ep.expected_heartbeats # 0
  BY <1>1, TypeParts DEF OpenedFirst, EpochOpened, RouterEpochType
<1> HIDE DEF ep
<1>3. EpochFrozen(r, e)
  BY SlashRecord DEF EpochFrozen
<1>4. TypeOK'
  BY SlashRouterType
<1> QED
  BY <1>1, <1>2, <1>3, <1>4, RecordMoves, SlashRecord

----------------------------------------------------------------------------
(* What holds of a loop between any two steps. *)

Places == {"off", "lookup", "balance", "compare", "measure", "ready", "loop", "settle", "done"}
            \cup SettleSteps \cup {"fund", "register", "rotate", "stake", "beat"}

\* Where something is promised of the instance.
Promised == SettleSteps \cup {"balance", "beat", "settle"}

SimulatorType ==
  [pc: Places, device: DeviceKeys \cup {NoKey}, existing: BOOLEAN, amount: Nat,
   epoch: Nat, ep: RouterEpochType, last: Int, running: BOOLEAN, started: BOOLEAN]

Done(on) == on.finalized /\ ~Slashable(on) /\ ~Claimable(on)

\* What was fetched is still true, but for flags set since.
Agrees(ep, on) ==
  /\ ep.finalized /\ on.finalized
  /\ ep.reward_amount = on.reward_amount /\ ep.slash_amount = on.slash_amount
  /\ ep.claimed => on.claimed
  /\ ep.slashed => on.slashed

\* The loop of router r is in state s.  A call is only reached when what the calls
\* before it are for is done on chain.
LoopInv(r, s) ==
  /\ s.last # Never => s.last \in Epochs /\ Done(repoch[r][s.last])
  /\ s.pc = "balance" => s.device \in DeviceKeys
  /\ s.pc \in {"beat", "settle"} => s.epoch \in Epochs
  /\ s.pc \in SettleSteps => s.epoch - 1 \in Epochs
  /\ s.pc \in {"slash", "claim", "vest"} => Agrees(s.ep, repoch[r][s.epoch - 1])
  /\ s.pc \in {"claim", "vest"} => ~Slashable(repoch[r][s.epoch - 1])
  /\ s.pc = "vest" => ~Claimable(repoch[r][s.epoch - 1])

LoopsInv ==
  /\ TypeOK /\ OpenedFirst
  /\ sim \in [Routers -> SimulatorType]
  /\ \A r \in Routers : LoopInv(r, sim[r])

----------------------------------------------------------------------------
(* What is on its way to the chain. *)

EpochCalls == {"beat", "finalize", "slash", "claim", "vest"}

DrawType == [call: {"mint"}, amount: Nat, nr: Nat, outrun: BOOLEAN]
RequestType ==
  [call: Calls, router: Routers, device: DeviceKeys \cup {NoKey}, epoch: Int, amount: Nat,
   nr: Nat, outrun: BOOLEAN]

Posted(t) ==
  t \in DrawType \cup RequestType /\ (t.call \in EpochCalls => t.epoch \in Epochs)

MainType ==
  [pc: {"exited", "top_up", "mint", "register", "run"}, turn: Nat, draw: Nat,
   seeded: BOOLEAN, seedless: BOOLEAN, stopped: BOOLEAN, launches: Nat]

LateType == [draws: Nat, stakes: [Routers -> Nat], keys: SUBSET Routers]

PostInv ==
  /\ main \in MainType /\ faults \in Nat /\ late \in LateType
  /\ lamports \in [DeviceKeys -> Nat]
  /\ \A t \in sent : Posted(t)

SimInv == LoopsInv /\ PostInv

----------------------------------------------------------------------------
LEMMA LoopStands ==
  ASSUME TypeOK, ChainMoves, NEW r \in Routers, NEW s \in SimulatorType, LoopInv(r, s)
  PROVE  LoopInv(r, s)'
<1>1. ASSUME NEW e \in Epochs, Done(repoch[r][e]) PROVE Done(repoch'[r][e])
  BY <1>1 DEF ChainMoves, EpochFrozen, Done, Slashable, Claimable
<1>2. ASSUME NEW e \in Epochs, NEW ep, Agrees(ep, repoch[r][e])
      PROVE  /\ Agrees(ep, repoch'[r][e])
             /\ ~Slashable(repoch[r][e]) => ~Slashable(repoch'[r][e])
             /\ ~Claimable(repoch[r][e]) => ~Claimable(repoch'[r][e])
  BY <1>2 DEF ChainMoves, EpochFrozen, Agrees, Slashable, Claimable
<1> QED
  BY <1>1, <1>2 DEF LoopInv, SettleSteps

LEMMA LoopIdles ==
  ASSUME NEW r, NEW s, NEW t, LoopInv(r, s), t.last = s.last,
         t.pc \notin Promised
  PROVE  LoopInv(r, t)
BY DEF LoopInv, Promised, SettleSteps

LEMMA LoopResembles ==
  ASSUME NEW r, NEW s, NEW t, LoopInv(r, s),
         t.last = s.last, t.pc = s.pc, t.epoch = s.epoch, t.ep = s.ep, t.device = s.device
  PROVE  LoopInv(r, t)
BY DEF LoopInv

\* One loop goes on to t, the others stay where they are.
LEMMA OneLoop ==
  ASSUME LoopsInv, ChainMoves, NEW r \in Routers, NEW t \in SimulatorType,
         sim' = [sim EXCEPT ![r] = t], LoopInv(r, t)'
  PROVE  LoopsInv'
<1>1. /\ sim' \in [Routers -> SimulatorType]
      /\ sim'[r] = t
      /\ \A x \in Routers \ {r} : sim'[x] = sim[x]
  BY DEF LoopsInv
<1>2. ASSUME NEW x \in Routers PROVE LoopInv(x, sim[x])'
  <2>1. CASE x = r
    BY <1>1, <2>1 DEF LoopInv
  <2>2. CASE x # r
    <3> DEFINE s == sim[x]
    <3>1. s \in SimulatorType /\ LoopInv(x, s) /\ s' = s
      BY <1>1, <2>2 DEF LoopsInv
    <3>2. TypeOK
      BY DEF LoopsInv
    <3> QED
      BY <1>1, <2>2, <3>1, <3>2, LoopStands DEF LoopInv
  <2> QED
    BY <2>1, <2>2
<1> QED
  BY <1>1, <1>2 DEF LoopsInv, ChainMoves

\* The loop goes where nothing is promised of it.
LEMMA OneLoopIdles ==
  ASSUME LoopsInv, ChainMoves, NEW r \in Routers, NEW t \in SimulatorType,
         sim' = [sim EXCEPT ![r] = t], t.last = sim[r].last,
         t.pc \notin Promised
  PROVE  LoopsInv'
<1>1. LoopInv(r, sim[r]) /\ TypeOK
  BY DEF LoopsInv
<1>2. LoopInv(r, t)
  BY <1>1, LoopIdles
<1> QED
  BY <1>1, <1>2, LoopStands, OneLoop

LEMMA GotoIdles ==
  ASSUME LoopsInv, ChainMoves, NEW r \in Routers, NEW p \in Places, sim' = Goto(r, p),
         p \notin Promised
  PROVE  LoopsInv'
<1> DEFINE t == [sim[r] EXCEPT !.pc = p]
<1>1. sim[r] \in SimulatorType /\ sim' = [sim EXCEPT ![r] = t]
  BY DEF LoopsInv, Goto
<1>2. t \in SimulatorType /\ t.last = sim[r].last /\ t.pc = p
  BY <1>1 DEF SimulatorType
<1> HIDE DEF t
<1> QED
  BY <1>1, <1>2, OneLoopIdles

\* Every loop goes on to f.
LEMMA EveryLoop ==
  ASSUME LoopsInv, ChainMoves, NEW f \in [Routers -> SimulatorType], sim' = f,
         \A r \in Routers : LoopInv(r, f[r])
  PROVE  LoopsInv'
<1>1. ASSUME NEW r \in Routers PROVE LoopInv(r, sim[r])'
  <2> DEFINE s == f[r]
  <2>1. s \in SimulatorType /\ LoopInv(r, s) /\ TypeOK
    BY DEF LoopsInv
  <2>2. LoopInv(r, s)'
    BY <2>1, LoopStands
  <2> QED
    BY <2>2 DEF LoopInv
<1> QED
  BY <1>1 DEF LoopsInv, ChainMoves

LEMMA LoopsStand ==
  ASSUME LoopsInv, ChainMoves, sim' = sim
  PROVE  LoopsInv'
<1>1. sim \in [Routers -> SimulatorType] /\ \A r \in Routers : LoopInv(r, sim[r])
  BY DEF LoopsInv
<1>2. ASSUME NEW r \in Routers PROVE LoopInv(r, sim[r])'
  <2> DEFINE s == sim[r]
  <2>1. s \in SimulatorType /\ LoopInv(r, s) /\ TypeOK /\ s' = s
    BY <1>1 DEF LoopsInv
  <2> QED
    BY <2>1, LoopStands DEF LoopInv
<1> QED
  BY <1>1, <1>2 DEF LoopsInv, ChainMoves

LEMMA NoRouterEpochType == NoRouterEpoch \in RouterEpochType
BY DEF NoRouterEpoch, RouterEpochType

LEMMA FreshLoop ==
  /\ Fresh \in SimulatorType
  /\ \A r : LoopInv(r, Fresh)
<1>1. Fresh \in SimulatorType
  BY NoRouterEpochType DEF Fresh, SimulatorType, Places, Never
<1>2. Fresh.last = Never /\ Fresh.pc = "off"
  BY DEF Fresh
<1> QED
  BY <1>1, <1>2 DEF LoopInv, SettleSteps

LEMMA ExitKeeps ==
  ASSUME LoopsInv, ChainMoves, Exit
  PROVE  LoopsInv'
<1> DEFINE f == [r \in Routers |-> Fresh]
<1>1. f \in [Routers -> SimulatorType] /\ \A r \in Routers : LoopInv(r, f[r])
  BY FreshLoop
<1>2. sim' = f
  BY DEF Exit
<1> HIDE DEF f
<1> QED
  BY <1>1, <1>2, EveryLoop

LEMMA StopAllKeeps ==
  ASSUME LoopsInv, StopAll
  PROVE  LoopsInv'
<1> DEFINE f == [r \in Routers |-> [sim[r] EXCEPT !.running = FALSE]]
<1>1. ChainMoves
  BY StutterType, StillMoves DEF LoopsInv, StopAll, vars, accounts
<1>2. ASSUME NEW r \in Routers
      PROVE  f[r] \in SimulatorType /\ LoopInv(r, f[r])
  <2>1. sim[r] \in SimulatorType /\ LoopInv(r, sim[r])
    BY DEF LoopsInv
  <2> DEFINE t == [sim[r] EXCEPT !.running = FALSE]
  <2>2. /\ t \in SimulatorType
        /\ t.last = sim[r].last /\ t.pc = sim[r].pc
        /\ t.epoch = sim[r].epoch /\ t.ep = sim[r].ep /\ t.device = sim[r].device
    BY <2>1 DEF SimulatorType
  <2> HIDE DEF t
  <2>3. LoopInv(r, t)
    BY <2>1, <2>2, LoopResembles
  <2> QED
    BY <2>2, <2>3 DEF t
<1>3. sim' = f
  BY DEF StopAll
<1>4. f \in [Routers -> SimulatorType]
  BY <1>2
<1> HIDE DEF f
<1> QED
  BY <1>1, <1>2, <1>3, <1>4, EveryLoop

----------------------------------------------------------------------------
(* Settling. *)

\* Once a call of the settling is answered: what it was for is done, and the next
\* one, if there is one, is due.
LEMMA SettleKeeps ==
  ASSUME LoopsInv, ChainMoves, NEW r \in Routers, NEW ep \in RouterEpochType,
         NEW from \in SettleSteps \ {"finalize"}, NEW e \in Epochs, e = Previous(r),
         ep.finalized \/ from # "fetch" => Agrees(ep, repoch'[r][e]),
         from # "fetch" => ~Slashable(repoch'[r][e]),
         from \in {"claim", "vest"} => ~Claimable(repoch'[r][e]),
         sim' = Settle(r, ep, from)
  PROVE  LoopsInv'
<1>1. /\ sim[r] \in SimulatorType /\ LoopInv(r, sim[r]) /\ TypeOK
      /\ sim[r].epoch - 1 = e /\ e \in Int
  BY RouterPulseAssumption DEF LoopsInv, Previous
<1> DEFINE p == Settling(r, ep, from)
           on == repoch'[r][e]
<1>2. /\ p \in {"finalize", "slash", "claim", "vest", "settled"}
      /\ p # "finalize" => ep.finalized \/ from # "fetch"
      /\ p \in {"claim", "vest", "settled"} => from # "fetch" \/ ~Slashable(ep)
      /\ p \in {"vest", "settled"} => from \in {"claim", "vest"} \/ ~Claimable(ep)
  BY DEF Settling, SettleSteps
<1>3. Agrees(ep, on) => /\ ~Slashable(ep) => ~Slashable(on)
                        /\ ~Claimable(ep) => ~Claimable(on)
  BY DEF Agrees, Slashable, Claimable
<1>4. /\ p # "finalize" => Agrees(ep, on)
      /\ p \in {"claim", "vest", "settled"} => ~Slashable(on)
      /\ p \in {"vest", "settled"} => ~Claimable(on)
  BY <1>2, <1>3
<1>5. CASE p = "settled"
  <2>1. PICK t \in SimulatorType :
          sim' = [sim EXCEPT ![r] = t] /\ t.last = e /\ t.pc = "loop"
    <3> DEFINE t == [sim[r] EXCEPT !.last = e, !.ep = NoRouterEpoch, !.pc = "loop"]
    <3>1. sim' = [sim EXCEPT ![r] = t]
      BY <1>1, <1>5 DEF Settle, Previous
    <3>2. t \in SimulatorType /\ t.last = e /\ t.pc = "loop"
      BY <1>1, NoRouterEpochType DEF SimulatorType, Places
    <3> HIDE DEF t
    <3> QED
      BY <3>1, <3>2
  <2>2. Done(on)
    BY <1>2, <1>4, <1>5 DEF Done, Agrees
  <2>3. LoopInv(r, t)'
    BY <2>1, <2>2 DEF LoopInv, SettleSteps
  <2> QED
    BY <2>1, <2>3, OneLoop
<1>6. CASE p # "settled"
  <2>1. PICK t \in SimulatorType :
          /\ sim' = [sim EXCEPT ![r] = t]
          /\ t.last = sim[r].last /\ t.pc = p /\ t.epoch = sim[r].epoch /\ t.ep = ep
    <3> DEFINE t == [sim[r] EXCEPT !.ep = ep, !.pc = p]
    <3>1. sim' = [sim EXCEPT ![r] = t]
      BY <1>1, <1>6 DEF Settle
    <3>2. p \in Places
      BY <1>2, <1>6 DEF Places, SettleSteps
    <3> HIDE DEF p
    <3>3. /\ t \in SimulatorType
          /\ t.last = sim[r].last /\ t.pc = p /\ t.epoch = sim[r].epoch /\ t.ep = ep
      BY <1>1, <3>2 DEF SimulatorType
    <3> HIDE DEF t
    <3> QED
      BY <3>1, <3>3
  <2>2. PICK s \in SimulatorType : s = sim[r]
    BY <1>1
  <2>3. s.last # Never => s.last \in Epochs /\ Done(repoch'[r][s.last])
    BY <1>1, <2>2, LoopStands DEF LoopInv
  <2> HIDE DEF p
  <2>4. LoopInv(r, t)'
    BY <1>1, <1>2, <1>4, <1>6, <2>1, <2>2, <2>3 DEF LoopInv, SettleSteps
  <2> QED
    BY <2>1, <2>4, OneLoop
<1> QED
  BY <1>5, <1>6

----------------------------------------------------------------------------
(* The calls. *)

\* What each call of an instance does to the chain.
LEMMA Sending ==
  ASSUME NEW r, Sends(r)
  PROVE  /\ sim[r].pc \in Calls
         /\ At(r, "fund") => UNCHANGED vars
         /\ At(r, "register") => RegisterRouter(r, sim[r].device)
         /\ At(r, "rotate") => RotateDeviceKey(r, sim[r].device)
         /\ At(r, "stake") => StakeCollateral(r, sim[r].amount)
         /\ At(r, "beat") => Heartbeat(sim[r].device, r, sim[r].epoch)
         /\ At(r, "finalize") => FinalizeRouterEpoch(r, Previous(r))
         /\ At(r, "slash") => SlashRouter(r, Previous(r))
         /\ At(r, "claim") => ClaimReward(r, Previous(r))
         /\ At(r, "vest") => ClaimVested(r, Previous(r))
<1> DEFINE t == Request(r)
<1>1. sim[r].pc \in Calls /\ Executes(t)
  BY DEF Sends
<1>2. /\ t.call = sim[r].pc /\ t.router = r /\ t.device = sim[r].device
      /\ t.amount = sim[r].amount
      /\ t.epoch = IF At(r, "beat") THEN sim[r].epoch ELSE Previous(r)
  BY DEF Request
<1> HIDE DEF t
<1> QED
  BY <1>1, <1>2 DEF Executes, At

LEMMA PostedFields ==
  ASSUME NEW t, Posted(t)
  PROVE  /\ t.amount \in Nat
         /\ t.call # "mint" =>
              /\ t \in RequestType /\ t.call \in Calls /\ t.router \in Routers
              /\ t.device \in DeviceKeys \cup {NoKey}
         /\ t.call \in EpochCalls => t.epoch \in Epochs
BY DEF Posted, DrawType, RequestType

LEMMA ExecutesMoves ==
  ASSUME TypeOK, OpenedFirst, NEW t, Posted(t), Executes(t)
  PROVE  ChainMoves
<1> DEFINE r == t.router
           k == t.device
           e == t.epoch
           n == t.amount
<1>1. /\ n \in Nat
      /\ t.call # "mint" => r \in Routers /\ k \in DeviceKeys \cup {NoKey}
      /\ t.call \in EpochCalls => e \in Epochs
  BY PostedFields
<1>2. \/ UNCHANGED vars
      \/ t.call = "mint" /\ MintGenesis(Wallet, n)
      \/ t.call # "mint" /\ (RegisterRouter(r, k) \/ RotateDeviceKey(r, k) \/ StakeCollateral(r, n))
      \/ /\ t.call \in EpochCalls /\ t.call # "mint"
         /\ \/ Heartbeat(k, r, e) \/ FinalizeRouterEpoch(r, e) \/ SlashRouter(r, e)
            \/ ClaimReward(r, e) \/ ClaimVested(r, e)
  BY DEF Executes, EpochCalls
<1> HIDE DEF r, k, e, n
<1>3. CASE UNCHANGED vars
  BY <1>3, StutterType, StillMoves DEF vars, accounts
<1>4. CASE MintGenesis(Wallet, n)
  BY <1>1, <1>4, SimulatorAssumption, MintGenesisType, StillMoves DEF MintGenesis, accounts
<1>5. CASE t.call # "mint" /\ (RegisterRouter(r, k) \/ RotateDeviceKey(r, k) \/ StakeCollateral(r, n))
  <2>1. CASE RegisterRouter(r, k)
    BY <1>1, <1>5, <2>1, RegisterRouterType, StillMoves DEF RegisterRouter
  <2>2. CASE RotateDeviceKey(r, k)
    BY <1>1, <1>5, <2>2, RotateDeviceKeyType, StillMoves DEF RotateDeviceKey
  <2>3. CASE StakeCollateral(r, n)
    BY <1>1, <1>5, <2>3, StakeCollateralType, StillMoves DEF StakeCollateral
  <2> QED
    BY <1>5, <2>1, <2>2, <2>3
<1>6. ASSUME t.call \in EpochCalls, t.call # "mint",
             \/ Heartbeat(k, r, e) \/ FinalizeRouterEpoch(r, e) \/ SlashRouter(r, e)
             \/ ClaimReward(r, e) \/ ClaimVested(r, e)
      PROVE  ChainMoves
  <2>1. r \in Routers /\ e \in Epochs
    BY <1>1, <1>6
  <2>2. CASE Heartbeat(k, r, e)
    BY <2>1, <2>2, HeartbeatMoves
  <2>3. CASE FinalizeRouterEpoch(r, e)
    BY <2>1, <2>3, FinalizeMoves
  <2>4. CASE SlashRouter(r, e)
    BY <2>1, <2>4, SlashMoves
  <2>5. CASE ClaimReward(r, e)
    BY <2>1, <2>5, ClaimMoves
  <2>6. CASE ClaimVested(r, e)
    BY <2>1, <2>6, ClaimVestedType, StillMoves DEF ClaimVested
  <2> QED
    BY <1>6, <2>2, <2>3, <2>4, <2>5, <2>6
<1> QED
  BY <1>2, <1>3, <1>4, <1>5, <1>6

\* The call an instance waits for is a transaction the program knows.
LEMMA RequestPosted ==
  ASSUME LoopsInv, faults \in Nat, NEW r \in Routers, sim[r].pc \in Calls
  PROVE  Posted(Request(r)) /\ Request(r).call = sim[r].pc /\ Request(r) \in RequestType
<1>1. sim[r] \in SimulatorType /\ LoopInv(r, sim[r])
  BY DEF LoopsInv
<1>2. /\ Previous(r) \in Int /\ sim[r].epoch \in Int
      /\ sim[r].device \in DeviceKeys \cup {NoKey} /\ sim[r].amount \in Nat
  BY <1>1 DEF Previous, SimulatorType
<1>3. Request(r) \in RequestType /\ Request(r).call = sim[r].pc
  BY <1>2 DEF Request, RequestType
<1>4. sim[r].pc \in EpochCalls => Request(r).epoch \in Epochs
  BY <1>1 DEF Request, EpochCalls, At, LoopInv, SettleSteps, Previous
<1> QED
  BY <1>3, <1>4 DEF Posted

LEMMA SendsMove ==
  ASSUME LoopsInv, faults \in Nat, NEW r \in Routers, Sends(r)
  PROVE  ChainMoves
<1>1. TypeOK /\ OpenedFirst /\ sim[r].pc \in Calls /\ Executes(Request(r))
  BY DEF LoopsInv, Sends
<1> QED
  BY <1>1, RequestPosted, ExecutesMoves

LEMMA SkipKeeps ==
  ASSUME LoopsInv, ChainMoves, NEW r \in Routers, sim' = Skip(r)
  PROVE  LoopsInv'
<1> DEFINE t == [sim[r] EXCEPT !.ep = NoRouterEpoch, !.pc = "loop"]
<1>1. sim[r] \in SimulatorType /\ sim' = [sim EXCEPT ![r] = t]
  BY DEF LoopsInv, Skip
<1>2. t \in SimulatorType /\ t.last = sim[r].last /\ t.pc = "loop"
  BY <1>1, NoRouterEpochType DEF SimulatorType, Places
<1> HIDE DEF t
<1> QED
  BY <1>1, <1>2, OneLoopIdles DEF Promised, SettleSteps

LEMMA LoopPlace ==
  "loop" \in Places /\ "loop" \notin Promised
BY DEF Places, Promised, SettleSteps

LEMMA ThrowsKeeps ==
  ASSUME LoopsInv, ChainMoves, NEW r \in Routers, Throws(r)
  PROVE  LoopsInv'
<1>1. sim' = Skip(r) \/ sim' = Goto(r, "loop") \/ Exit
  BY DEF Throws
<1> QED
  BY <1>1, SkipKeeps, GotoIdles, ExitKeeps, LoopPlace

\* A refused heartbeat never leads to the settling.
LEMMA BeatRefusedKeeps ==
  ASSUME LoopsInv, ChainMoves, NEW r \in Routers, sim' = BeatRefused(r)
  PROVE  LoopsInv'
<1> DEFINE stopped == [sim EXCEPT ![r].running = FALSE, ![r].pc = "loop"]
           t == [sim[r] EXCEPT !.running = FALSE, !.pc = "loop"]
<1>1. \/ sim' = Goto(r, "loop") \/ sim' = stopped \/ sim' = Goto(r, "measure")
  BY Zenon DEF BeatRefused
<1>2. CASE sim' = stopped
  <2>1. sim[r] \in SimulatorType /\ sim' = [sim EXCEPT ![r] = t]
    BY <1>2 DEF LoopsInv
  <2>2. t \in SimulatorType /\ t.last = sim[r].last /\ t.pc = "loop"
    BY <2>1 DEF SimulatorType, Places
  <2> HIDE DEF t
  <2> QED
    BY <2>1, <2>2, OneLoopIdles, LoopPlace
<1>3. "measure" \in Places /\ "measure" \notin Promised
  BY DEF Places, Promised, SettleSteps
<1> HIDE DEF stopped
<1> QED
  BY <1>1, <1>2, <1>3, GotoIdles, LoopPlace

LEMMA RefusedKeeps ==
  ASSUME LoopsInv, NEW r \in Routers, Refused(r)
  PROVE  LoopsInv'
<1>1. ChainMoves
  BY StutterType, StillMoves DEF LoopsInv, Refused, vars, accounts
<1>2. CASE NothingVested(r) /\ sim' = Settle(r, sim[r].ep, "vest")
  <2> DEFINE e == Previous(r)
             ep == sim[r].ep
  <2>1. sim[r] \in SimulatorType /\ LoopInv(r, sim[r]) /\ sim[r].pc = "vest"
    BY <1>2 DEF LoopsInv, NothingVested, At
  <2>2. /\ e \in Epochs /\ ep \in RouterEpochType
        /\ Agrees(ep, repoch[r][e])
        /\ ~Slashable(repoch[r][e]) /\ ~Claimable(repoch[r][e])
    BY <2>1 DEF LoopInv, SettleSteps, Previous, SimulatorType
  <2>3. repoch' = repoch
    BY DEF Refused, vars, accounts
  <2>4. "vest" \in SettleSteps \ {"finalize"}
    BY DEF SettleSteps
  <2> HIDE DEF ep
  <2>5. sim' = Settle(r, ep, "vest")
    BY <1>2 DEF ep
  <2> QED
    BY <1>1, <2>2, <2>3, <2>4, <2>5, SettleKeeps
<1> QED
  BY <1>1, <1>2, BeatRefusedKeeps, ThrowsKeeps DEF Refused

\* The loop goes on with the epoch it has read.
LEMMA GotoGoesOn ==
  ASSUME LoopsInv, ChainMoves, NEW r \in Routers, NEW p \in {"settle", "fetch"},
         sim' = Goto(r, p), p = "settle" => sim[r].epoch \in Epochs,
         p = "fetch" => Previous(r) \in Epochs
  PROVE  LoopsInv'
<1>1. sim[r] \in SimulatorType /\ LoopInv(r, sim[r]) /\ TypeOK
  BY DEF LoopsInv
<1>2. PICK s \in SimulatorType : s = sim[r]
  BY <1>1
<1>3. PICK t \in SimulatorType : /\ sim' = [sim EXCEPT ![r] = t]
                                  /\ t.last = s.last /\ t.epoch = s.epoch /\ t.pc = p
  <2> DEFINE t == [sim[r] EXCEPT !.pc = p]
  <2>1. sim' = [sim EXCEPT ![r] = t]
    BY DEF LoopsInv, Goto
  <2>2. t \in SimulatorType /\ t.last = s.last /\ t.epoch = s.epoch /\ t.pc = p
    BY <1>2 DEF SimulatorType, Places, SettleSteps
  <2> HIDE DEF t
  <2> QED
    BY <2>1, <2>2
<1>4. s.last # Never => s.last \in Epochs /\ Done(repoch'[r][s.last])
  BY <1>1, <1>2, LoopStands DEF LoopInv
<1>5. LoopInv(r, t)'
  BY <1>2, <1>3, <1>4 DEF LoopInv, SettleSteps, Previous
<1> QED
  BY <1>3, <1>5, OneLoop

LEMMA AcceptedKeeps ==
  ASSUME LoopsInv, faults \in Nat, NEW r \in Routers, Accepted(r)
  PROVE  LoopsInv'
<1>0. Sends(r) /\ sim' = Returned(r) /\ sim[r].pc \in Calls
  BY Sending DEF Accepted
<1>1. /\ ChainMoves /\ TypeOK /\ OpenedFirst
      /\ sim[r] \in SimulatorType /\ LoopInv(r, sim[r])
  BY <1>0, SendsMove DEF LoopsInv
<1> DEFINE e == Previous(r)
           ep == sim[r].ep
           on == repoch'[r][e]
<1>2. CASE sim[r].pc \in {"fund", "register", "rotate", "stake"}
  <2>1. \/ sim' = Goto(r, Funded(r)) \/ sim' = Goto(r, "measure") \/ sim' = Goto(r, Resting(r))
    BY <1>0, <1>2, Zenon DEF Returned, At
  <2>2. PICK p \in {"compare", "register", "measure", "loop", "ready"} : sim' = Goto(r, p)
    BY <2>1 DEF Funded, Resting
  <2>3. p \in Places \ Promised
    BY DEF Places, Promised, SettleSteps
  <2> QED
    BY <1>1, <2>2, <2>3, GotoIdles
<1>3. CASE At(r, "beat")
  <2>1. sim' = Goto(r, "settle")
    BY <1>0, <1>3, Zenon DEF Returned, At
  <2>2. sim[r].epoch \in Epochs
    BY <1>1, <1>3 DEF LoopInv, At
  <2> QED
    BY <1>1, <2>1, <2>2, GotoGoesOn
<1>4. CASE At(r, "finalize")
  <2>1. sim' = Goto(r, "fetch")
    BY <1>0, <1>4, Zenon DEF Returned, At
  <2>2. e \in Epochs
    BY <1>1, <1>4 DEF LoopInv, At, SettleSteps, Previous
  <2> QED
    BY <1>1, <2>1, <2>2, GotoGoesOn
<1>5. CASE sim[r].pc \in {"slash", "claim", "vest"}
  <2>2. /\ e \in Epochs /\ ep \in RouterEpochType
        /\ Agrees(ep, repoch[r][e])
        /\ sim[r].pc # "slash" => ~Slashable(repoch[r][e])
        /\ sim[r].pc = "vest" => ~Claimable(repoch[r][e])
    BY <1>1, <1>5 DEF LoopInv, SettleSteps, Previous, SimulatorType
  <2>3. sim' = Settle(r, ep, sim[r].pc)
    BY <1>0, <1>5, Zenon DEF Returned, At
  <2> HIDE DEF ep, e
  <2>4. /\ Agrees(ep, on)
        /\ sim[r].pc # "slash" => ~Slashable(on)
        /\ sim[r].pc = "vest" => ~Claimable(on)
    BY <1>1, <2>2 DEF ChainMoves, EpochFrozen, Agrees, Slashable, Claimable
  <2>5. sim[r].pc = "slash" => on.slashed
    BY <1>0, <1>1, <2>2, Sending, SlashMoves DEF At, e
  <2>6. sim[r].pc = "claim" => on.claimed
    BY <1>0, <1>1, <2>2, Sending, ClaimMoves DEF At, e
  <2>7. PICK from \in SettleSteps \ {"finalize", "fetch"} : from = sim[r].pc
    BY <1>5 DEF SettleSteps
  <2>8. ~Slashable(on) /\ (from \in {"claim", "vest"} => ~Claimable(on))
    BY <1>5, <2>4, <2>5, <2>6, <2>7 DEF Slashable, Claimable
  <2> QED
    BY <1>1, <2>2, <2>3, <2>4, <2>7, <2>8, SettleKeeps DEF e
<1> QED
  BY <1>0, <1>2, <1>3, <1>4, <1>5 DEF Calls, SettleSteps, At

----------------------------------------------------------------------------
(* What an instance does between two calls. *)

LEMMA DerivedKey ==
  ASSUME NEW r \in Routers
  PROVE  DeriveDevice(r) \subseteq DeviceKeys
<1> DEFINE spent == {SeedKey[x] : x \in Routers} \cup {t.device : t \in sent \ PendingDraws}
           unused == {k \in DeviceKeys : lamports[k] = 0} \ spent
<1>1. SeedKey[r] \in DeviceKeys
  BY SimulatorAssumption
<1>2. DeriveDevice(r) = IF main.seeded THEN {SeedKey[r]}
                        ELSE IF unused = {} THEN {} ELSE {CHOOSE k \in unused : TRUE}
  BY DEF DeriveDevice
<1> HIDE DEF spent
<1>3. unused # {} => (CHOOSE k \in unused : TRUE) \in DeviceKeys
  OBVIOUS
<1> HIDE DEF unused
<1> QED
  BY <1>1, <1>2, <1>3

LEMMA LookupKeeps ==
  ASSUME LoopsInv, NEW r \in Routers, Lookup(r)
  PROVE  LoopsInv'
<1>1. ChainMoves
  BY StutterType, StillMoves DEF LoopsInv, Lookup, vars, accounts
<1>2. PICK k \in DeviceKeys :
        sim' = [sim EXCEPT ![r].device = k, ![r].existing = router[r].exists,
                           ![r].pc = "balance"]
  BY DerivedKey DEF Lookup
<1> DEFINE there == router[r].exists
           t == [sim[r] EXCEPT !.device = k, !.existing = there, !.pc = "balance"]
<1>3. /\ sim[r] \in SimulatorType /\ sim' = [sim EXCEPT ![r] = t] /\ there \in BOOLEAN
      /\ LoopInv(r, sim[r]) /\ TypeOK
  BY <1>2, TypeParts DEF LoopsInv, RouterType
<1> HIDE DEF there
<1>4. t \in SimulatorType /\ t.last = sim[r].last /\ t.pc = "balance" /\ t.device = k
  BY <1>3 DEF SimulatorType, Places
<1> HIDE DEF t
<1>5. LoopInv(r, t)
  BY <1>3, <1>4 DEF LoopInv, SettleSteps
<1> QED
  BY <1>1, <1>3, <1>4, <1>5, LoopStands, OneLoop

LEMMA ReadBalanceKeeps ==
  ASSUME LoopsInv, lamports \in [DeviceKeys -> Nat], NEW r \in Routers, ReadBalance(r)
  PROVE  LoopsInv'
<1>1. ChainMoves
  BY StutterType, StillMoves DEF LoopsInv, ReadBalance, vars, accounts
<1>2. {"fund", "compare", "register"} \subseteq Places \ Promised
  BY DEF Places, Promised, SettleSteps
<1>3. CASE sim' = Goto(r, Funded(r))
  BY <1>1, <1>2, <1>3, GotoIdles DEF Funded
<1>4. CASE sim' # Goto(r, Funded(r))
  <2> DEFINE n == Funds - lamports[sim[r].device]
             t == [sim[r] EXCEPT !.amount = n, !.pc = "fund"]
  <2>1. sim[r] \in SimulatorType /\ sim' = [sim EXCEPT ![r] = t]
    BY <1>4 DEF LoopsInv, ReadBalance
  <2>2. n \in Nat
    <3>1. lamports[sim[r].device] \in Nat /\ ~(lamports[sim[r].device] >= DEVICE_MIN_LAMPORTS)
      BY <1>4 DEF LoopsInv, LoopInv, ReadBalance, At
    <3> QED
      BY <3>1, SimulatorAssumption DEF DEVICE_MIN_LAMPORTS
  <2> HIDE DEF n
  <2>3. t \in SimulatorType /\ t.last = sim[r].last /\ t.pc = "fund"
    BY <1>2, <2>1, <2>2 DEF SimulatorType
  <2> HIDE DEF t
  <2> QED
    BY <1>1, <1>2, <2>1, <2>3, OneLoopIdles
<1> QED
  BY <1>3, <1>4

LEMMA CompareKeeps ==
  ASSUME LoopsInv, NEW r \in Routers, Compare(r)
  PROVE  LoopsInv'
<1>1. ChainMoves
  BY StutterType, StillMoves DEF LoopsInv, Compare, vars, accounts
<1>2. {"rotate", "measure"} \subseteq Places \ Promised
  BY DEF Places, Promised, SettleSteps
<1> QED
  BY <1>1, <1>2, GotoIdles DEF Compare

LEMMA EnsureStakedKeeps ==
  ASSUME LoopsInv, NEW r \in Routers, EnsureStaked(r)
  PROVE  LoopsInv'
<1>1. ChainMoves
  BY StutterType, StillMoves DEF LoopsInv, EnsureStaked, vars, accounts
<1> DEFINE short == Shortfall(r)
           p == IF short = 0 THEN Resting(r) ELSE "stake"
           t == [sim[r] EXCEPT !.amount = short, !.pc = p]
<1>2. sim[r] \in SimulatorType /\ sim' = [sim EXCEPT ![r] = t]
  BY DEF LoopsInv, EnsureStaked
<1>3. short \in Nat
  <2> DEFINE staked == router[r].staked_amount
             least == config.min_stake
  <2>1. staked \in Nat /\ least \in Nat
    BY TypeParts DEF LoopsInv, RouterType, ConfigType
  <2> HIDE DEF staked, least
  <2>2. SaturatingSub(least, staked) \in Nat
    BY <2>1 DEF SaturatingSub
  <2> QED
    BY <2>2 DEF Shortfall, staked, least
<1>4. p \in {"loop", "ready", "stake"}
  BY DEF Resting
<1> HIDE DEF short, p
<1>5. t \in SimulatorType /\ t.last = sim[r].last /\ t.pc = p
  BY <1>2, <1>3, <1>4 DEF SimulatorType, Places
<1> HIDE DEF t
<1> QED
  BY <1>1, <1>2, <1>4, <1>5, OneLoopIdles DEF Promised, SettleSteps

LEMMA StartKeeps ==
  ASSUME LoopsInv, NEW r \in Routers, Start(r)
  PROVE  LoopsInv'
<1>1. ChainMoves
  BY StutterType, StillMoves DEF LoopsInv, Start, vars, accounts
<1> DEFINE t == [sim[r] EXCEPT !.running = TRUE, !.started = TRUE, !.pc = "loop"]
<1>2. sim[r] \in SimulatorType /\ sim' = [sim EXCEPT ![r] = t]
  BY DEF LoopsInv, Start
<1>3. t \in SimulatorType /\ t.last = sim[r].last /\ t.pc = "loop"
  BY <1>2 DEF SimulatorType, Places
<1> HIDE DEF t
<1> QED
  BY <1>1, <1>2, <1>3, OneLoopIdles DEF Promised, SettleSteps

LEMMA ReadClockKeeps ==
  ASSUME LoopsInv, NEW r \in Routers, ReadClock(r)
  PROVE  LoopsInv'
<1>1. ChainMoves
  BY StutterType, StillMoves DEF LoopsInv, ReadClock, vars, accounts
<1>2. PICK e \in Epochs : sim' = [sim EXCEPT ![r].epoch = e, ![r].pc = "beat"]
  BY DEF ReadClock
<1>3. sim[r] \in SimulatorType /\ LoopInv(r, sim[r]) /\ TypeOK /\ e \in Nat
  BY RouterPulseAssumption DEF LoopsInv
<1>4. PICK s \in SimulatorType : s = sim[r]
  BY <1>3
<1>5. PICK t \in SimulatorType : /\ sim' = [sim EXCEPT ![r] = t]
                                  /\ t.last = s.last /\ t.epoch = e /\ t.pc = "beat"
  <2> DEFINE t == [sim[r] EXCEPT !.epoch = e, !.pc = "beat"]
  <2>1. sim' = [sim EXCEPT ![r] = t]
    BY <1>2 DEF LoopsInv
  <2>2. t \in SimulatorType /\ t.last = s.last /\ t.epoch = e /\ t.pc = "beat"
    BY <1>3, <1>4 DEF SimulatorType, Places
  <2> HIDE DEF t
  <2> QED
    BY <2>1, <2>2
<1>6. s.last # Never => s.last \in Epochs /\ Done(repoch'[r][s.last])
  BY <1>1, <1>3, <1>4, LoopStands DEF LoopInv
<1>7. LoopInv(r, t)'
  BY <1>5, <1>6 DEF LoopInv, SettleSteps
<1> QED
  BY <1>1, <1>5, <1>7, OneLoop

\* The epoch before one that is known is known, too.
LEMMA LookBackKeeps ==
  ASSUME LoopsInv, NEW r \in Routers, LookBack(r)
  PROVE  LoopsInv'
<1>1. ChainMoves
  BY StutterType, StillMoves DEF LoopsInv, LookBack, vars, accounts
<1>2. sim[r].epoch \in Epochs
  BY DEF LoopsInv, LookBack, At, LoopInv
<1>3. CASE Settles(r) /\ sim' = Goto(r, "fetch")
  <2>1. Previous(r) \in Epochs
    BY <1>2, <1>3, SimulatorAssumption DEF Settles, Previous
  <2> QED
    BY <1>1, <1>3, <2>1, GotoGoesOn
<1> QED
  BY <1>1, <1>3, GotoIdles, LoopPlace DEF LookBack

LEMMA FetchEpochKeeps ==
  ASSUME LoopsInv, NEW r \in Routers, FetchEpoch(r)
  PROVE  LoopsInv'
<1>1. ChainMoves
  BY StutterType, StillMoves DEF LoopsInv, FetchEpoch, vars, accounts
<1> DEFINE e == Previous(r)
           ep == repoch[r][e]
<1>2. e \in Epochs
  BY DEF LoopsInv, FetchEpoch, At, LoopInv, SettleSteps, Previous
<1>3. ep \in RouterEpochType /\ repoch' = repoch
  BY <1>2, TypeParts DEF LoopsInv, FetchEpoch, vars, accounts
<1>4. sim' = Settle(r, ep, "fetch")
  BY DEF FetchEpoch
<1>5. ep.finalized => Agrees(ep, repoch'[r][e])
  BY <1>3 DEF Agrees
<1>6. PICK x \in RouterEpochType : x = ep
  BY <1>3
<1>7. "fetch" \in SettleSteps \ {"finalize"}
  BY DEF SettleSteps
<1> HIDE DEF ep
<1> QED
  BY <1>1, <1>2, <1>4, <1>5, <1>6, <1>7, SettleKeeps

----------------------------------------------------------------------------
(* The process, and everyone else. *)

LEMMA RequiredType ==
  ASSUME TypeOK
  PROVE  Required \in Nat
<1> DEFINE n == Cardinality(Routers) + 1
           least == config.min_stake
           ask == least * n
           held == wallet[Wallet]
<1>1. n \in Nat /\ least \in Nat /\ held \in Nat
  <2>1. Cardinality(Routers) \in Nat
    BY RouterPulseAssumption, FS_CardinalityType
  <2>2. least \in Nat
    BY TypeParts DEF ConfigType
  <2>3. held \in Nat
    BY SimulatorAssumption, TypeParts
  <2> QED
    BY <2>1, <2>2, <2>3
<1> HIDE DEF n, least, held
<1>2. ask \in Nat
  BY <1>1
<1> HIDE DEF ask
<1>3. SaturatingSub(ask, held) \in Nat
  BY <1>1, <1>2 DEF SaturatingSub
<1> QED
  BY <1>3 DEF Required, ask, least, n, held

LEMMA RegisterNextKeeps ==
  ASSUME LoopsInv, RegisterNext
  PROVE  LoopsInv'
<1>1. ChainMoves
  BY StutterType, StillMoves DEF LoopsInv, RegisterNext, vars, accounts
<1>2. PICK r : sim' = Goto(r, "lookup")
  BY DEF RegisterNext
<1>3. "lookup" \in Places /\ "lookup" \notin Promised
  BY DEF Places, Promised, SettleSteps
<1>4. CASE r \in Routers
  BY <1>1, <1>2, <1>3, <1>4, GotoIdles
<1>5. CASE r \notin Routers
  BY <1>1, <1>2, <1>5, LoopsStand DEF LoopsInv, Goto
<1> QED
  BY <1>4, <1>5

LEMMA OthersKeep ==
  ASSUME LoopsInv, Others \/ Punish \/ Clock
  PROVE  LoopsInv'
<1>1. TypeOK /\ OpenedFirst
  BY DEF LoopsInv
<1>2. (\E r \in Routers : Keeper(r)) => ChainMoves
  BY <1>1, FinalizeMoves, SlashMoves DEF Keeper
<1>3. PauseProtocol \/ ResumeProtocol => ChainMoves
  BY <1>1, SwitchType, StillMoves DEF PauseProtocol, ResumeProtocol, accounts
<1>4. (\E r \in Routers : ApplyPenalty(r)) => ChainMoves
  BY <1>1, ApplyPenaltyType, StillMoves DEF ApplyPenalty
<1>5. (\E d \in TickSteps : Tick(d)) => ChainMoves
  BY <1>1, TickType, StillMoves DEF Tick, accounts
<1>6. ChainMoves /\ sim' = sim
  BY <1>2, <1>3, <1>4, <1>5 DEF Others, Punish, Clock, simVars
<1> QED
  BY <1>6, LoopsStand

LEMMA InstanceKeeps ==
  ASSUME SimInv, NEW r \in Routers, Start(r) \/ Turn(r) \/ GivenUp(r)
  PROVE  LoopsInv'
<1>0. LoopsInv /\ faults \in Nat /\ lamports \in [DeviceKeys -> Nat]
  BY DEF SimInv, PostInv
<1>1. CASE FinishLoop(r)
  <2>1. ChainMoves
    BY <1>0, <1>1, StutterType, StillMoves DEF LoopsInv, FinishLoop, vars, accounts
  <2>2. "done" \in Places /\ "done" \notin Promised
    BY DEF Places, Promised, SettleSteps
  <2> QED
    BY <1>0, <1>1, <2>1, <2>2, GotoIdles DEF FinishLoop
<1>2. CASE GivenUp(r)
  <2>1. ChainMoves
    BY <1>0, <1>2, StutterType, StillMoves DEF LoopsInv, GivenUp, vars, accounts
  <2> QED
    BY <1>0, <1>2, <2>1, ThrowsKeeps DEF GivenUp
<1> QED
  BY <1>0, <1>1, <1>2, StartKeeps, LookupKeeps, ReadBalanceKeeps, CompareKeeps,
     EnsureStakedKeeps, ReadClockKeeps, LookBackKeeps, FetchEpochKeeps, AcceptedKeeps,
     RefusedKeeps DEF Turn

\* The draw main() waits for, too, is a transaction the program knows.
LEMMA DrawPosted ==
  ASSUME PostInv
  PROVE  Posted(Draw) /\ Draw.call = "mint" /\ Draw \in DrawType
<1>1. main.draw \in Nat /\ faults \in Nat
  BY DEF PostInv, MainType
<1>2. Draw \in DrawType /\ Draw.call = "mint"
  BY <1>1 DEF Draw, DrawType
<1> QED
  BY <1>2 DEF Posted, EpochCalls

LEMMA ProcessKeeps ==
  ASSUME SimInv, Process
  PROVE  LoopsInv'
<1>0. LoopsInv /\ PostInv /\ TypeOK /\ OpenedFirst
  BY DEF SimInv, LoopsInv
<1>1. CASE Launch \/ ReadWallet \/ AllRegistered
  <2>1. UNCHANGED vars /\ sim' = sim
    BY <1>1 DEF Launch, ReadWallet, AllRegistered
  <2> QED
    BY <1>0, <2>1, StutterType, StillMoves, LoopsStand DEF vars, accounts
<1>2. CASE DrawAccepted
  BY <1>0, <1>2, DrawPosted, ExecutesMoves, LoopsStand DEF DrawAccepted
<1>3. CASE DrawRefused \/ Quit
  <2>1. UNCHANGED vars /\ Exit
    BY <1>3 DEF DrawRefused, Quit
  <2> QED
    BY <1>0, <2>1, StutterType, StillMoves, ExitKeeps DEF vars, accounts
<1> QED
  BY <1>0, <1>1, <1>2, <1>3, RegisterNextKeeps, StopAllKeeps, InstanceKeeps DEF Process

LEMMA LandsKeeps ==
  ASSUME SimInv, Lands
  PROVE  LoopsInv'
<1>1. PICK t \in sent : Executes(t) /\ sim' = sim
  BY DEF Lands
<1>2. LoopsInv /\ TypeOK /\ OpenedFirst /\ Posted(t)
  BY DEF SimInv, LoopsInv, PostInv
<1> QED
  BY <1>1, <1>2, ExecutesMoves, LoopsStand

LEMMA StutterKeeps ==
  ASSUME LoopsInv, UNCHANGED allVars
  PROVE  LoopsInv'
<1>1. UNCHANGED vars /\ sim' = sim
  BY DEF allVars, simVars
<1> QED
  BY <1>1, StutterType, StillMoves, LoopsStand DEF LoopsInv, vars, accounts

LEMMA LoopsPreserved == SimInv /\ [SimNext]_allVars => LoopsInv'
BY ProcessKeeps, LandsKeeps, OthersKeep, StutterKeeps DEF SimNext, SimInv

----------------------------------------------------------------------------
(* What is on its way stays well formed. *)

LEMMA PostStill ==
  ASSUME PostInv, main' \in MainType, UNCHANGED <<lamports, faults, sent, late>>
  PROVE  PostInv'
BY DEF PostInv, Posted

LEMMA ExitMain ==
  ASSUME main \in MainType, Exit
  PROVE  main' \in MainType
BY DEF MainType, Exit

LEMMA ThrowsMain ==
  ASSUME main \in MainType, NEW r, Throws(r)
  PROVE  main' \in MainType
BY ExitMain DEF Throws

\* A transaction that has been outrun is otherwise what it was.
LEMMA OutrunFields ==
  ASSUME NEW t, Posted(t)
  PROVE  LET u == [t EXCEPT !.outrun = TRUE]
         IN  /\ Posted(u) /\ u.call = t.call /\ u.outrun /\ u.amount = t.amount
             /\ t.call # "mint" => /\ u.router = t.router /\ u.device = t.device
                                   /\ u.epoch = t.epoch
<1> DEFINE u == [t EXCEPT !.outrun = TRUE]
<1>1. CASE t \in DrawType
  BY <1>1 DEF Posted, DrawType, EpochCalls
<1>2. CASE t \in RequestType
  <2>1. /\ u \in RequestType /\ u.call = t.call /\ u.outrun /\ u.amount = t.amount
        /\ u.router = t.router /\ u.device = t.device /\ u.epoch = t.epoch
    BY <1>2 DEF RequestType
  <2> HIDE DEF u
  <2>2. Posted(u)
    BY <2>1 DEF Posted
  <2> QED
    BY <2>1, <2>2 DEF u
<1> QED
  BY <1>1, <1>2 DEF Posted

LEMMA OutrunPosted ==
  ASSUME \A t \in sent : Posted(t), NEW old \in SUBSET sent
  PROVE  \A t \in Outrun(old) : Posted(t)
<1> SUFFICES ASSUME NEW u \in Outrun(old) PROVE Posted(u)
  OBVIOUS
<1>1. CASE u \in sent
  BY <1>1
<1>2. CASE \E t \in old : u = [t EXCEPT !.outrun = TRUE]
  BY <1>2, OutrunFields
<1> QED
  BY <1>1, <1>2 DEF Outrun

LEMMA ExecutesLamports ==
  ASSUME lamports \in [DeviceKeys -> Nat], NEW t, Posted(t), Executes(t)
  PROVE  lamports' \in [DeviceKeys -> Nat]
<1> DEFINE k == t.device
           n == t.amount
<1>1. n \in Nat
  BY PostedFields
<1>2. \/ lamports' = lamports
      \/ lamports' = [lamports EXCEPT ![k] = @ + n]
      \/ lamports[k] >= EPOCH_RENT + RENT_EXEMPT /\ lamports' = [lamports EXCEPT ![k] = @ - EPOCH_RENT]
  <2>1. CASE EpochOpened(t.router, t.epoch)
    BY <2>1 DEF Executes
  <2>2. CASE ~EpochOpened(t.router, t.epoch)
    BY <2>2 DEF Executes, PaysRent
  <2> QED
    BY <2>1, <2>2
<1> HIDE DEF k, n
<1>3. CASE lamports' = [lamports EXCEPT ![k] = @ + n]
  <2>1. ASSUME NEW d \in DeviceKeys PROVE lamports[d] \in Nat /\ lamports[d] + n \in Nat
    BY <1>1
  <2> QED
    BY <1>3, <2>1
<1>4. CASE lamports[k] >= EPOCH_RENT + RENT_EXEMPT /\ lamports' = [lamports EXCEPT ![k] = @ - EPOCH_RENT]
  <2>1. EPOCH_RENT \in Nat /\ RENT_EXEMPT \in Nat
    BY DEF EPOCH_RENT, RENT_EXEMPT
  <2>2. k \in DeviceKeys => lamports[k] - EPOCH_RENT \in Nat
    BY <1>4, <2>1
  <2> QED
    BY <1>4, <2>2
<1> QED
  BY <1>2, <1>3, <1>4

LEMMA CountedType ==
  ASSUME late \in LateType, NEW t, Posted(t)
  PROVE  Counted(t) \in LateType
<1>1. CASE t.call = "mint" /\ t.outrun
  <2>1. Counted(t) = [late EXCEPT !.draws = @ + 1]
    BY <1>1 DEF Counted
  <2> QED
    BY <2>1 DEF LateType
<1>2. CASE t.call = "stake" /\ t.outrun
  <2>1. Counted(t) = [late EXCEPT !.stakes[t.router] = @ + 1] /\ t.router \in Routers
    BY <1>2, PostedFields DEF Counted
  <2> QED
    BY <2>1 DEF LateType
<1>3. CASE t.call = "rotate" /\ t.outrun
  <2>1. Counted(t) = [late EXCEPT !.keys = @ \cup {t.router}] /\ t.router \in Routers
    BY <1>3, PostedFields DEF Counted
  <2> QED
    BY <2>1 DEF LateType
<1>4. CASE t.call \notin {"mint", "stake", "rotate"} \/ ~t.outrun
  BY <1>4 DEF Counted
<1> QED
  BY <1>1, <1>2, <1>3, <1>4

LEMMA InstancePost ==
  ASSUME SimInv, NEW r \in Routers, Start(r) \/ Turn(r) \/ GivenUp(r)
  PROVE  PostInv'
<1>0. /\ LoopsInv /\ PostInv /\ main \in MainType /\ faults \in Nat /\ late \in LateType
      /\ lamports \in [DeviceKeys -> Nat] /\ \A t \in sent : Posted(t)
  BY DEF SimInv, PostInv
<1>1. CASE \/ Start(r) \/ Lookup(r) \/ ReadBalance(r) \/ ReadClock(r) \/ FinishLoop(r)
           \/ LookBack(r) \/ FetchEpoch(r)
  <2>1. UNCHANGED <<main, lamports, faults, sent, late>>
    BY <1>1 DEF Start, Lookup, ReadBalance, ReadClock, FinishLoop, LookBack, FetchEpoch
  <2> QED
    BY <1>0, <2>1, PostStill
<1>2. CASE Compare(r) \/ EnsureStaked(r)
  <2>1. /\ UNCHANGED <<main, lamports, faults>>
        /\ late' = late \/ late' = [late EXCEPT !.keys = @ \ {r}]
        /\ sent' = Outrun(Pending("rotate", r)) \/ sent' = Outrun(Pending("stake", r))
    BY <1>2 DEF Compare, EnsureStaked
  <2>2. late' \in LateType
    BY <1>0, <2>1 DEF LateType
  <2>3. \A t \in sent' : Posted(t)
    BY <1>0, <2>1, OutrunPosted DEF Pending
  <2> QED
    BY <1>0, <2>1, <2>2, <2>3 DEF PostInv, Posted
<1>3. CASE Accepted(r)
  <2>1. Executes(Request(r)) /\ sim[r].pc \in Calls /\ UNCHANGED <<main, faults, sent, late>>
    BY <1>3 DEF Accepted, Sends
  <2>2. Posted(Request(r))
    BY <1>0, <2>1, RequestPosted
  <2>3. lamports' \in [DeviceKeys -> Nat]
    BY <1>0, <2>1, <2>2, ExecutesLamports
  <2> QED
    BY <1>0, <2>1, <2>3 DEF PostInv, Posted
<1>4. CASE Refused(r)
  <2>1. UNCHANGED <<lamports, faults, sent, late>> /\ (main' = main \/ Throws(r))
    BY <1>4 DEF Refused
  <2> QED
    BY <1>0, <2>1, ThrowsMain, PostStill
<1>5. CASE GivenUp(r)
  <2>1. /\ UNCHANGED <<lamports, late>> /\ Throws(r) /\ faults' = faults + 1
        /\ sent' = IF sim[r].pc \in Calls THEN sent \cup {Request(r)} ELSE sent
    BY <1>5 DEF GivenUp, Fails
  <2>2. \A t \in sent' : Posted(t)
    BY <1>0, <2>1, RequestPosted
  <2>3. main' \in MainType
    BY <1>0, <2>1, ThrowsMain
  <2> QED
    BY <1>0, <2>1, <2>2, <2>3 DEF PostInv, Posted
<1> QED
  BY <1>1, <1>2, <1>3, <1>4, <1>5 DEF Turn

LEMMA MainPost ==
  ASSUME SimInv, \/ Launch \/ ReadWallet \/ DrawAccepted \/ DrawRefused \/ RegisterNext
                 \/ AllRegistered \/ StopAll \/ Quit
  PROVE  PostInv'
<1>0. /\ TypeOK /\ LoopsInv /\ PostInv /\ main \in MainType /\ faults \in Nat
      /\ late \in LateType /\ lamports \in [DeviceKeys -> Nat]
      /\ \A t \in sent : Posted(t)
  BY DEF SimInv, PostInv, LoopsInv
<1>1. CASE Launch
  <2>1. PICK seeded \in BOOLEAN :
          main' = [pc |-> "top_up", turn |-> 0, draw |-> 0, seeded |-> seeded,
                   seedless |-> main.seedless \/ ~seeded, stopped |-> FALSE,
                   launches |-> main.launches + 1]
    BY <1>1 DEF Launch
  <2>2. main.launches + 1 \in Nat /\ (main.seedless \/ ~seeded) \in BOOLEAN
    BY <1>0 DEF MainType
  <2>3. main' \in MainType
    BY <2>1, <2>2 DEF MainType
  <2> QED
    BY <1>0, <1>1, <2>3, PostStill DEF Launch
<1>2. CASE RegisterNext \/ AllRegistered \/ StopAll \/ DrawRefused
  <2>1. main' \in MainType
    <3>1. CASE RegisterNext
      <4>1. main' = [main EXCEPT !.turn = @ + 1]
        BY <3>1 DEF RegisterNext
      <4> QED
        BY <1>0, <4>1 DEF MainType
    <3>2. CASE AllRegistered \/ StopAll
      <4>1. main' = [main EXCEPT !.pc = "run"] \/ main' = [main EXCEPT !.stopped = TRUE]
        BY <3>2 DEF AllRegistered, StopAll
      <4> QED
        BY <1>0, <4>1 DEF MainType
    <3> QED
      BY <1>0, <1>2, <3>1, <3>2, ExitMain DEF DrawRefused
  <2> QED
    BY <1>0, <1>2, <2>1, PostStill DEF RegisterNext, AllRegistered, StopAll, DrawRefused
<1>3. CASE ReadWallet
  <2>0. Required \in Nat
    BY <1>0, RequiredType
  <2> DEFINE n == Required
  <2>1. n \in Nat
    BY <2>0
  <2>2. /\ UNCHANGED <<lamports, faults, late>>
        /\ sent' = Outrun(PendingDraws)
        /\ \/ main' = [main EXCEPT !.pc = "mint", !.draw = n]
           \/ main' = [main EXCEPT !.pc = "register"]
    BY <1>3 DEF ReadWallet
  <2> HIDE DEF n
  <2>3. main' \in MainType
    BY <1>0, <2>1, <2>2 DEF MainType
  <2>4. \A t \in sent' : Posted(t)
    BY <1>0, <2>2, OutrunPosted DEF PendingDraws
  <2> QED
    BY <1>0, <2>2, <2>3, <2>4 DEF PostInv, Posted
<1>4. CASE DrawAccepted
  <2>1. /\ Executes(Draw) /\ UNCHANGED <<faults, sent, late>>
        /\ main' = [main EXCEPT !.pc = "register", !.draw = 0]
    BY <1>4 DEF DrawAccepted
  <2>2. lamports' \in [DeviceKeys -> Nat]
    BY <1>0, <2>1, DrawPosted, ExecutesLamports
  <2>3. main' \in MainType
    BY <1>0, <2>1 DEF MainType
  <2> QED
    BY <1>0, <2>1, <2>2, <2>3 DEF PostInv, Posted
<1>5. CASE Quit
  <2>1. main' \in MainType /\ UNCHANGED <<lamports, late>>
    BY <1>0, <1>5, ExitMain DEF Quit
  <2>2. faults' \in Nat /\ (sent' = sent \/ sent' = sent \cup Unanswered)
    BY <1>0, <1>5 DEF Quit, Fails
  <2>3. \A t \in Unanswered : Posted(t)
    BY <1>0, RequestPosted, DrawPosted DEF Unanswered
  <2> QED
    BY <1>0, <2>1, <2>2, <2>3 DEF PostInv, Posted
<1> QED
  BY <1>1, <1>2, <1>3, <1>4, <1>5

LEMMA LandsPost ==
  ASSUME SimInv, Lands
  PROVE  PostInv'
<1>0. /\ PostInv /\ late \in LateType /\ lamports \in [DeviceKeys -> Nat]
      /\ \A t \in sent : Posted(t)
  BY DEF SimInv, PostInv
<1>1. PICK t \in sent : /\ Executes(t) /\ sent' = sent \ {t} /\ late' = Counted(t)
                        /\ UNCHANGED <<main, sim, faults>>
  BY DEF Lands
<1>2. Posted(t) /\ lamports' \in [DeviceKeys -> Nat] /\ late' \in LateType
  BY <1>0, <1>1, ExecutesLamports, CountedType
<1> QED
  BY <1>0, <1>1, <1>2 DEF PostInv, Posted

LEMMA PostPreserved == SimInv /\ [SimNext]_allVars => PostInv'
<1> SUFFICES ASSUME SimInv, [SimNext]_allVars PROVE PostInv'
  OBVIOUS
<1>1. CASE Process
  BY <1>1, MainPost, InstancePost DEF Process
<1>2. CASE Lands
  BY <1>2, LandsPost
<1>3. CASE Others \/ Punish \/ Clock \/ UNCHANGED allVars
  <2>1. UNCHANGED simVars
    BY <1>3 DEF Others, Punish, Clock, allVars
  <2> QED
    BY <2>1, PostStill DEF SimInv, PostInv, simVars
<1> QED
  BY <1>1, <1>2, <1>3 DEF SimNext

----------------------------------------------------------------------------
(* The theorems. *)

LEMMA SimInitially == SimInit => SimInv
<1> SUFFICES ASSUME SimInit PROVE SimInv
  OBVIOUS
<1>1. TypeOK
  <2>1. PICK c \in Configs :
          /\ ValidConfig(c) /\ config = c
          /\ protocol = [NoProtocol EXCEPT !.initialized = TRUE,
               !.genesis_time = StartTime, !.reward_rate = c.reward_rate]
    BY DEF SimInit
  <2>2. /\ config \in ConfigType /\ ValidConfig(config)
        /\ StartTime \in Nat \ {0} /\ c.reward_rate \in Nat
    BY <2>1, RouterPulseAssumption DEF ConfigType
  <2>3. protocol \in ProtocolType
    BY <2>1, <2>2 DEF NoProtocol, ProtocolType
  <2> QED
    BY <2>2, <2>3, ZeroTypes DEF SimInit, TypeOK
<1>2. OpenedFirst
  BY DEF SimInit, OpenedFirst, NoRouterEpoch
<1>3. sim \in [Routers -> SimulatorType] /\ \A r \in Routers : sim[r] = Fresh
  BY FreshLoop DEF SimInit
<1>4. PostInv
  BY DEF SimInit, PostInv, MainType, LateType
<1> QED
  BY <1>1, <1>2, <1>3, <1>4, FreshLoop DEF SimInv, LoopsInv

LEMMA SimPreserved == SimInv /\ [SimNext]_allVars => SimInv'
BY LoopsPreserved, PostPreserved DEF SimInv

\* The inductive invariant of the simulator: what its place in the settling says
\* about the chain, that the accounts keep their types under its steps, and that
\* what it gave up on is a transaction the program knows.
THEOREM SimInvariant == SimSpec => []SimInv
BY SimInitially, SimPreserved, PTL DEF SimSpec

\* For any number of routers and epochs, whatever the other keepers, the authority
\* and the failures do and however late a call is executed: an epoch the loop has
\* ticked off is finalized, its slash is executed and its reward claimed
\* (router.ts:349).
THEOREM TickedOffIsSettled == SimSpec => []SettledIsSettled
<1>1. SimInv => SettledIsSettled
  BY DEF SimInv, LoopsInv, LoopInv, Done, SettledIsSettled
<1> QED
  BY <1>1, SimInvariant, PTL

----------------------------------------------------------------------------
(* The keys and the collateral of the routers. *)

\* Where a rotation given up by an earlier launch may still be compared with.
Early == {"off", "lookup", "balance", "fund", "compare", "register"}

\* Where the router may have another key than the instance.
Unattached == Early \cup {"rotate"}

\* What the router may hold: the minimum, and once more for each late stake.
Cap(r) == config.min_stake * (1 + late.stakes[r])

\* The mirror is right, and collateral is only held for a router that is registered.
Covered(r) ==
  /\ router[r].staked_amount = stake[r].amount
  /\ router[r].staked_amount <= Cap(r)
  /\ ~router[r].exists => stake[r].amount = 0

\* The instance of router r is in state s.
CrewInv(r, s) ==
  /\ s.pc \notin {"off", "lookup"} => s.device \in DeviceKeys
  /\ s.pc \in Unattached => ~s.started
  /\ s.existing => router[r].exists
  /\ s.pc \in {"compare", "rotate"} => s.existing
  /\ s.pc \notin Unattached =>
       router[r].exists /\ (router[r].device_pubkey = s.device \/ r \in late.keys)
  /\ s.pc = "stake" =>
       s.amount <= config.min_stake /\ router[r].staked_amount + s.amount <= Cap(r)

\* A call given up that may still be executed.  As long as nobody has read the account
\* it writes, no instance acts on what it found there.
Outstanding(t) ==
  /\ t.device \in DeviceKeys
  /\ t.call = "rotate" =>
       router[t.router].exists /\ (t.outrun \/ sim[t.router].pc \in Early)
  /\ t.call = "stake" =>
       /\ t.amount <= config.min_stake
       /\ \/ t.outrun
          \/ /\ sim[t.router].pc # "stake"
             /\ router[t.router].staked_amount + t.amount <= Cap(t.router)

\* One of them at most adds to a stake that has not been read since.
OneStake ==
  \A t \in sent, u \in sent :
    t.call = "stake" /\ u.call = "stake" /\ t.router = u.router /\ ~t.outrun /\ ~u.outrun
      => t = u

KeysInv ==
  /\ SimInv
  /\ \A r \in Routers : Covered(r) /\ CrewInv(r, sim[r])
  /\ main.pc # "run" => \A r \in Routers : ~sim[r].started
  /\ OneStake
  /\ \A t \in sent : t.call # "mint" => Outstanding(t)

----------------------------------------------------------------------------
(* What a transaction does to keys and collateral. *)

\* No key and no registration changes, and no position grows.
Quiet(r) ==
  /\ router'[r].exists = router[r].exists
  /\ router'[r].device_pubkey = router[r].device_pubkey
  /\ \/ router'[r].staked_amount = router[r].staked_amount /\ stake'[r].amount = stake[r].amount
     \/ /\ router'[r].staked_amount = stake'[r].amount
        /\ stake'[r].amount \in Nat /\ stake'[r].amount <= stake[r].amount

AllQuiet == config' = config /\ \A r \in Routers : Quiet(r)

LEMMA NothingMoves ==
  ASSUME config' = config, router' = router, stake' = stake
  PROVE  AllQuiet
BY DEF AllQuiet, Quiet

LEMMA AccountsStand ==
  ASSUME config' = config, UNCHANGED accounts
  PROVE  AllQuiet
BY NothingMoves DEF accounts

\* A router written, with its key and its collateral as they were.
LEMMA OneWritten ==
  ASSUME TypeOK, NEW x \in Routers, NEW rt, router' = [router EXCEPT ![x] = rt],
         rt.exists = router[x].exists, rt.device_pubkey = router[x].device_pubkey,
         rt.staked_amount = router[x].staked_amount, stake' = stake, config' = config
  PROVE  AllQuiet
<1>1. router \in [Routers -> RouterType]
  BY TypeParts
<1>2. ASSUME NEW r \in Routers PROVE router'[r] = IF r = x THEN rt ELSE router[r]
  BY <1>1
<1> QED
  BY <1>2 DEF AllQuiet, Quiet

LEMMA HeartbeatQuiet ==
  ASSUME TypeOK, NEW k, NEW r \in Routers, NEW e \in Epochs, Heartbeat(k, r, e)
  PROVE  AllQuiet
<1> DEFINE first == router[r].heartbeat_count = 0
           active == [router[r] EXCEPT !.status = "Active"]
           live == IF first THEN active ELSE Scored(r)
           rt == [live EXCEPT !.last_heartbeat = now, !.heartbeat_count = @ + 1]
<1>1. router' = [router EXCEPT ![r] = rt] /\ stake' = stake /\ config' = config
  BY DEF Heartbeat, FirstBeat
<1>2. router[r] \in RouterType
  BY TypeParts
<1>3. /\ active.exists = router[r].exists
      /\ active.device_pubkey = router[r].device_pubkey
      /\ active.staked_amount = router[r].staked_amount
      /\ DOMAIN active = DOMAIN router[r]
  BY <1>2 DEF RouterType
<1>4. /\ Scored(r).exists = router[r].exists
      /\ Scored(r).device_pubkey = router[r].device_pubkey
      /\ Scored(r).staked_amount = router[r].staked_amount
      /\ DOMAIN Scored(r) = DOMAIN router[r]
  BY <1>2 DEF RouterType, Scored
<1> HIDE DEF active, first
<1>5. /\ live.exists = router[r].exists
      /\ live.device_pubkey = router[r].device_pubkey
      /\ live.staked_amount = router[r].staked_amount
      /\ DOMAIN live = DOMAIN router[r]
  BY <1>3, <1>4
<1> HIDE DEF live
<1>6. /\ rt.exists = router[r].exists
      /\ rt.device_pubkey = router[r].device_pubkey
      /\ rt.staked_amount = router[r].staked_amount
  BY <1>2, <1>5 DEF RouterType
<1> HIDE DEF rt
<1> QED
  BY <1>1, <1>6, OneWritten

LEMMA ClaimQuiet ==
  ASSUME TypeOK, NEW r \in Routers, NEW e \in Epochs, ClaimReward(r, e)
  PROVE  AllQuiet
<1> DEFINE reward == repoch[r][e].reward_amount
           rt == [router[r] EXCEPT !.total_rewards = @ + reward]
<1>1. router' = [router EXCEPT ![r] = rt] /\ stake' = stake /\ config' = config
  BY DEF ClaimReward
<1>2. router[r] \in RouterType
  BY TypeParts
<1>3. /\ rt.exists = router[r].exists
      /\ rt.device_pubkey = router[r].device_pubkey
      /\ rt.staked_amount = router[r].staked_amount
  BY <1>2 DEF RouterType
<1> HIDE DEF rt
<1> QED
  BY <1>1, <1>3, OneWritten

LEMMA PenaltyQuiet ==
  ASSUME TypeOK, NEW r \in Routers, ApplyPenalty(r)
  PROVE  AllQuiet
<1> DEFINE penalty == (router[r].total_rewards * config.penalty_bps) \div BASIS_POINTS_DIVISOR
           rt == Penalized(r, penalty)
<1>1. router' = [router EXCEPT ![r] = rt] /\ stake' = stake /\ config' = config
  BY DEF ApplyPenalty, PenaltyProduct, Penalty
<1>2. router[r] \in RouterType
  BY TypeParts
<1> HIDE DEF penalty
<1>3. /\ rt.exists = router[r].exists
      /\ rt.device_pubkey = router[r].device_pubkey
      /\ rt.staked_amount = router[r].staked_amount
  BY <1>2 DEF RouterType, Penalized
<1> HIDE DEF rt
<1> QED
  BY <1>1, <1>3, OneWritten

LEMMA SlashQuiet ==
  ASSUME TypeOK, NEW x \in Routers, NEW e \in Epochs, SlashRouter(x, e)
  PROVE  AllQuiet
<1> DEFINE amount == SlashDue(x, e)
           left == SaturatingSub(stake[x].amount, amount)
           rt == [router[x] EXCEPT !.staked_amount = left, !.total_penalties = @ + amount]
           st == [stake[x] EXCEPT !.amount = left, !.total_slashed = @ + amount]
<1>1. /\ router' = [router EXCEPT ![x] = rt] /\ stake' = [stake EXCEPT ![x] = st]
      /\ config' = config
  BY DEF SlashRouter
<1>2. /\ router \in [Routers -> RouterType] /\ stake \in [Routers -> StakeType]
      /\ stake[x].amount \in Nat
  BY TypeParts DEF StakeType
<1> HIDE DEF amount, left
<1>3. router[x] \in RouterType
  BY <1>2
<1>4. rt.exists = router[x].exists /\ rt.device_pubkey = router[x].device_pubkey
  BY <1>3 DEF RouterType
<1> HIDE DEF rt, st
<1>5. ASSUME NEW r \in Routers
      PROVE  /\ r = x => router'[r] = rt /\ stake'[r] = st
             /\ r # x => router'[r] = router[r] /\ stake'[r] = stake[r]
  BY <1>1, <1>2
<1>6. /\ router'[x].staked_amount = stake'[x].amount
      /\ stake'[x].amount \in Nat /\ stake'[x].amount <= stake[x].amount
  BY <1>2, SlashEffect
<1> QED
  BY <1>1, <1>4, <1>5, <1>6 DEF AllQuiet, Quiet

\* Everyone but r stays as it is.
OthersQuiet(r) == config' = config /\ \A x \in Routers \ {r} : Quiet(x)

Registers(r, k) ==
  /\ ~router[r].exists /\ router'[r].exists /\ router'[r].device_pubkey = k
  /\ router'[r].staked_amount = 0 /\ stake'[r] = stake[r]

Rekeys(r, k) ==
  /\ router[r].exists /\ router'[r].exists /\ router'[r].device_pubkey = k
  /\ router'[r].staked_amount = router[r].staked_amount /\ stake'[r] = stake[r]

Adds(r, n) ==
  /\ router[r].exists /\ router'[r].exists
  /\ router'[r].device_pubkey = router[r].device_pubkey
  /\ router'[r].staked_amount = stake[r].amount + n
  /\ stake'[r].amount = stake[r].amount + n

LEMMA RegisterOnly ==
  ASSUME TypeOK, NEW r \in Routers, NEW k, RegisterRouter(r, k)
  PROVE  OthersQuiet(r) /\ Registers(r, k)
<1> DEFINE rt == [NoRouter EXCEPT !.exists = TRUE, !.device_pubkey = k,
                                  !.last_heartbeat = now, !.uptime_score = MAX_SCORE]
<1>1. /\ router' = [router EXCEPT ![r] = rt]
      /\ stake' = stake /\ config' = config /\ ~router[r].exists
  BY DEF RegisterRouter
<1>2. rt.exists /\ rt.device_pubkey = k /\ rt.staked_amount = 0
  BY DEF NoRouter
<1> HIDE DEF rt
<1>3. ASSUME NEW x \in Routers PROVE router'[x] = IF x = r THEN rt ELSE router[x]
  BY <1>1, TypeParts
<1> QED
  BY <1>1, <1>2, <1>3 DEF OthersQuiet, Quiet, Registers

LEMMA RotateOnly ==
  ASSUME TypeOK, NEW r \in Routers, NEW k, RotateDeviceKey(r, k)
  PROVE  OthersQuiet(r) /\ Rekeys(r, k)
<1> DEFINE rt == [router[r] EXCEPT !.device_pubkey = k, !.device_key_version = @ + 1]
<1>1. router \in [Routers -> RouterType]
  BY TypeParts
<1>2. /\ router' = [router EXCEPT ![r] = rt] /\ stake' = stake /\ config' = config
      /\ router[r].exists
  BY <1>1 DEF RotateDeviceKey
<1>3. router[r] \in RouterType
  BY <1>1
<1>4. /\ rt.exists = router[r].exists /\ rt.device_pubkey = k
      /\ rt.staked_amount = router[r].staked_amount
  BY <1>3 DEF RouterType
<1> HIDE DEF rt
<1>5. ASSUME NEW x \in Routers PROVE router'[x] = IF x = r THEN rt ELSE router[x]
  BY <1>1, <1>2
<1> QED
  BY <1>2, <1>4, <1>5 DEF OthersQuiet, Quiet, Rekeys

LEMMA StakeOnly ==
  ASSUME TypeOK, NEW r \in Routers, NEW n \in Nat, StakeCollateral(r, n)
  PROVE  OthersQuiet(r) /\ Adds(r, n)
<1> DEFINE total == stake[r].amount + n
           rt == [router[r] EXCEPT !.staked_amount = total]
           st == [stake[r] EXCEPT !.amount = total, !.locked_until = LockUntil(r),
                                  !.created_at = IF @ = 0 THEN now ELSE @]
<1>1. /\ router' = [router EXCEPT ![r] = rt] /\ stake' = [stake EXCEPT ![r] = st]
      /\ config' = config /\ router[r].exists
  BY DEF StakeCollateral
<1>2. /\ router \in [Routers -> RouterType] /\ stake \in [Routers -> StakeType]
      /\ router[r] \in RouterType /\ stake[r] \in StakeType
  BY TypeParts
<1> HIDE DEF total
<1>3. /\ rt.exists = router[r].exists /\ rt.device_pubkey = router[r].device_pubkey
      /\ rt.staked_amount = total /\ st.amount = total
  BY <1>2 DEF RouterType, StakeType
<1> HIDE DEF rt, st
<1>4. ASSUME NEW x \in Routers
      PROVE  /\ x = r => router'[x] = rt /\ stake'[x] = st
             /\ x # r => router'[x] = router[x] /\ stake'[x] = stake[x]
  BY <1>1, <1>2
<1> QED
  BY <1>1, <1>3, <1>4 DEF OthersQuiet, Quiet, Adds, total

LEMMA ExecutesEffect ==
  ASSUME TypeOK, NEW t, Posted(t), Executes(t)
  PROVE  LET r == t.router
         IN  \/ /\ t.call = "register" /\ r \in Routers
                /\ OthersQuiet(r) /\ Registers(r, t.device)
             \/ /\ t.call = "rotate" /\ r \in Routers
                /\ OthersQuiet(r) /\ Rekeys(r, t.device)
             \/ /\ t.call = "stake" /\ r \in Routers
                /\ OthersQuiet(r) /\ Adds(r, t.amount)
             \/ t.call \notin {"register", "rotate", "stake"} /\ AllQuiet
<1> DEFINE r == t.router
           k == t.device
           e == t.epoch
           n == t.amount
<1>1. /\ n \in Nat
      /\ t.call # "mint" => r \in Routers
      /\ t.call \in EpochCalls => e \in Epochs
  BY PostedFields
<1>2. \/ t.call = "fund" /\ UNCHANGED vars
      \/ t.call = "mint" /\ MintGenesis(Wallet, n)
      \/ t.call = "register" /\ RegisterRouter(r, k)
      \/ t.call = "rotate" /\ RotateDeviceKey(r, k)
      \/ t.call = "stake" /\ StakeCollateral(r, n)
      \/ t.call = "beat" /\ Heartbeat(k, r, e)
      \/ t.call = "finalize" /\ FinalizeRouterEpoch(r, e)
      \/ t.call = "slash" /\ SlashRouter(r, e)
      \/ t.call = "claim" /\ ClaimReward(r, e)
      \/ t.call = "vest" /\ ClaimVested(r, e)
  BY DEF Executes
<1>3. t.call = "register" /\ RegisterRouter(r, k) => OthersQuiet(r) /\ Registers(r, k)
  BY <1>1, RegisterOnly
<1>4. t.call = "rotate" /\ RotateDeviceKey(r, k) => OthersQuiet(r) /\ Rekeys(r, k)
  BY <1>1, RotateOnly
<1>5. t.call = "stake" /\ StakeCollateral(r, n) => OthersQuiet(r) /\ Adds(r, n)
  BY <1>1, StakeOnly
<1>6. UNCHANGED vars \/ MintGenesis(Wallet, n) => AllQuiet
  BY AccountsStand DEF MintGenesis, vars
<1>7. t.call = "beat" /\ Heartbeat(k, r, e) => AllQuiet
  BY <1>1, HeartbeatQuiet DEF EpochCalls
<1>8. t.call = "finalize" /\ FinalizeRouterEpoch(r, e) => AllQuiet
  BY NothingMoves DEF FinalizeRouterEpoch
<1>9. t.call = "slash" /\ SlashRouter(r, e) => AllQuiet
  BY <1>1, SlashQuiet DEF EpochCalls
<1>10. t.call = "claim" /\ ClaimReward(r, e) => AllQuiet
  BY <1>1, ClaimQuiet DEF EpochCalls
<1>11. t.call = "vest" /\ ClaimVested(r, e) => AllQuiet
  BY NothingMoves DEF ClaimVested
<1> HIDE DEF r, k, e, n
<1>12. \/ t.call = "register" /\ r \in Routers /\ OthersQuiet(r) /\ Registers(r, k)
       \/ t.call = "rotate" /\ r \in Routers /\ OthersQuiet(r) /\ Rekeys(r, k)
       \/ t.call = "stake" /\ r \in Routers /\ OthersQuiet(r) /\ Adds(r, n)
       \/ t.call \notin {"register", "rotate", "stake"} /\ AllQuiet
  BY <1>1, <1>2, <1>3, <1>4, <1>5, <1>6, <1>7, <1>8, <1>9, <1>10, <1>11
<1> QED
  BY <1>12 DEF r, k, n

----------------------------------------------------------------------------
(* What leaves the invariant of a router alone. *)

LEMMA CapType ==
  ASSUME TypeOK, late \in LateType, NEW r \in Routers
  PROVE  Cap(r) \in Nat /\ config.min_stake \in Nat /\ config.min_stake <= Cap(r)
<1> DEFINE m == config.min_stake
           k == late.stakes[r]
<1>1. m \in Nat /\ k \in Nat
  BY TypeParts DEF ConfigType, LateType
<1> HIDE DEF m, k
<1>2. m * (1 + k) \in Nat /\ m <= m * (1 + k)
  BY <1>1
<1> QED
  BY <1>1, <1>2 DEF Cap, m, k

LEMMA CapStays ==
  ASSUME NEW r, config' = config, late'.stakes[r] = late.stakes[r]
  PROVE  Cap(r)' = Cap(r)
BY DEF Cap

LEMMA CapGrows ==
  ASSUME TypeOK, late \in LateType, NEW r \in Routers, config' = config,
         late'.stakes[r] = late.stakes[r] + 1
  PROVE  Cap(r)' = Cap(r) + config.min_stake
<1> DEFINE m == config.min_stake
           k == late.stakes[r]
<1>1. m \in Nat /\ k \in Nat
  BY TypeParts DEF ConfigType, LateType
<1>2. Cap(r)' = m * (1 + (k + 1)) /\ Cap(r) = m * (1 + k)
  BY DEF Cap
<1> HIDE DEF m, k
<1>3. m * (1 + (k + 1)) = m * (1 + k) + m
  BY <1>1
<1> QED
  BY <1>2, <1>3 DEF m

LEMMA KeysParts ==
  ASSUME KeysInv
  PROVE  /\ SimInv /\ LoopsInv /\ PostInv /\ TypeOK
         /\ late \in LateType /\ main \in MainType /\ faults \in Nat
         /\ lamports \in [DeviceKeys -> Nat]
         /\ sim \in [Routers -> SimulatorType]
         /\ OneStake
         /\ \A t \in sent : Posted(t) /\ (t.call # "mint" => Outstanding(t))
BY DEF KeysInv, SimInv, LoopsInv, PostInv

LEMMA CrewParts ==
  ASSUME KeysInv, NEW r \in Routers
  PROVE  /\ sim[r] \in SimulatorType /\ LoopInv(r, sim[r])
         /\ CrewInv(r, sim[r]) /\ Covered(r)
         /\ main.pc # "run" => ~sim[r].started
         /\ Cap(r) \in Nat /\ config.min_stake \in Nat /\ config.min_stake <= Cap(r)
         /\ router[r].staked_amount \in Nat /\ stake[r].amount \in Nat
         /\ sim[r].amount \in Nat
<1>1. /\ TypeOK /\ late \in LateType /\ sim[r] \in SimulatorType /\ LoopInv(r, sim[r])
      /\ CrewInv(r, sim[r]) /\ Covered(r)
      /\ main.pc # "run" => ~sim[r].started
  BY DEF KeysInv, SimInv, LoopsInv, PostInv
<1>2. router[r] \in RouterType /\ stake[r] \in StakeType
  BY <1>1, TypeParts
<1> QED
  BY <1>1, <1>2, CapType DEF RouterType, StakeType, SimulatorType

\* The router keeps its key, or a late rotation has it, and its stake grows by no
\* more than what it may hold.
Steady(r) ==
  /\ router[r].exists => router'[r].exists
  /\ \/ sim[r].pc \in Unattached
     \/ router'[r].device_pubkey = router[r].device_pubkey
     \/ r \in late'.keys
  /\ r \in late.keys => r \in late'.keys
  /\ \/ sim[r].pc # "stake"
     \/ router'[r].staked_amount + Cap(r) <= router[r].staked_amount + Cap(r)'

LEMMA CrewStands ==
  ASSUME KeysInv, SimInv', NEW r \in Routers, config' = config, Steady(r),
         NEW s, s = sim[r]
  PROVE  CrewInv(r, s)'
<1>1. s.pc = "stake" => /\ s.amount <= config'.min_stake
                        /\ router'[r].staked_amount + s.amount <= Cap(r)'
  <2> SUFFICES ASSUME s.pc = "stake"
               PROVE  /\ s.amount <= config'.min_stake
                      /\ router'[r].staked_amount + s.amount <= Cap(r)'
    OBVIOUS
  <2>1. /\ s.amount <= config.min_stake /\ router[r].staked_amount + s.amount <= Cap(r)
        /\ router'[r].staked_amount + Cap(r) <= router[r].staked_amount + Cap(r)'
    BY CrewParts DEF CrewInv, Steady
  <2>2. /\ s.amount \in Nat /\ router[r].staked_amount \in Nat /\ Cap(r) \in Nat
    BY CrewParts
  <2>3. Cap(r)' \in Nat /\ router'[r].staked_amount \in Nat
    <3>1. TypeOK' /\ (late \in LateType)'
      BY DEF SimInv, LoopsInv, PostInv
    <3>2. config'.min_stake \in Nat /\ late'.stakes[r] \in Nat /\ router'[r] \in RouterType
      BY <3>1 DEF TypeOK, ConfigType, LateType
    <3>3. config'.min_stake * (1 + late'.stakes[r]) \in Nat
      BY <3>2
    <3> QED
      BY <3>2, <3>3 DEF Cap, RouterType
  <2> QED
    BY <2>1, <2>2, <2>3
<1> QED
  BY <1>1, CrewParts DEF CrewInv, Steady

LEMMA CoveredStands ==
  ASSUME KeysInv, NEW r \in Routers, Quiet(r), Cap(r)' = Cap(r)
  PROVE  Covered(r)'
BY CrewParts DEF Covered, Quiet

\* No later step of an instance makes a call that is under way worse.
Undisturbed(call, r) ==
  /\ router[r].exists => router'[r].exists
  /\ call = "rotate" => ~router[r].exists \/ (sim[r].pc \in Early => sim'[r].pc \in Early)
  /\ call = "stake" =>
       /\ sim'[r].pc = "stake" => sim[r].pc = "stake"
       /\ sim[r].pc = "stake" \/
            router'[r].staked_amount + Cap(r) <= router[r].staked_amount + Cap(r)'

\* Router r is not concerned by the step.
Aside(r) ==
  /\ Quiet(r) /\ sim'[r] = sim[r]
  /\ late'.stakes[r] = late.stakes[r]
  /\ r \in late.keys => r \in late'.keys

LEMMA QuietHeadroom ==
  ASSUME KeysInv, NEW r \in Routers, Quiet(r), Cap(r)' = Cap(r)
  PROVE  router'[r].staked_amount + Cap(r) <= router[r].staked_amount + Cap(r)'
BY CrewParts DEF Quiet, Covered

LEMMA Bystander ==
  ASSUME KeysInv, SimInv', NEW r \in Routers, config' = config, Aside(r)
  PROVE  /\ Covered(r)' /\ CrewInv(r, sim[r])'
         /\ \A call : Undisturbed(call, r)
<1>1. Cap(r)' = Cap(r)
  BY CapStays DEF Aside
<1>2. router'[r].staked_amount + Cap(r) <= router[r].staked_amount + Cap(r)'
  BY <1>1, QuietHeadroom DEF Aside
<1>3. Steady(r)
  BY <1>2 DEF Steady, Aside, Quiet
<1>4. PICK s \in SimulatorType : s = sim[r]
  BY CrewParts
<1>5. CrewInv(r, s)'
  BY <1>3, <1>4, CrewStands
<1>6. CrewInv(r, sim[r])'
  BY <1>4, <1>5 DEF CrewInv, Aside
<1>7. \A call : Undisturbed(call, r)
  BY <1>2 DEF Undisturbed, Aside, Quiet
<1> QED
  BY <1>1, <1>6, <1>7, CoveredStands DEF Aside

----------------------------------------------------------------------------
(* What is under way, after a step. *)

\* Instance r gives up on the call it waits for.
Abandons(r) ==
  /\ sim[r].pc \in Calls /\ sim'[r].pc # "stake"
  /\ sim[r].pc = "rotate" => sim'[r].pc \in Early
  /\ router'[r] = router[r] /\ config' = config /\ Cap(r)' = Cap(r)

LEMMA RequestFields ==
  ASSUME NEW r
  PROVE  /\ Request(r).call = sim[r].pc /\ Request(r).router = r
         /\ Request(r).device = sim[r].device /\ Request(r).amount = sim[r].amount
         /\ ~Request(r).outrun
BY DEF Request

\* A call already under way, as it was, or outrun by a read; or one given up just now.
Follows(u) ==
  \/ u \in sent /\ (u.outrun \/ Undisturbed(u.call, u.router))
  \/ \E t \in sent : u = [t EXCEPT !.outrun = TRUE]
  \/ \E r \in Routers : u = Request(r) /\ Abandons(r)

LEMMA StillOut ==
  ASSUME KeysInv, SimInv', config' = config, NEW t \in sent, t.call # "mint",
         Undisturbed(t.call, t.router)
  PROVE  Outstanding(t)'
<1> DEFINE r == t.router
<1>1. Posted(t) /\ Outstanding(t) /\ r \in Routers /\ t.amount \in Nat
  BY KeysParts, PostedFields
<1>2. t.call = "stake" /\ ~t.outrun =>
        /\ sim'[r].pc # "stake"
        /\ router'[r].staked_amount + t.amount <= Cap(r)'
  <2> SUFFICES ASSUME t.call = "stake", ~t.outrun
               PROVE  /\ sim'[r].pc # "stake"
                      /\ router'[r].staked_amount + t.amount <= Cap(r)'
    OBVIOUS
  <2>1. /\ sim[r].pc # "stake" /\ router[r].staked_amount + t.amount <= Cap(r)
        /\ router'[r].staked_amount + Cap(r) <= router[r].staked_amount + Cap(r)'
        /\ sim'[r].pc # "stake"
    BY <1>1 DEF Outstanding, Undisturbed
  <2>2. router[r].staked_amount \in Nat /\ Cap(r) \in Nat
    BY <1>1, CrewParts
  <2>3. Cap(r)' \in Nat /\ router'[r].staked_amount \in Nat
    <3>1. TypeOK' /\ (late \in LateType)'
      BY DEF SimInv, LoopsInv, PostInv
    <3>2. config'.min_stake \in Nat /\ late'.stakes[r] \in Nat /\ router'[r] \in RouterType
      BY <1>1, <3>1 DEF TypeOK, ConfigType, LateType
    <3>3. config'.min_stake * (1 + late'.stakes[r]) \in Nat
      BY <3>2
    <3> QED
      BY <3>2, <3>3 DEF Cap, RouterType
  <2> HIDE DEF r
  <2> QED
    BY <1>1, <2>1, <2>2, <2>3
<1> QED
  BY <1>1, <1>2 DEF Outstanding, Undisturbed

LEMMA OutrunOut ==
  ASSUME KeysInv, config' = config, NEW t \in sent, t.call # "mint",
         router[t.router].exists => router'[t.router].exists,
         NEW u, u = [t EXCEPT !.outrun = TRUE] \/ (u = t /\ t.outrun)
  PROVE  Outstanding(u)'
<1>1. Posted(t) /\ Outstanding(t)
  BY KeysParts
<1>2. /\ u.call = t.call /\ u.outrun /\ u.amount = t.amount
      /\ u.router = t.router /\ u.device = t.device
  BY <1>1, OutrunFields
<1> QED
  BY <1>1, <1>2 DEF Outstanding

LEMMA AbandonedOut ==
  ASSUME KeysInv, NEW r \in Routers, Abandons(r), NEW u, u = Request(r)
  PROVE  Outstanding(u)'
<1>1. CrewInv(r, sim[r]) /\ sim[r].pc \notin {"off", "lookup"}
  BY CrewParts DEF Abandons, Calls, SettleSteps
<1>2. /\ u.call = sim[r].pc /\ u.router = r /\ u.device = sim[r].device
      /\ u.amount = sim[r].amount
  BY RequestFields
<1>3. u.device \in DeviceKeys
  BY <1>1, <1>2 DEF CrewInv
<1>4. u.call = "rotate" => router[r].exists /\ sim'[r].pc \in Early
  BY <1>1, <1>2 DEF CrewInv, Abandons
<1>5. u.call = "stake" => /\ u.amount <= config.min_stake
                          /\ router[r].staked_amount + u.amount <= Cap(r)
  BY <1>1, <1>2 DEF CrewInv
<1> QED
  BY <1>2, <1>3, <1>4, <1>5 DEF Outstanding, Abandons

\* Nothing under way has become worse.
SentStands ==
  /\ OneStake'
  /\ \A t \in sent' : t.call # "mint" => Outstanding(t)'

LEMMA SentGoes ==
  ASSUME KeysInv, SimInv', config' = config,
         \A r \in Routers : router[r].exists => router'[r].exists,
         \A u \in sent' : u.call # "mint" => Follows(u)
  PROVE  SentStands
<1>1. ASSUME NEW u \in sent', u.call # "mint" PROVE Outstanding(u)'
  <2>1. CASE u \in sent /\ ~u.outrun /\ Undisturbed(u.call, u.router)
    BY <1>1, <2>1, StillOut
  <2>2. CASE u \in sent /\ u.outrun
    <3>1. u.router \in Routers
      BY <1>1, <2>2, KeysParts, PostedFields
    <3> QED
      BY <1>1, <2>2, <3>1, OutrunOut
  <2>3. ASSUME NEW t \in sent, u = [t EXCEPT !.outrun = TRUE] PROVE Outstanding(u)'
    <3>1. Posted(t)
      BY KeysParts
    <3>2. t.call # "mint" /\ t.router \in Routers
      BY <1>1, <2>3, <3>1, OutrunFields, PostedFields
    <3> QED
      BY <2>3, <3>2, OutrunOut
  <2>4. ASSUME NEW r \in Routers, u = Request(r), Abandons(r) PROVE Outstanding(u)'
    BY <2>4, AbandonedOut
  <2> QED
    BY <1>1, <2>1, <2>2, <2>3, <2>4 DEF Follows
<1>2. ASSUME NEW t \in sent', NEW u \in sent', t.call = "stake", u.call = "stake",
             t.router = u.router, ~t.outrun, ~u.outrun
      PROVE  t = u
  <2>1. ASSUME NEW v \in sent', v.call = "stake", ~v.outrun
        PROVE  \/ v \in sent /\ sim[v.router].pc # "stake"
               \/ v = Request(v.router) /\ sim[v.router].pc = "stake"
    <3>1. CASE v \in sent
      BY <2>1, <3>1, KeysParts DEF Outstanding
    <3>2. ~(\E w \in sent : v = [w EXCEPT !.outrun = TRUE])
      <4> SUFFICES ASSUME NEW w \in sent, v = [w EXCEPT !.outrun = TRUE] PROVE FALSE
        OBVIOUS
      <4>1. Posted(w)
        BY KeysParts
      <4> QED
        BY <2>1, <4>1, OutrunFields
    <3>3. ASSUME NEW r \in Routers, v = Request(r)
          PROVE  v = Request(v.router) /\ sim[v.router].pc = "stake"
      BY <2>1, <3>3, RequestFields
    <3> QED
      BY <2>1, <3>1, <3>2, <3>3 DEF Follows
  <2>2. t \in sent /\ u \in sent => t = u
    BY <1>2, KeysParts DEF OneStake
  <2> QED
    BY <1>2, <2>1, <2>2
<1>3. OneStake'
  BY <1>2 DEF OneStake
<1>4. \A t \in sent' : t.call # "mint" => Outstanding(t)'
  BY <1>1
<1> QED
  BY <1>3, <1>4 DEF SentStands

LEMMA CrewGoes ==
  ASSUME SimInv', \A r \in Routers : (Covered(r) /\ CrewInv(r, sim[r]))',
         main'.pc # "run" => \A r \in Routers : ~sim'[r].started, SentStands
  PROVE  KeysInv'
BY DEF KeysInv, SentStands

----------------------------------------------------------------------------
(* One instance goes on. *)

\* Only the instance of r moves, to t, and only its router.
Acts(r, t) ==
  /\ sim' = [sim EXCEPT ![r] = t] /\ main'.pc = main.pc
  /\ OthersQuiet(r)
  /\ \A x \in Routers \ {r} : late'.stakes[x] = late.stakes[x]
                              /\ (x \in late.keys => x \in late'.keys)

LEMMA OneActs ==
  ASSUME KeysInv, SimInv', NEW r \in Routers, NEW t \in SimulatorType, Acts(r, t),
         CrewInv(r, t)', Covered(r)', t.started => sim[r].started \/ main.pc = "run",
         SentStands
  PROVE  KeysInv'
<1>1. sim'[r] = t /\ \A x \in Routers \ {r} : sim'[x] = sim[x]
  BY KeysParts DEF Acts
<1>2. ASSUME NEW x \in Routers PROVE Covered(x)' /\ CrewInv(x, sim[x])'
  <2>1. CASE x = r
    BY <1>1, <2>1 DEF CrewInv
  <2>2. CASE x # r
    <3>1. Aside(x) /\ config' = config
      BY <1>1, <2>2 DEF Acts, OthersQuiet, Aside
    <3> QED
      BY <3>1, Bystander
  <2> QED
    BY <2>1, <2>2
<1>3. main'.pc # "run" => \A x \in Routers : ~sim'[x].started
  BY <1>1, CrewParts DEF Acts
<1> QED
  BY <1>2, <1>3, CrewGoes

LEMMA SentAround ==
  ASSUME KeysInv, SimInv', NEW r \in Routers, NEW t \in SimulatorType, Acts(r, t),
         router[r].exists => router'[r].exists,
         \A u \in sent' : u.call # "mint" =>
           Follows(u) \/ (u \in sent /\ u.router # r)
  PROVE  SentStands
<1>1. \A x \in Routers \ {r} : sim'[x] = sim[x]
  BY KeysParts DEF Acts
<1>2. ASSUME NEW x \in Routers \ {r}, NEW call PROVE Undisturbed(call, x)
  <2>1. Aside(x) /\ config' = config
    BY <1>1 DEF Acts, OthersQuiet, Aside
  <2> QED
    BY <2>1, Bystander
<1>3. ASSUME NEW x \in Routers PROVE router[x].exists => router'[x].exists
  BY DEF Acts, OthersQuiet, Quiet
<1>4. ASSUME NEW u \in sent', u.call # "mint" PROVE Follows(u)
  <2>1. CASE u \in sent /\ u.router # r
    <3>1. u.router \in Routers \ {r}
      BY <1>4, <2>1, KeysParts, PostedFields
    <3> QED
      BY <1>2, <2>1, <3>1 DEF Follows
  <2> QED
    BY <1>4, <2>1
<1> QED
  BY <1>3, <1>4, SentGoes DEF Acts, OthersQuiet

\* The calls under way are neither more nor outrun.
LEMMA ActsAlone ==
  ASSUME KeysInv, SimInv', NEW r \in Routers, NEW t \in SimulatorType, Acts(r, t),
         CrewInv(r, t)', Covered(r)', t.started => sim[r].started \/ main.pc = "run",
         \A call : Undisturbed(call, r), sent' = sent
  PROVE  KeysInv'
<1>1. \A u \in sent' : u.call # "mint" => Follows(u) \/ (u \in sent /\ u.router # r)
  BY DEF Follows
<1>2. router[r].exists => router'[r].exists
  BY DEF Undisturbed
<1> QED
  BY <1>1, <1>2, SentAround, OneActs

----------------------------------------------------------------------------
\* The instance goes on in its loop, as the same device.
GoesOn(r) ==
  \E t \in SimulatorType :
    /\ sim' = [sim EXCEPT ![r] = t]
    /\ t.device = sim[r].device /\ t.started = sim[r].started /\ t.existing = sim[r].existing
    /\ t.pc \notin Unattached \cup {"stake"}

LEMMA GotoGoes ==
  ASSUME KeysInv, NEW r \in Routers, NEW p \in Places \ (Unattached \cup {"stake"}),
         sim' = Goto(r, p)
  PROVE  GoesOn(r)
<1> DEFINE t == [sim[r] EXCEPT !.pc = p]
<1>1. sim[r] \in SimulatorType /\ sim' = [sim EXCEPT ![r] = t]
  BY KeysParts, CrewParts DEF Goto
<1>2. /\ t \in SimulatorType /\ t.pc = p
      /\ t.device = sim[r].device /\ t.started = sim[r].started /\ t.existing = sim[r].existing
  BY <1>1 DEF SimulatorType
<1> HIDE DEF t
<1> QED
  BY <1>1, <1>2 DEF GoesOn

LEMMA SkipGoes ==
  ASSUME KeysInv, NEW r \in Routers, sim' = Skip(r)
  PROVE  GoesOn(r)
<1> DEFINE t == [sim[r] EXCEPT !.ep = NoRouterEpoch, !.pc = "loop"]
<1>1. sim[r] \in SimulatorType /\ sim' = [sim EXCEPT ![r] = t]
  BY KeysParts, CrewParts DEF Skip
<1>2. /\ t \in SimulatorType /\ t.pc = "loop"
      /\ t.device = sim[r].device /\ t.started = sim[r].started /\ t.existing = sim[r].existing
  BY <1>1, NoRouterEpochType DEF SimulatorType, Places
<1> HIDE DEF t
<1> QED
  BY <1>1, <1>2 DEF GoesOn, Unattached, Early

LEMMA OnwardPlaces ==
  {"measure", "ready", "loop", "settle", "done", "fetch"}
    \subseteq Places \ (Unattached \cup {"stake"})
BY DEF Places, SettleSteps, Unattached, Early

LEMMA BeatRefusedGoes ==
  ASSUME KeysInv, NEW r \in Routers, sim' = BeatRefused(r)
  PROVE  GoesOn(r)
<1> DEFINE stopped == [sim EXCEPT ![r].running = FALSE, ![r].pc = "loop"]
           t == [sim[r] EXCEPT !.running = FALSE, !.pc = "loop"]
<1>1. \/ sim' = Goto(r, "loop") \/ sim' = stopped \/ sim' = Goto(r, "measure")
  BY Zenon DEF BeatRefused
<1>2. CASE sim' = stopped
  <2>1. sim[r] \in SimulatorType /\ sim' = [sim EXCEPT ![r] = t]
    BY <1>2, KeysParts, CrewParts
  <2>2. /\ t \in SimulatorType /\ t.pc = "loop"
        /\ t.device = sim[r].device /\ t.started = sim[r].started /\ t.existing = sim[r].existing
    BY <2>1 DEF SimulatorType, Places
  <2> HIDE DEF t
  <2> QED
    BY <2>1, <2>2 DEF GoesOn, Unattached, Early
<1> HIDE DEF stopped
<1> QED
  BY <1>1, <1>2, GotoGoes, OnwardPlaces

LEMMA SettleGoes ==
  ASSUME KeysInv, NEW r \in Routers, NEW ep \in RouterEpochType, NEW from,
         Previous(r) \in Int, sim' = Settle(r, ep, from)
  PROVE  GoesOn(r)
<1> DEFINE p == Settling(r, ep, from)
           e == Previous(r)
<1>0. sim[r] \in SimulatorType /\ sim \in [Routers -> SimulatorType]
  BY KeysParts, CrewParts
<1>1. p \in {"finalize", "slash", "claim", "vest", "settled"}
  BY DEF Settling
<1>2. CASE p = "settled"
  <2> DEFINE t == [sim[r] EXCEPT !.last = e, !.ep = NoRouterEpoch, !.pc = "loop"]
  <2>1. sim' = [sim EXCEPT ![r] = t]
    BY <1>0, <1>2 DEF Settle
  <2> HIDE DEF e
  <2>2. e \in Int
    BY DEF e
  <2>3. /\ t \in SimulatorType /\ t.pc = "loop"
        /\ t.device = sim[r].device /\ t.started = sim[r].started /\ t.existing = sim[r].existing
    BY <1>0, <2>2, NoRouterEpochType DEF SimulatorType, Places
  <2> HIDE DEF t
  <2> QED
    BY <2>1, <2>3 DEF GoesOn, Unattached, Early
<1>3. CASE p # "settled"
  <2> DEFINE t == [sim[r] EXCEPT !.ep = ep, !.pc = p]
  <2>1. sim' = [sim EXCEPT ![r] = t]
    BY <1>0, <1>3 DEF Settle
  <2>2. p \in Places \ (Unattached \cup {"stake"})
    BY <1>1, <1>3 DEF Places, SettleSteps, Unattached, Early
  <2> HIDE DEF p
  <2>3. /\ t \in SimulatorType /\ t.pc = p
        /\ t.device = sim[r].device /\ t.started = sim[r].started /\ t.existing = sim[r].existing
    BY <1>0, <2>2 DEF SimulatorType
  <2> HIDE DEF t
  <2> QED
    BY <2>1, <2>2, <2>3 DEF GoesOn
<1> QED
  BY <1>2, <1>3

\* The key it goes on with is on chain, or a late rotation's is.
LEMMA CrewGoesOn ==
  ASSUME KeysInv, SimInv', NEW r \in Routers, GoesOn(r), OthersQuiet(r),
         main' = main, late' = late, Covered(r)', router'[r].exists,
         router'[r].device_pubkey = sim[r].device \/ r \in late'.keys,
         sim[r].device \in DeviceKeys, SentStands
  PROVE  KeysInv'
<1>1. PICK t \in SimulatorType :
        /\ sim' = [sim EXCEPT ![r] = t]
        /\ t.device = sim[r].device /\ t.started = sim[r].started
        /\ t.pc \notin Unattached \cup {"stake"}
  BY DEF GoesOn
<1>2. CrewInv(r, t)'
  BY <1>1 DEF CrewInv, Unattached, Early
<1>3. Acts(r, t)
  BY <1>1 DEF Acts
<1> QED
  BY <1>1, <1>2, <1>3, OneActs

LEMMA OnwardSent ==
  ASSUME KeysInv, SimInv', NEW r \in Routers, GoesOn(r), OthersQuiet(r),
         main' = main, late' = late, router'[r].exists,
         sim[r].pc \notin Early \/ ~router[r].exists,
         \/ sim[r].pc = "stake"
         \/ router'[r].staked_amount + Cap(r) <= router[r].staked_amount + Cap(r)',
         \A u \in sent' : u.call # "mint" => u \in sent \/ (u = Request(r) /\ Abandons(r))
  PROVE  SentStands
<1>1. PICK t \in SimulatorType :
        /\ sim' = [sim EXCEPT ![r] = t]
        /\ t.pc \notin Unattached \cup {"stake"}
  BY DEF GoesOn
<1>2. Acts(r, t) /\ sim'[r] = t
  BY <1>1, KeysParts DEF Acts
<1>3. \A call : Undisturbed(call, r)
  BY <1>1, <1>2 DEF Undisturbed
<1>4. \A u \in sent' : u.call # "mint" => Follows(u) \/ (u \in sent /\ u.router # r)
  BY <1>3 DEF Follows
<1> QED
  BY <1>2, <1>4, SentAround

\* A step that leaves the chain as it is.
LEMMA ChainRests ==
  ASSUME KeysInv, NEW r \in Routers, UNCHANGED vars, late' = late
  PROVE  /\ config' = config /\ router' = router /\ stake' = stake
         /\ AllQuiet /\ OthersQuiet(r) /\ Covered(r)' /\ Cap(r)' = Cap(r)
         /\ router'[r].staked_amount + Cap(r) <= router[r].staked_amount + Cap(r)'
<1>1. config' = config /\ router' = router /\ stake' = stake
  BY DEF vars, accounts
<1>2. AllQuiet /\ OthersQuiet(r) /\ Quiet(r)
  BY <1>1, NothingMoves DEF AllQuiet, OthersQuiet
<1>3. Cap(r)' = Cap(r)
  BY <1>1, CapStays
<1> QED
  BY <1>1, <1>2, <1>3, CoveredStands, QuietHeadroom

\* An attached instance goes on without a transaction.
LEMMA RestsGoesOn ==
  ASSUME KeysInv, SimInv', NEW r \in Routers, sim[r].pc \notin Unattached, GoesOn(r),
         UNCHANGED vars, main' = main, late' = late,
         \A u \in sent' : u.call # "mint" => u \in sent \/ (u = Request(r) /\ sim[r].pc \in Calls)
  PROVE  KeysInv'
<1>1. CrewInv(r, sim[r])
  BY CrewParts
<1>2. /\ router[r].exists /\ sim[r].device \in DeviceKeys
      /\ router[r].device_pubkey = sim[r].device \/ r \in late.keys
      /\ sim[r].pc \notin Early /\ sim[r].pc # "rotate"
  BY <1>1 DEF CrewInv, Unattached, Early
<1>3. sim'[r].pc # "stake"
  BY KeysParts DEF GoesOn
<1>4. sim[r].pc \in Calls => Abandons(r)
  BY <1>2, <1>3, ChainRests DEF Abandons
<1>5. SentStands
  BY <1>2, <1>4, ChainRests, OnwardSent
<1> QED
  BY <1>2, <1>5, ChainRests, CrewGoesOn

----------------------------------------------------------------------------
(* The process ends: every instance is gone. *)

LEMMA CrewLeaves ==
  ASSUME KeysInv, SimInv', UNCHANGED vars, late' = late, Exit,
         \A u \in sent' : u.call # "mint" =>
           u \in sent \/ \E r \in Routers : u = Request(r) /\ sim[r].pc \in Calls
  PROVE  KeysInv'
<1>1. Fresh.pc = "off" /\ ~Fresh.started /\ ~Fresh.existing
  BY DEF Fresh
<1>2. \A r \in Routers : sim'[r] = Fresh
  BY DEF Exit
<1>3. ASSUME NEW r \in Routers
      PROVE  /\ Covered(r)' /\ CrewInv(r, sim[r])' /\ ~sim'[r].started
             /\ \A call : Undisturbed(call, r)
             /\ sim[r].pc \in Calls => Abandons(r)
  <2>1. sim'[r].pc = "off" /\ ~sim'[r].started /\ ~sim'[r].existing
    BY <1>1, <1>2
  <2>2. CrewInv(r, sim[r])'
    BY <2>1 DEF CrewInv, Unattached, Early
  <2>3. \A call : Undisturbed(call, r)
    BY <2>1, ChainRests DEF Undisturbed, Early
  <2>4. sim[r].pc \in Calls => Abandons(r)
    BY <2>1, ChainRests DEF Abandons, Early
  <2> QED
    BY <2>1, <2>2, <2>3, <2>4, ChainRests
<1>4. config' = config /\ router' = router
  BY DEF vars, accounts
<1>5. ASSUME NEW u \in sent', u.call # "mint" PROVE Follows(u)
  <2>1. CASE u \in sent
    <3>1. u.router \in Routers
      BY <1>5, <2>1, KeysParts, PostedFields
    <3> QED
      BY <1>3, <2>1, <3>1 DEF Follows
  <2> QED
    BY <1>3, <1>5, <2>1 DEF Follows
<1>6. SentStands
  BY <1>4, <1>5, SentGoes
<1> QED
  BY <1>3, <1>6, CrewGoes

LEMMA CrewThrows ==
  ASSUME KeysInv, SimInv', NEW r \in Routers, UNCHANGED vars, late' = late, Throws(r),
         \A u \in sent' : u.call # "mint" => u \in sent \/ (u = Request(r) /\ sim[r].pc \in Calls)
  PROVE  KeysInv'
<1>1. CASE sim[r].started
  <2>1. sim[r].pc \notin Unattached
    BY <1>1, CrewParts DEF CrewInv
  <2>2. main' = main /\ (sim' = Skip(r) \/ sim' = Goto(r, "loop"))
    BY <1>1 DEF Throws
  <2>3. GoesOn(r)
    BY <2>2, SkipGoes, GotoGoes, OnwardPlaces
  <2> QED
    BY <2>1, <2>2, <2>3, RestsGoesOn
<1>2. CASE ~sim[r].started
  BY <1>2, CrewLeaves DEF Throws
<1> QED
  BY <1>1, <1>2

LEMMA GivenUpCrew ==
  ASSUME KeysInv, SimInv', NEW r \in Routers, GivenUp(r)
  PROVE  KeysInv'
BY CrewThrows DEF GivenUp

LEMMA RefusedCrew ==
  ASSUME KeysInv, SimInv', NEW r \in Routers, Refused(r)
  PROVE  KeysInv'
<1>1. UNCHANGED vars /\ late' = late /\ sent' = sent
  BY DEF Refused
<1>2. CASE At(r, "beat") /\ sim' = BeatRefused(r) /\ main' = main
  <2>1. sim[r].pc \notin Unattached
    BY <1>2 DEF At, Unattached, Early
  <2> QED
    BY <1>1, <1>2, <2>1, BeatRefusedGoes, RestsGoesOn
<1>3. CASE NothingVested(r) /\ sim' = Settle(r, sim[r].ep, "vest") /\ main' = main
  <2>1. sim[r].pc \notin Unattached /\ Previous(r) \in Int /\ sim[r].ep \in RouterEpochType
    BY <1>3, CrewParts DEF NothingVested, At, Previous, SimulatorType, Unattached, Early
  <2>2. GoesOn(r)
    BY <1>3, <2>1, SettleGoes
  <2> QED
    BY <1>1, <1>3, <2>1, <2>2, RestsGoesOn
<1>4. CASE Throws(r)
  BY <1>1, <1>4, CrewThrows
<1> QED
  BY <1>2, <1>3, <1>4 DEF Refused

LEMMA QuitCrew ==
  ASSUME KeysInv, SimInv', Quit \/ DrawRefused
  PROVE  KeysInv'
<1>1. UNCHANGED vars /\ late' = late /\ Exit
  BY DEF Quit, DrawRefused
<1>2. ASSUME NEW u \in sent', u.call # "mint"
      PROVE  u \in sent \/ \E r \in Routers : u = Request(r) /\ sim[r].pc \in Calls
  <2>1. Draw.call = "mint"
    BY DEF Draw
  <2>2. sent' = sent \/ sent' = sent \cup Unanswered
    BY DEF Quit, DrawRefused
  <2> QED
    BY <1>2, <2>1, <2>2 DEF Unanswered
<1> QED
  BY <1>1, <1>2, CrewLeaves

----------------------------------------------------------------------------
(* The calls that were answered. *)

\* An instance that has not attached its device yet goes on preparing to.
LEMMA Prepares ==
  ASSUME KeysInv, SimInv', NEW r \in Routers, UNCHANGED vars, late' = late, sent' = sent,
         main'.pc = main.pc, NEW t \in SimulatorType, sim' = [sim EXCEPT ![r] = t],
         t.pc \in Early, ~t.started, t.existing => router[r].exists,
         t.pc = "compare" => t.existing, t.pc \notin {"off", "lookup"} => t.device \in DeviceKeys
  PROVE  KeysInv'
<1>1. Acts(r, t) /\ sim'[r] = t
  BY ChainRests, KeysParts DEF Acts
<1>2. CrewInv(r, t)'
  BY ChainRests DEF CrewInv, Unattached, Early
<1>3. \A call : Undisturbed(call, r)
  BY <1>1, ChainRests DEF Undisturbed, Early
<1> QED
  BY <1>1, <1>2, <1>3, ChainRests, ActsAlone

LEMMA FundedGoes ==
  ASSUME KeysInv, SimInv', NEW r \in Routers, UNCHANGED vars, late' = late, sent' = sent,
         main' = main, sim[r].pc \in {"balance", "fund"}, sim' = Goto(r, Funded(r))
  PROVE  KeysInv'
<1> DEFINE p == Funded(r)
           s == [sim[r] EXCEPT !.pc = p]
<1>1. /\ sim[r] \in SimulatorType /\ sim \in [Routers -> SimulatorType] /\ CrewInv(r, sim[r])
  BY KeysParts, CrewParts
<1>2. sim' = [sim EXCEPT ![r] = s]
  BY <1>1 DEF Goto
<1>3. p \in {"compare", "register"} /\ (p = "compare" => sim[r].existing)
  BY DEF Funded
<1> HIDE DEF p
<1>4. /\ s \in SimulatorType /\ s.pc = p /\ s.started = sim[r].started
      /\ s.device = sim[r].device /\ s.existing = sim[r].existing
  BY <1>1, <1>3 DEF SimulatorType, Places
<1> HIDE DEF s
<1>5. /\ s.pc \in Early /\ ~s.started /\ (s.existing => router[r].exists)
      /\ s.pc = "compare" => s.existing
      /\ s.device \in DeviceKeys
  BY <1>1, <1>3, <1>4 DEF CrewInv, Unattached, Early
<1>6. PICK t \in SimulatorType : t = s
  BY <1>4
<1> QED
  BY <1>2, <1>5, <1>6, Prepares

\* What its transaction does to the router of an instance.
LEMMA SendsEffect ==
  ASSUME KeysInv, NEW r \in Routers, Sends(r)
  PROVE  \/ At(r, "register") /\ OthersQuiet(r) /\ Registers(r, sim[r].device)
         \/ At(r, "rotate") /\ OthersQuiet(r) /\ Rekeys(r, sim[r].device)
         \/ At(r, "stake") /\ OthersQuiet(r) /\ Adds(r, sim[r].amount)
         \/ sim[r].pc \notin {"register", "rotate", "stake"} /\ AllQuiet
<1> DEFINE t == Request(r)
<1>1. Posted(t) /\ Executes(t) /\ TypeOK
  BY KeysParts, RequestPosted DEF Sends
<1>2. /\ t.call = sim[r].pc /\ t.router = r /\ t.device = sim[r].device
      /\ t.amount = sim[r].amount
  BY RequestFields
<1> HIDE DEF t
<1> QED
  BY <1>1, <1>2, ExecutesEffect DEF At

LEMMA AcceptedGoes ==
  ASSUME KeysInv, NEW r \in Routers, Sends(r), sim' = Returned(r), ~At(r, "fund")
  PROVE  GoesOn(r)
<1>1. CASE sim[r].pc \in {"register", "rotate", "stake", "beat", "finalize"}
  <2>1. \/ sim' = Goto(r, "measure") \/ sim' = Goto(r, Resting(r))
        \/ sim' = Goto(r, "settle") \/ sim' = Goto(r, "fetch")
    BY <1>1, Zenon DEF Returned, At
  <2>2. PICK p \in {"measure", "loop", "ready", "settle", "fetch"} : sim' = Goto(r, p)
    BY <2>1 DEF Resting
  <2> QED
    BY <2>2, GotoGoes, OnwardPlaces
<1>2. CASE sim[r].pc \in {"slash", "claim", "vest"}
  <2>1. Previous(r) \in Int /\ sim[r].ep \in RouterEpochType
    BY CrewParts DEF Previous, SimulatorType
  <2>2. sim' = Settle(r, sim[r].ep, sim[r].pc)
    BY <1>2, Zenon DEF Returned, At
  <2> QED
    BY <2>1, <2>2, SettleGoes
<1> QED
  BY <1>1, <1>2, Sending DEF Calls, SettleSteps, At

LEMMA AcceptedCrew ==
  ASSUME KeysInv, SimInv', NEW r \in Routers, Accepted(r)
  PROVE  KeysInv'
<1>0. /\ Sends(r) /\ sim' = Returned(r) /\ main' = main /\ sent' = sent /\ late' = late
      /\ sim[r].pc \in Calls
  BY Sending DEF Accepted
<1>1. CASE At(r, "fund")
  <2>1. sim' = Goto(r, Funded(r)) /\ UNCHANGED vars
    BY <1>0, <1>1, Sending, Zenon DEF Returned, At
  <2> QED
    BY <1>0, <1>1, <2>1, FundedGoes DEF At
<1>2. CASE ~At(r, "fund")
  <2>1. GoesOn(r)
    BY <1>0, <1>2, AcceptedGoes
  <2>2. /\ CrewInv(r, sim[r]) /\ Covered(r) /\ sim[r].device \in DeviceKeys
        /\ router[r].staked_amount \in Nat /\ Cap(r) \in Nat
    BY <1>0, CrewParts DEF CrewInv, Calls, SettleSteps
  <2>3. ASSUME OthersQuiet(r) PROVE Cap(r)' = Cap(r)
    BY <1>0, <2>3, CapStays DEF OthersQuiet
  <2>4. CASE At(r, "register") /\ OthersQuiet(r) /\ Registers(r, sim[r].device)
    <3>1. Covered(r)' /\ router'[r].staked_amount + Cap(r) <= router[r].staked_amount + Cap(r)'
      BY <2>2, <2>3, <2>4 DEF Covered, Registers
    <3>2. SentStands
      BY <1>0, <2>1, <2>4, <3>1, OnwardSent DEF Registers
    <3> QED
      BY <1>0, <2>1, <2>2, <2>4, <3>1, <3>2, CrewGoesOn DEF Registers
  <2>5. CASE At(r, "rotate") /\ OthersQuiet(r) /\ Rekeys(r, sim[r].device)
    <3>1. Covered(r)' /\ router'[r].staked_amount + Cap(r) <= router[r].staked_amount + Cap(r)'
      BY <2>2, <2>3, <2>5 DEF Covered, Rekeys
    <3>2. SentStands
      BY <1>0, <2>1, <2>5, <3>1, OnwardSent DEF Rekeys, At, Early
    <3> QED
      BY <1>0, <2>1, <2>2, <2>5, <3>1, <3>2, CrewGoesOn DEF Rekeys
  <2>6. CASE At(r, "stake") /\ OthersQuiet(r) /\ Adds(r, sim[r].amount)
    <3>1. Covered(r)'
      BY <2>2, <2>3, <2>6 DEF Covered, Adds, CrewInv, At
    <3>2. SentStands
      BY <1>0, <2>1, <2>6, OnwardSent DEF Adds, At, Early
    <3> QED
      BY <1>0, <2>1, <2>2, <2>6, <3>1, <3>2, CrewGoesOn DEF Adds, CrewInv, At, Unattached, Early
  <2>7. CASE sim[r].pc \notin {"register", "rotate", "stake"} /\ AllQuiet
    <3>1. OthersQuiet(r) /\ Quiet(r) /\ sim[r].pc \notin Unattached
      BY <1>0, <1>2, <2>7 DEF AllQuiet, OthersQuiet, Calls, SettleSteps, At, Unattached, Early
    <3>2. Covered(r)' /\ router'[r].staked_amount + Cap(r) <= router[r].staked_amount + Cap(r)'
      BY <2>3, <3>1, CoveredStands, QuietHeadroom
    <3>3. /\ router'[r].exists /\ sim[r].pc \notin Early
          /\ router'[r].device_pubkey = sim[r].device \/ r \in late'.keys
      BY <1>0, <2>2, <3>1 DEF CrewInv, Quiet, Unattached
    <3>4. SentStands
      BY <1>0, <2>1, <3>1, <3>2, <3>3, OnwardSent
    <3> QED
      BY <1>0, <2>1, <2>2, <3>1, <3>2, <3>3, <3>4, CrewGoesOn
  <2> QED
    BY <1>0, <2>4, <2>5, <2>6, <2>7, SendsEffect
<1> QED
  BY <1>1, <1>2

----------------------------------------------------------------------------
(* What an instance does between two calls. *)

LEMMA LookupCrew ==
  ASSUME KeysInv, SimInv', NEW r \in Routers, Lookup(r)
  PROVE  KeysInv'
<1>1. UNCHANGED vars /\ main' = main /\ late' = late /\ sent' = sent /\ At(r, "lookup")
  BY DEF Lookup
<1>2. PICK k \in DeviceKeys :
        sim' = [sim EXCEPT ![r].device = k, ![r].existing = router[r].exists,
                           ![r].pc = "balance"]
  BY DerivedKey DEF Lookup
<1> DEFINE there == router[r].exists
           s == [sim[r] EXCEPT !.device = k, !.existing = there, !.pc = "balance"]
<1>3. /\ sim[r] \in SimulatorType /\ sim \in [Routers -> SimulatorType]
      /\ CrewInv(r, sim[r]) /\ there \in BOOLEAN
  BY KeysParts, CrewParts, TypeParts DEF RouterType
<1>4. sim' = [sim EXCEPT ![r] = s] /\ ~sim[r].started
  BY <1>1, <1>2, <1>3 DEF CrewInv, At, Unattached, Early
<1> HIDE DEF there
<1>5. /\ s \in SimulatorType /\ s.pc = "balance" /\ s.started = sim[r].started
      /\ s.device = k /\ s.existing = there
  BY <1>3 DEF SimulatorType, Places
<1> HIDE DEF s
<1>6. PICK t \in SimulatorType : t = s
  BY <1>5
<1> QED
  BY <1>1, <1>4, <1>5, <1>6, Prepares DEF there, Early

LEMMA ReadBalanceCrew ==
  ASSUME KeysInv, SimInv', NEW r \in Routers, ReadBalance(r)
  PROVE  KeysInv'
<1>1. UNCHANGED vars /\ main' = main /\ late' = late /\ sent' = sent /\ At(r, "balance")
  BY DEF ReadBalance
<1>2. CASE sim' = Goto(r, Funded(r))
  BY <1>1, <1>2, FundedGoes DEF At
<1>3. CASE sim' # Goto(r, Funded(r))
  <2> DEFINE n == Funds - lamports[sim[r].device]
             s == [sim[r] EXCEPT !.amount = n, !.pc = "fund"]
  <2>1. /\ sim[r] \in SimulatorType /\ sim \in [Routers -> SimulatorType]
        /\ CrewInv(r, sim[r])
    BY KeysParts, CrewParts
  <2>2. sim' = [sim EXCEPT ![r] = s]
    BY <1>3, <2>1 DEF ReadBalance
  <2> HIDE DEF n
  <2>3. /\ s.pc = "fund" /\ s.started = sim[r].started
        /\ s.device = sim[r].device /\ s.existing = sim[r].existing
    BY <2>1 DEF SimulatorType
  <2> HIDE DEF s
  <2>4. s \in SimulatorType
    <3>1. sim' \in [Routers -> SimulatorType] /\ sim'[r] = s
      BY <2>1, <2>2 DEF SimInv, LoopsInv
    <3> QED
      BY <3>1
  <2>5. /\ ~s.started /\ s.device \in DeviceKeys /\ (s.existing => router[r].exists)
    BY <1>1, <2>1, <2>3 DEF CrewInv, At, Unattached, Early
  <2>6. PICK t \in SimulatorType : t = s
    BY <2>4
  <2> QED
    BY <1>1, <2>2, <2>3, <2>5, <2>6, Prepares DEF Early
<1> QED
  BY <1>2, <1>3

\* Comparing the keys outruns the rotations on their way: those not executed yet may
\* change the key afterwards.
LEMMA CompareCrew ==
  ASSUME KeysInv, SimInv', NEW r \in Routers, Compare(r)
  PROVE  KeysInv'
<1> DEFINE p == IF Rotates(r) THEN "rotate" ELSE "measure"
           s == [sim[r] EXCEPT !.pc = p]
<1>1. /\ UNCHANGED vars /\ main' = main /\ sim[r].pc = "compare" /\ sim' = Goto(r, p)
      /\ late' = [late EXCEPT !.keys = @ \ {r}] /\ sent' = Outrun(Pending("rotate", r))
  BY DEF Compare, At
<1>2. /\ sim[r] \in SimulatorType /\ sim \in [Routers -> SimulatorType]
      /\ CrewInv(r, sim[r]) /\ late \in LateType
  BY KeysParts, CrewParts
<1>3. /\ late'.stakes = late.stakes
      /\ \A x \in Routers \ {r} : x \in late.keys => x \in late'.keys
  BY <1>1, <1>2 DEF LateType
<1>4. config' = config /\ router' = router /\ stake' = stake
  BY <1>1 DEF vars, accounts
<1>5. OthersQuiet(r) /\ Quiet(r) /\ Cap(r)' = Cap(r)
  BY <1>3, <1>4, CapStays DEF OthersQuiet, Quiet
<1>6. sim' = [sim EXCEPT ![r] = s]
  BY <1>1, <1>2 DEF Goto
<1>7. /\ p \in {"rotate", "measure"}
      /\ p = "measure" => router[r].device_pubkey = sim[r].device
  BY DEF Rotates
<1> HIDE DEF p
<1>8. /\ s \in SimulatorType /\ s.pc = p /\ s.started = sim[r].started
      /\ s.device = sim[r].device /\ s.existing = sim[r].existing
  BY <1>2, <1>7 DEF SimulatorType, Places
<1> HIDE DEF s
<1>9. PICK t \in SimulatorType : t = s
  BY <1>8
<1>10. Acts(r, t) /\ sim'[r] = t
  BY <1>1, <1>2, <1>3, <1>5, <1>6, <1>9 DEF Acts
<1>11. CrewInv(r, t)' /\ ~t.started
  BY <1>1, <1>2, <1>4, <1>7, <1>8, <1>9 DEF CrewInv, Unattached, Early
<1>12. \A call : call # "rotate" => Undisturbed(call, r)
  BY <1>4, <1>5, <1>7, <1>8, <1>9, <1>10, QuietHeadroom DEF Undisturbed
<1>13. ASSUME NEW u \in sent', u.call # "mint"
       PROVE  Follows(u) \/ (u \in sent /\ u.router # r)
  <2>1. CASE u \in sent
    BY <1>1, <1>12, <2>1 DEF Follows, Outrun, Pending
  <2>2. CASE \E w \in sent : u = [w EXCEPT !.outrun = TRUE]
    BY <2>2 DEF Follows
  <2> QED
    BY <1>1, <2>1, <2>2 DEF Outrun, Pending
<1>14. SentStands
  BY <1>4, <1>10, <1>13, SentAround
<1> QED
  BY <1>5, <1>10, <1>11, <1>14, CoveredStands, OneActs

\* Reading the stake outruns those on their way.
LEMMA EnsureStakedCrew ==
  ASSUME KeysInv, SimInv', NEW r \in Routers, EnsureStaked(r)
  PROVE  KeysInv'
<1> DEFINE short == Shortfall(r)
           p == IF short = 0 THEN Resting(r) ELSE "stake"
           s == [sim[r] EXCEPT !.amount = short, !.pc = p]
           staked == router[r].staked_amount
           least == config.min_stake
<1>1. /\ UNCHANGED vars /\ main' = main /\ late' = late /\ sim[r].pc = "measure"
      /\ sent' = Outrun(Pending("stake", r))
  BY DEF EnsureStaked, At
<1>2. /\ sim[r] \in SimulatorType /\ sim \in [Routers -> SimulatorType]
      /\ CrewInv(r, sim[r]) /\ staked \in Nat /\ least \in Nat
      /\ least <= Cap(r) /\ Cap(r) \in Nat
  BY KeysParts, CrewParts
<1>3. sim' = [sim EXCEPT ![r] = s]
  BY <1>2 DEF EnsureStaked
<1>4. short = SaturatingSub(least, staked)
  BY DEF Shortfall
<1>5. p \in {"loop", "ready", "stake"} /\ (p = "stake" => short # 0)
  BY DEF Resting
<1> HIDE DEF short, p, staked, least
<1>6. short \in Nat /\ (short # 0 => short <= least /\ staked + short <= Cap(r))
  BY <1>2, <1>4 DEF SaturatingSub
<1>7. /\ s \in SimulatorType /\ s.pc = p /\ s.amount = short
      /\ s.device = sim[r].device /\ s.started = sim[r].started
      /\ s.existing = sim[r].existing
  BY <1>2, <1>5, <1>6 DEF SimulatorType, Places
<1> HIDE DEF s
<1>8. PICK t \in SimulatorType : t = s
  BY <1>7
<1>9. Acts(r, t) /\ sim'[r] = t
  BY <1>1, <1>2, <1>3, <1>8, ChainRests DEF Acts
<1>10. CrewInv(r, t)'
  BY <1>1, <1>2, <1>5, <1>6, <1>7, <1>8, ChainRests
     DEF CrewInv, Unattached, Early, staked, least
<1>11. \A call : call # "stake" => Undisturbed(call, r)
  BY <1>1, ChainRests DEF Undisturbed, Early
<1>12. ASSUME NEW u \in sent', u.call # "mint"
       PROVE  Follows(u) \/ (u \in sent /\ u.router # r)
  <2>1. CASE u \in sent
    BY <1>1, <1>11, <2>1 DEF Follows, Outrun, Pending
  <2>2. CASE \E w \in sent : u = [w EXCEPT !.outrun = TRUE]
    BY <2>2 DEF Follows
  <2> QED
    BY <1>1, <2>1, <2>2 DEF Outrun, Pending
<1>13. SentStands
  BY <1>1, <1>9, <1>12, ChainRests, SentAround
<1> QED
  BY <1>1, <1>7, <1>8, <1>9, <1>10, <1>13, ChainRests, OneActs

LEMMA StartCrew ==
  ASSUME KeysInv, SimInv', NEW r \in Routers, Start(r)
  PROVE  KeysInv'
<1>1. /\ UNCHANGED vars /\ main' = main /\ late' = late /\ sent' = sent
      /\ main.pc = "run" /\ sim[r].pc = "ready"
  BY DEF Start, At
<1>2. /\ sim[r] \in SimulatorType /\ sim \in [Routers -> SimulatorType] /\ CrewInv(r, sim[r])
  BY KeysParts, CrewParts
<1> DEFINE s == [sim[r] EXCEPT !.running = TRUE, !.started = TRUE, !.pc = "loop"]
<1>3. sim' = [sim EXCEPT ![r] = s]
  BY <1>2 DEF Start
<1>4. s \in SimulatorType /\ s.device = sim[r].device /\ s.pc = "loop"
      /\ s.existing = sim[r].existing
  BY <1>2 DEF SimulatorType, Places
<1> HIDE DEF s
<1>5. PICK t \in SimulatorType : t = s
  BY <1>4
<1>6. Acts(r, t) /\ sim'[r] = t
  BY <1>1, <1>2, <1>3, <1>5, ChainRests DEF Acts
<1>7. CrewInv(r, t)'
  BY <1>1, <1>2, <1>4, <1>5, ChainRests DEF CrewInv, Unattached, Early
<1>8. \A call : Undisturbed(call, r)
  BY <1>1, <1>4, <1>5, <1>6, ChainRests DEF Undisturbed, Early
<1> QED
  BY <1>1, <1>6, <1>7, <1>8, ChainRests, ActsAlone

LEMMA WithinLoopCrew ==
  ASSUME KeysInv, SimInv', NEW r \in Routers,
         ReadClock(r) \/ FinishLoop(r) \/ LookBack(r) \/ FetchEpoch(r)
  PROVE  KeysInv'
<1>1. /\ UNCHANGED vars /\ main' = main /\ late' = late /\ sent' = sent
      /\ sim[r].pc \in {"loop", "settle", "fetch"}
  BY DEF ReadClock, FinishLoop, LookBack, FetchEpoch, At
<1>2. /\ TypeOK /\ LoopInv(r, sim[r]) /\ sim[r].pc \notin Unattached
      /\ sim[r] \in SimulatorType /\ sim \in [Routers -> SimulatorType]
  BY <1>1, KeysParts, CrewParts DEF Unattached, Early
<1>3. CASE ReadClock(r)
  <2>1. PICK e \in Epochs : sim' = [sim EXCEPT ![r].epoch = e, ![r].pc = "beat"]
    BY <1>3 DEF ReadClock
  <2> DEFINE t == [sim[r] EXCEPT !.epoch = e, !.pc = "beat"]
  <2>2. sim' = [sim EXCEPT ![r] = t] /\ e \in Nat
    BY <1>2, <2>1, RouterPulseAssumption
  <2>3. /\ t \in SimulatorType /\ t.pc = "beat" /\ t.device = sim[r].device
        /\ t.started = sim[r].started /\ t.existing = sim[r].existing
    BY <1>2, <2>2 DEF SimulatorType, Places
  <2> HIDE DEF t
  <2>4. GoesOn(r)
    BY <2>2, <2>3 DEF GoesOn, Unattached, Early
  <2> QED
    BY <1>1, <1>2, <2>4, RestsGoesOn
<1>4. CASE FinishLoop(r) \/ LookBack(r)
  <2>1. \/ sim' = Goto(r, "done") \/ sim' = Goto(r, "fetch") \/ sim' = Goto(r, "loop")
    BY <1>4 DEF FinishLoop, LookBack
  <2>2. GoesOn(r)
    BY <2>1, GotoGoes, OnwardPlaces
  <2> QED
    BY <1>1, <1>2, <2>2, RestsGoesOn
<1>5. CASE FetchEpoch(r)
  <2> DEFINE e == Previous(r)
             ep == repoch[r][e]
  <2>1. e \in Epochs /\ sim' = Settle(r, ep, "fetch")
    BY <1>2, <1>5 DEF FetchEpoch, At, LoopInv, SettleSteps, Previous
  <2>2. ep \in RouterEpochType /\ e \in Int
    <3>1. repoch \in [Routers -> [Epochs -> RouterEpochType]] /\ Epochs \subseteq Nat
      BY <1>2, TypeParts, RouterPulseAssumption
    <3> HIDE DEF e
    <3> QED
      BY <2>1, <3>1
  <2>3. PICK x \in RouterEpochType : x = ep
    BY <2>2
  <2> HIDE DEF ep
  <2>4. GoesOn(r)
    BY <2>1, <2>2, <2>3, SettleGoes
  <2> QED
    BY <1>1, <1>2, <2>4, RestsGoesOn
<1> QED
  BY <1>3, <1>4, <1>5

----------------------------------------------------------------------------
(* The process, the network and everyone else. *)

LEMMA RegisterNextCrew ==
  ASSUME KeysInv, SimInv', RegisterNext
  PROVE  KeysInv'
<1> DEFINE next == RegisterOrder[main.turn + 1]
<1>1. /\ UNCHANGED vars /\ late' = late /\ sent' = sent /\ sim' = Goto(next, "lookup")
      /\ main.pc = "register" /\ main' = [main EXCEPT !.turn = @ + 1]
      /\ main.turn < Len(RegisterOrder)
  BY DEF RegisterNext
<1>2. main \in MainType /\ main'.pc = main.pc
  BY <1>1, KeysParts DEF MainType
<1>3. next \in Routers
  <2>1. main.turn + 1 \in 1 .. Len(RegisterOrder)
    BY <1>1, <1>2 DEF MainType
  <2> QED
    BY <2>1, SimulatorAssumption
<1> HIDE DEF next
<1>4. PICK r \in Routers : r = next
  BY <1>3
<1>5. /\ sim[r] \in SimulatorType /\ sim \in [Routers -> SimulatorType]
      /\ CrewInv(r, sim[r]) /\ ~sim[r].started
  BY <1>1, KeysParts, CrewParts
<1> DEFINE s == [sim[r] EXCEPT !.pc = "lookup"]
<1>6. sim' = [sim EXCEPT ![r] = s]
  BY <1>1, <1>4 DEF Goto
<1>7. /\ s \in SimulatorType /\ s.pc = "lookup" /\ ~s.started
      /\ s.existing = sim[r].existing
  BY <1>5 DEF SimulatorType, Places
<1> HIDE DEF s
<1>8. PICK t \in SimulatorType : t = s
  BY <1>7
<1> QED
  BY <1>1, <1>2, <1>5, <1>6, <1>7, <1>8, Prepares DEF CrewInv, Early

\* No instance moves.
LEMMA SameCrew ==
  ASSUME KeysInv, SimInv', AllQuiet, sim' = sim, late' = late,
         main'.pc # "run" => main.pc # "run" \/ \A r \in Routers : ~sim[r].started,
         \A u \in sent' : u.call # "mint" => u \in sent
  PROVE  KeysInv'
<1>1. config' = config /\ \A r \in Routers : Aside(r)
  BY DEF AllQuiet, Aside
<1>2. ASSUME NEW u \in sent', u.call # "mint" PROVE Follows(u)
  <2>1. u \in sent /\ u.router \in Routers
    BY <1>2, KeysParts, PostedFields
  <2> QED
    BY <1>1, <2>1, Bystander DEF Follows
<1>3. SentStands
  BY <1>1, <1>2, SentGoes DEF Aside, Quiet
<1>4. main'.pc # "run" => \A r \in Routers : ~sim'[r].started
  BY CrewParts
<1> QED
  BY <1>1, <1>3, <1>4, Bystander, CrewGoes

LEMMA StopAllCrew ==
  ASSUME KeysInv, SimInv', StopAll
  PROVE  KeysInv'
<1>1. UNCHANGED vars /\ late' = late /\ sent' = sent /\ main'.pc = "run"
  BY KeysParts DEF StopAll, MainType
<1>2. ASSUME NEW r \in Routers
      PROVE  (Covered(r) /\ CrewInv(r, sim[r]))' /\ \A call : Undisturbed(call, r)
  <2> DEFINE s == [sim[r] EXCEPT !.running = FALSE]
  <2>1. sim[r] \in SimulatorType /\ CrewInv(r, sim[r]) /\ sim'[r] = s
    BY CrewParts DEF StopAll
  <2>2. /\ s.pc = sim[r].pc /\ s.started = sim[r].started /\ s.existing = sim[r].existing
        /\ s.device = sim[r].device /\ s.amount = sim[r].amount
    BY <2>1 DEF SimulatorType
  <2> HIDE DEF s
  <2>3. CrewInv(r, sim[r])'
    BY <1>1, <2>1, <2>2, ChainRests DEF CrewInv
  <2> QED
    BY <1>1, <2>1, <2>2, <2>3, ChainRests DEF Undisturbed
<1>3. ASSUME NEW u \in sent', u.call # "mint" PROVE Follows(u)
  <2>1. u \in sent /\ u.router \in Routers
    BY <1>1, <1>3, KeysParts, PostedFields
  <2> QED
    BY <1>2, <2>1 DEF Follows
<1>4. config' = config /\ router' = router
  BY <1>1 DEF vars, accounts
<1>5. SentStands
  BY <1>3, <1>4, SentGoes
<1> QED
  BY <1>1, <1>2, <1>5, CrewGoes

LEMMA OthersQuietly ==
  ASSUME TypeOK, Others \/ Punish \/ Clock \/ UNCHANGED allVars
  PROVE  AllQuiet /\ UNCHANGED simVars
<1>1. (\E r \in Routers : Keeper(r)) => AllQuiet
  <2>1. ASSUME NEW r \in Routers, NEW e \in Epochs, FinalizeRouterEpoch(r, e) PROVE AllQuiet
    BY <2>1, NothingMoves DEF FinalizeRouterEpoch
  <2> QED
    BY <2>1, SlashQuiet DEF Keeper
<1>2. PauseProtocol \/ ResumeProtocol => AllQuiet
  BY AccountsStand DEF PauseProtocol, ResumeProtocol
<1>3. (\E r \in Routers : ApplyPenalty(r)) => AllQuiet
  BY PenaltyQuiet
<1>4. (\E d \in TickSteps : Tick(d)) => AllQuiet
  BY AccountsStand DEF Tick
<1> QED
  BY <1>1, <1>2, <1>3, <1>4, AccountsStand DEF Others, Punish, Clock, allVars, vars

LEMMA OthersCrew ==
  ASSUME KeysInv, SimInv', Others \/ Punish \/ Clock \/ UNCHANGED allVars
  PROVE  KeysInv'
<1>1. AllQuiet /\ UNCHANGED simVars
  BY KeysParts, OthersQuietly
<1> QED
  BY <1>1, SameCrew DEF simVars

LEMMA ProcessCrew ==
  ASSUME KeysInv, SimInv', Process
  PROVE  KeysInv'
<1>1. CASE Launch \/ AllRegistered
  <2>1. AllQuiet /\ sim' = sim /\ late' = late /\ sent' = sent /\ main.pc # "run"
    BY <1>1, AccountsStand DEF Launch, AllRegistered, Alive, vars
  <2> QED
    BY <2>1, SameCrew
<1>2. CASE ReadWallet
  <2>1. /\ AllQuiet /\ sim' = sim /\ late' = late /\ sent' = Outrun(PendingDraws)
        /\ main.pc # "run"
    BY <1>2, AccountsStand DEF ReadWallet, vars
  <2>2. ASSUME NEW u \in sent', u.call # "mint" PROVE u \in sent
    <3> SUFFICES ASSUME NEW t \in PendingDraws, u = [t EXCEPT !.outrun = TRUE] PROVE FALSE
      BY <2>1 DEF Outrun
    <3>1. t.call = "mint" /\ Posted(t)
      BY KeysParts DEF PendingDraws
    <3> QED
      BY <2>2, <3>1, OutrunFields
  <2> QED
    BY <2>1, <2>2, SameCrew
<1>3. CASE DrawAccepted
  <2>1. /\ Executes(Draw) /\ sim' = sim /\ late' = late /\ sent' = sent /\ main.pc # "run"
    BY <1>3 DEF DrawAccepted
  <2>2. AllQuiet
    BY <2>1, KeysParts, DrawPosted, ExecutesEffect
  <2> QED
    BY <2>1, <2>2, SameCrew
<1>4. CASE \E r \in Routers : Start(r) \/ Turn(r) \/ GivenUp(r)
  BY <1>4, StartCrew, LookupCrew, ReadBalanceCrew, CompareCrew, EnsureStakedCrew,
     WithinLoopCrew, AcceptedCrew, RefusedCrew, GivenUpCrew DEF Turn
<1> QED
  BY <1>1, <1>2, <1>3, <1>4, RegisterNextCrew, StopAllCrew, QuitCrew DEF Process

\* What is executed late adds to what the history counts, unless nobody has read what
\* it changes.
LEMMA LandsCrew ==
  ASSUME KeysInv, SimInv', Lands
  PROVE  KeysInv'
<1>1. PICK t \in sent : /\ Executes(t) /\ sent' = sent \ {t} /\ late' = Counted(t)
                        /\ main' = main /\ sim' = sim
  BY DEF Lands
<1>2. /\ TypeOK /\ late \in LateType /\ Posted(t) /\ t.amount \in Nat
      /\ t.call # "mint" => Outstanding(t) /\ t.router \in Routers
  BY KeysParts, PostedFields
<1>3. /\ \A x \in Routers : late'.stakes[x] = late.stakes[x]
                              \/ (t.call = "stake" /\ t.outrun /\ x = t.router)
      /\ late.keys \subseteq late'.keys
      /\ t.call = "rotate" /\ t.outrun => t.router \in late'.keys
      /\ t.call = "stake" /\ t.outrun =>
           late'.stakes[t.router] = late.stakes[t.router] + 1
  <2>1. CASE t.call = "rotate" /\ t.outrun
    <3>1. late' = [late EXCEPT !.keys = @ \cup {t.router}]
      BY <1>1, <2>1 DEF Counted
    <3> QED
      BY <1>2, <2>1, <3>1 DEF LateType
  <2>2. CASE t.call = "stake" /\ t.outrun
    <3>1. late' = [late EXCEPT !.stakes[t.router] = @ + 1]
      BY <1>1, <2>2 DEF Counted
    <3> QED
      BY <1>2, <2>2, <3>1 DEF LateType
  <2>3. CASE t.call = "mint" /\ t.outrun
    <3>1. late' = [late EXCEPT !.draws = @ + 1]
      BY <1>1, <2>3 DEF Counted
    <3> QED
      BY <1>2, <2>3, <3>1 DEF LateType
  <2>4. CASE t.call \notin {"mint", "stake", "rotate"} \/ ~t.outrun
    <3>1. late' = late
      BY <1>1, <2>4 DEF Counted
    <3> QED
      BY <2>4, <3>1
  <2> QED
    BY <2>1, <2>2, <2>3, <2>4
<1>4. CASE t.call \notin {"register", "rotate", "stake"} /\ AllQuiet
  <2>1. \A x \in Routers : Aside(x)
    BY <1>1, <1>3, <1>4 DEF AllQuiet, Aside
  <2>2. config' = config
    BY <1>4 DEF AllQuiet
  <2>3. ASSUME NEW u \in sent', u.call # "mint" PROVE Follows(u)
    <3>1. u \in sent /\ u.router \in Routers
      BY <1>1, <2>3, KeysParts, PostedFields
    <3> QED
      BY <2>1, <2>2, <3>1, Bystander DEF Follows
  <2>4. SentStands
    BY <2>1, <2>2, <2>3, SentGoes DEF Aside, Quiet
  <2> QED
    BY <1>1, <2>1, <2>2, <2>4, Bystander, CrewGoes, CrewParts
<1>5. ASSUME t.router \in Routers, OthersQuiet(t.router), t.call # "mint",
             \/ t.call = "register" /\ Registers(t.router, t.device)
             \/ t.call = "rotate" /\ Rekeys(t.router, t.device)
             \/ t.call = "stake" /\ Adds(t.router, t.amount)
      PROVE  KeysInv'
  <2>0. PICK r \in Routers : r = t.router
    BY <1>5
  <2>1. /\ CrewInv(r, sim[r]) /\ Covered(r) /\ sim[r] \in SimulatorType
        /\ router[r].staked_amount \in Nat /\ Cap(r) \in Nat /\ config.min_stake \in Nat
        /\ config' = config /\ Outstanding(t)
    BY <1>2, <1>5, CrewParts DEF OthersQuiet
  <2>2. \/ Cap(r)' = Cap(r)
        \/ t.call = "stake" /\ t.outrun /\ Cap(r)' = Cap(r) + config.min_stake
    BY <1>2, <1>3, <2>0, <2>1, CapStays, CapGrows
  <2>3. t.call = "stake" /\ t.outrun => Cap(r)' = Cap(r) + config.min_stake
    BY <1>2, <1>3, <2>0, <2>1, CapGrows
  \* The router may hold one minimum more; or there is room for this stake.
  <2>4. Covered(r)' /\ router'[r].exists
    <3>1. CASE t.call = "register"
      BY <1>5, <2>0, <2>1, <2>2, <3>1 DEF Registers, Covered
    <3>2. CASE t.call = "rotate"
      BY <1>5, <2>0, <2>1, <2>2, <3>2 DEF Rekeys, Covered
    <3>3. CASE t.call = "stake"
      <4>1. Adds(r, t.amount)
        BY <1>5, <2>0, <3>3
      <4>2. router'[r].staked_amount = router[r].staked_amount + t.amount
        BY <2>1, <4>1 DEF Adds, Covered
      <4>3. router'[r].staked_amount <= Cap(r)'
        BY <1>2, <2>0, <2>1, <2>2, <2>3, <3>3, <4>2 DEF Outstanding, Covered
      <4> QED
        BY <4>1, <4>2, <4>3 DEF Adds, Covered
    <3> QED
      BY <1>5, <3>1, <3>2, <3>3
  <2>5. \/ router'[r].staked_amount + Cap(r) <= router[r].staked_amount + Cap(r)'
        \/ t.call = "stake" /\ ~t.outrun /\ sim[r].pc # "stake"
    <3>1. CASE t.call = "stake" /\ t.outrun
      BY <1>2, <1>5, <2>0, <2>1, <2>3, <3>1 DEF Outstanding, Adds, Covered
    <3>2. CASE t.call = "stake" /\ ~t.outrun
      BY <2>0, <2>1, <3>2 DEF Outstanding
    <3>3. CASE t.call # "stake"
      BY <1>5, <2>0, <2>1, <2>2, <3>3 DEF Registers, Rekeys, Covered
    <3> QED
      BY <3>1, <3>2, <3>3
  <2>6. Steady(r)
    <3>1. \/ sim[r].pc \in Unattached
          \/ router'[r].device_pubkey = router[r].device_pubkey
          \/ r \in late'.keys
      <4>1. CASE t.call = "register"
        BY <1>5, <2>0, <2>1, <4>1 DEF Registers, CrewInv
      <4>2. CASE t.call = "rotate"
        BY <1>3, <2>0, <2>1, <4>2 DEF Outstanding, Unattached
      <4>3. CASE t.call = "stake"
        BY <1>5, <2>0, <4>3 DEF Adds
      <4> QED
        BY <1>5, <4>1, <4>2, <4>3
    <3> QED
      BY <1>3, <2>4, <2>5, <3>1 DEF Steady
  <2>7. PICK s \in SimulatorType : s = sim[r]
    BY <2>1
  <2>8. CrewInv(r, s)'
    BY <2>1, <2>6, <2>7, CrewStands
  <2>9. Acts(r, s)
    <3>1. sim' = [sim EXCEPT ![r] = s]
      BY <1>1, <2>7, KeysParts
    <3> QED
      BY <1>1, <1>3, <1>5, <2>0, <3>1 DEF Acts
  <2>10. ASSUME NEW u \in sent', u.call # "mint"
         PROVE  Follows(u) \/ (u \in sent /\ u.router # r)
    <3>1. u \in sent /\ u # t
      BY <1>1
    <3> SUFFICES ASSUME u.router = r, ~u.outrun PROVE Undisturbed(u.call, r)
      BY <3>1 DEF Follows
    <3>2. ~(t.call = "stake" /\ ~t.outrun /\ u.call = "stake")
      BY <2>0, <3>1, KeysParts DEF OneStake
    <3> QED
      BY <1>1, <2>4, <2>5, <3>2 DEF Undisturbed
  <2>11. SentStands
    BY <2>4, <2>9, <2>10, SentAround
  <2>12. s.started => sim[r].started
    BY <2>7
  <2> QED
    BY <2>4, <2>8, <2>9, <2>11, <2>12, OneActs
<1>6. \/ t.call \notin {"register", "rotate", "stake"} /\ AllQuiet
      \/ /\ t.router \in Routers /\ OthersQuiet(t.router) /\ t.call # "mint"
         /\ \/ t.call = "register" /\ Registers(t.router, t.device)
            \/ t.call = "rotate" /\ Rekeys(t.router, t.device)
            \/ t.call = "stake" /\ Adds(t.router, t.amount)
  BY <1>1, <1>2, ExecutesEffect
<1> QED
  BY <1>4, <1>5, <1>6

LEMMA KeysInitially == SimInit => KeysInv
<1> SUFFICES ASSUME SimInit PROVE KeysInv
  OBVIOUS
<1>1. SimInv /\ TypeOK /\ late \in LateType
  BY SimInitially DEF SimInv, LoopsInv, PostInv
<1>2. ASSUME NEW r \in Routers PROVE Covered(r)
  <2>1. Cap(r) \in Nat
    BY <1>1, CapType
  <2> QED
    BY <2>1 DEF SimInit, Covered, NoRouter, NoStake
<1>3. sent = {} /\ \A r \in Routers : sim[r] = Fresh
  BY DEF SimInit
<1> QED
  BY <1>1, <1>2, <1>3 DEF KeysInv, CrewInv, OneStake, Fresh, Unattached, Early

LEMMA KeysPreserved == KeysInv /\ [SimNext]_allVars => KeysInv'
<1> SUFFICES ASSUME KeysInv, [SimNext]_allVars PROVE KeysInv'
  OBVIOUS
<1>1. SimInv'
  BY SimPreserved DEF KeysInv
<1> QED
  BY <1>1, ProcessCrew, LandsCrew, OthersCrew DEF SimNext

\* The inductive invariant of the instances.  Before register() has attached its
\* device a loop is not started; afterwards its key is the router's, unless a rotation
\* was executed after the keys were compared.  A router holds its minimum, and one
\* more for each stake that was executed after the stake was read again; and what a
\* call still under way may add is accounted for.
THEOREM KeysInvariant == SimSpec => []KeysInv
BY KeysInitially, KeysPreserved, PTL DEF SimSpec

\* Whatever stake was given up, executed late, slashed or repeated: no router holds
\* more than the minimum and one more for each stake executed after the stake it adds
\* to was read again (router.ts:184).
THEOREM StakesBounded == SimSpec => []NeverOverstakes
<1>1. KeysInv => NeverOverstakes
  BY DEF KeysInv, Covered, Cap, NeverOverstakes
<1> QED
  BY <1>1, KeysInvariant, PTL

----------------------------------------------------------------------------
(* Devices derived from the seed. *)

\* As long as every launch derives its devices from the seed, a router has one key for
\* good: no rotation is ever sent, and a registration carries that key.
SeededRouter(r) ==
  /\ router[r].exists => router[r].device_pubkey = SeedKey[r]
  /\ sim[r].pc # "rotate"
  /\ sim[r].pc # "off" => main.seeded
  /\ sim[r].pc \notin {"off", "lookup"} => sim[r].device = SeedKey[r]

SeededCall(t) ==
  t.call # "rotate" /\ (t.call = "register" => t.device = SeedKey[t.router])

SeededInv ==
  ~main.seedless =>
    /\ main.pc # "exited" => main.seeded
    /\ late.keys = {}
    /\ \A r \in Routers : SeededRouter(r)
    /\ \A t \in sent : SeededCall(t)

\* What a transaction leaves a router with.
LEMMA SeededExecutes ==
  ASSUME TypeOK, NEW t, Posted(t), Executes(t), SeededCall(t),
         \A r \in Routers : router[r].exists => router[r].device_pubkey = SeedKey[r]
  PROVE  \A r \in Routers : router'[r].exists => router'[r].device_pubkey = SeedKey[r]
BY ExecutesEffect DEF SeededCall, AllQuiet, OthersQuiet, Quiet, Registers, Adds

\* A call given up, or answered, is one it may make.
LEMMA SeededRequest ==
  ASSUME NEW r \in Routers, SeededRouter(r)
  PROVE  SeededCall(Request(r))
BY RequestFields DEF SeededRouter, SeededCall

\* The instance keeps its device, and does not rotate.
SeededStep(r) ==
  \/ sim'[r] = sim[r]
  \/ sim'[r].pc = "off"
  \/ sim'[r].pc = "lookup" /\ main.pc # "exited"
  \/ /\ sim[r].pc = "lookup" /\ sim'[r].pc = "balance"
     /\ sim'[r].device \in DeriveDevice(r)
  \/ /\ sim[r].pc \notin {"off", "lookup"} /\ sim'[r].pc # "rotate"
     /\ sim'[r].device = sim[r].device

LEMMA SeededGoes ==
  ASSUME KeysInv, SeededInv, ~main.seedless, main'.seeded = main.seeded,
         \A r \in Routers : SeededStep(r) /\
           (router'[r].exists => router'[r].device_pubkey = SeedKey[r])
  PROVE  \A r \in Routers : SeededRouter(r)'
<1> SUFFICES ASSUME NEW r \in Routers PROVE SeededRouter(r)'
  OBVIOUS
<1>1. SeededRouter(r) /\ (main.pc # "exited" => main.seeded) /\ SeededStep(r)
  BY DEF SeededInv
<1>2. CASE sim[r].pc = "lookup" /\ sim'[r].pc = "balance" /\ sim'[r].device \in DeriveDevice(r)
  <2>1. DeriveDevice(r) = {SeedKey[r]}
    BY <1>1, <1>2 DEF SeededRouter, DeriveDevice
  <2> QED
    BY <1>1, <1>2, <2>1 DEF SeededRouter
<1> QED
  BY <1>1, <1>2 DEF SeededRouter, SeededStep

LEMMA GoesSeeded ==
  ASSUME KeysInv, NEW r \in Routers, GoesOn(r), sim[r].pc \notin {"off", "lookup"}
  PROVE  \A x \in Routers : SeededStep(x)
<1>1. PICK t \in SimulatorType :
        /\ sim' = [sim EXCEPT ![r] = t]
        /\ t.device = sim[r].device /\ t.pc \notin Unattached \cup {"stake"}
  BY DEF GoesOn
<1>2. sim'[r] = t /\ \A x \in Routers \ {r} : sim'[x] = sim[x]
  BY <1>1, KeysParts
<1> QED
  BY <1>1, <1>2 DEF SeededStep, Unattached

LEMMA GotoSeeded ==
  ASSUME KeysInv, NEW r \in Routers, NEW p \in Places \ {"rotate"}, sim' = Goto(r, p),
         sim[r].pc \notin {"off", "lookup"}
  PROVE  \A x \in Routers : SeededStep(x)
<1> DEFINE t == [sim[r] EXCEPT !.pc = p]
<1>1. sim[r] \in SimulatorType /\ sim \in [Routers -> SimulatorType]
  BY KeysParts, CrewParts
<1>2. sim'[r] = t /\ \A x \in Routers \ {r} : sim'[x] = sim[x]
  BY <1>1 DEF Goto
<1>3. t.pc = p /\ t.device = sim[r].device
  BY <1>1 DEF SimulatorType
<1> HIDE DEF t
<1> QED
  BY <1>2, <1>3 DEF SeededStep

LEMMA ThrowsSeeded ==
  ASSUME KeysInv, NEW r \in Routers, Throws(r), sim[r].pc \notin {"off", "lookup"}
  PROVE  \A x \in Routers : SeededStep(x)
<1>1. CASE sim[r].started
  <2>1. sim' = Skip(r) \/ sim' = Goto(r, "loop")
    BY <1>1 DEF Throws
  <2>2. GoesOn(r)
    BY <2>1, SkipGoes, GotoGoes, OnwardPlaces
  <2> QED
    BY <2>2, GoesSeeded
<1>2. CASE Exit
  BY <1>2 DEF Exit, Fresh, SeededStep
<1> QED
  BY <1>1, <1>2 DEF Throws

\* What each step of an instance does to the instances, with one device for good.
LEMMA TurnSeeded ==
  ASSUME KeysInv, SeededInv, ~main.seedless, NEW r \in Routers,
         Start(r) \/ Turn(r) \/ GivenUp(r)
  PROVE  \A x \in Routers : SeededStep(x)
<1>0. /\ sim \in [Routers -> SimulatorType] /\ sim[r] \in SimulatorType
      /\ CrewInv(r, sim[r]) /\ LoopInv(r, sim[r]) /\ TypeOK /\ SeededRouter(r)
  BY KeysParts, CrewParts DEF SeededInv
<1>1. CASE Lookup(r)
  <2>1. PICK k \in DeriveDevice(r) :
          sim' = [sim EXCEPT ![r].device = k, ![r].existing = router[r].exists,
                             ![r].pc = "balance"]
    BY <1>1 DEF Lookup
  <2>2. /\ \A x \in Routers \ {r} : sim'[x] = sim[x]
        /\ sim'[r].pc = "balance" /\ sim'[r].device = k
    BY <1>0, <2>1 DEF SimulatorType
  <2> QED
    BY <1>1, <2>2 DEF SeededStep, Lookup, At
<1>2. CASE ReadBalance(r)
  <2>1. CASE sim' = Goto(r, Funded(r))
    <3>1. Funded(r) \in Places \ {"rotate"}
      BY DEF Funded, Places
    <3> QED
      BY <1>2, <2>1, <3>1, GotoSeeded DEF ReadBalance, At
  <2>2. CASE sim' # Goto(r, Funded(r))
    <3> DEFINE n == Funds - lamports[sim[r].device]
    <3>1. sim' = [sim EXCEPT ![r].amount = n, ![r].pc = "fund"]
      BY <1>2, <2>2 DEF ReadBalance
    <3> HIDE DEF n
    <3>2. /\ \A x \in Routers \ {r} : sim'[x] = sim[x]
          /\ sim'[r].pc = "fund" /\ sim'[r].device = sim[r].device
      BY <1>0, <3>1 DEF SimulatorType
    <3> QED
      BY <1>2, <3>2 DEF SeededStep, ReadBalance, At
  <2> QED
    BY <2>1, <2>2
<1>3. CASE Compare(r)
  <2>1. router[r].device_pubkey = sim[r].device
    BY <1>0, <1>3 DEF Compare, At, CrewInv, SeededRouter
  <2>2. sim' = Goto(r, "measure") /\ "measure" \in Places \ {"rotate"}
    BY <1>3, <2>1 DEF Compare, Rotates, Places
  <2> QED
    BY <1>3, <2>2, GotoSeeded DEF Compare, At
<1>4. CASE EnsureStaked(r)
  <2> DEFINE n == Shortfall(r)
             p == IF n = 0 THEN Resting(r) ELSE "stake"
  <2>1. sim' = [sim EXCEPT ![r].amount = n, ![r].pc = p]
    BY <1>4 DEF EnsureStaked
  <2>2. p \in {"loop", "ready", "stake"}
    BY DEF Resting
  <2> HIDE DEF n, p
  <2>3. /\ \A x \in Routers \ {r} : sim'[x] = sim[x]
        /\ sim'[r].pc = p /\ sim'[r].device = sim[r].device
    BY <1>0, <2>1 DEF SimulatorType
  <2> QED
    BY <1>4, <2>2, <2>3 DEF SeededStep, EnsureStaked, At
<1>5. CASE Start(r)
  <2>1. sim' = [sim EXCEPT ![r].running = TRUE, ![r].started = TRUE, ![r].pc = "loop"]
    BY <1>5 DEF Start
  <2>2. /\ \A x \in Routers \ {r} : sim'[x] = sim[x]
        /\ sim'[r].pc = "loop" /\ sim'[r].device = sim[r].device
    BY <1>0, <2>1 DEF SimulatorType
  <2> QED
    BY <1>5, <2>2 DEF SeededStep, Start, At
<1>6. CASE ReadClock(r)
  <2>1. PICK e \in Epochs : sim' = [sim EXCEPT ![r].epoch = e, ![r].pc = "beat"]
    BY <1>6 DEF ReadClock
  <2>2. /\ \A x \in Routers \ {r} : sim'[x] = sim[x]
        /\ sim'[r].pc = "beat" /\ sim'[r].device = sim[r].device
    BY <1>0, <2>1 DEF SimulatorType
  <2> QED
    BY <1>6, <2>2 DEF SeededStep, ReadClock, At
<1>7. CASE FinishLoop(r) \/ LookBack(r)
  <2>1. PICK p \in {"done", "fetch", "loop"} : sim' = Goto(r, p)
    BY <1>7 DEF FinishLoop, LookBack
  <2>2. p \in Places \ {"rotate"}
    BY DEF Places, SettleSteps
  <2> QED
    BY <1>7, <2>1, <2>2, GotoSeeded DEF FinishLoop, LookBack, At
<1>8. CASE FetchEpoch(r)
  <2> DEFINE e == Previous(r)
             ep == repoch[r][e]
  <2>1. e \in Epochs /\ sim' = Settle(r, ep, "fetch") /\ sim[r].pc = "fetch"
    BY <1>0, <1>8 DEF FetchEpoch, At, LoopInv, SettleSteps, Previous
  <2>2. ep \in RouterEpochType /\ e \in Int
    <3>1. repoch \in [Routers -> [Epochs -> RouterEpochType]] /\ Epochs \subseteq Nat
      BY <1>0, TypeParts, RouterPulseAssumption
    <3> HIDE DEF e
    <3> QED
      BY <2>1, <3>1
  <2>3. PICK x \in RouterEpochType : x = ep
    BY <2>2
  <2> HIDE DEF ep
  <2> QED
    BY <2>1, <2>2, <2>3, SettleGoes, GoesSeeded
<1>9. CASE Accepted(r)
  <2>1. /\ Sends(r) /\ sim' = Returned(r) /\ sim[r].pc \in Calls
        /\ sim[r].pc \notin {"off", "lookup"}
    BY <1>9, Sending DEF Accepted, Calls, SettleSteps
  <2>2. CASE At(r, "fund")
    <3>1. sim' = Goto(r, Funded(r)) /\ Funded(r) \in Places \ {"rotate"}
      BY <2>1, <2>2, Zenon DEF Returned, At, Funded, Places
    <3> QED
      BY <2>1, <3>1, GotoSeeded
  <2> QED
    BY <2>1, <2>2, AcceptedGoes, GoesSeeded
<1>10. CASE Refused(r)
  <2>1. sim[r].pc \notin {"off", "lookup"}
    BY <1>10 DEF Refused, Calls, SettleSteps
  <2>2. CASE sim' = BeatRefused(r)
    BY <2>1, <2>2, BeatRefusedGoes, GoesSeeded
  <2>3. CASE sim' = Settle(r, sim[r].ep, "vest")
    <3>1. Previous(r) \in Int /\ sim[r].ep \in RouterEpochType
      BY <1>0 DEF Previous, SimulatorType
    <3> QED
      BY <2>1, <2>3, <3>1, SettleGoes, GoesSeeded
  <2> QED
    BY <1>10, <2>1, <2>2, <2>3, ThrowsSeeded DEF Refused
<1>11. CASE GivenUp(r)
  BY <1>11, ThrowsSeeded DEF GivenUp, Calls, SettleSteps
<1> QED
  BY <1>1, <1>2, <1>3, <1>4, <1>5, <1>6, <1>7, <1>8, <1>9, <1>10, <1>11 DEF Turn

\* What a step may add to the calls under way.
LEMMA SeededSent ==
  ASSUME KeysInv, SeededInv, ~main.seedless,
         \A u \in sent' : \/ u \in sent \/ u.call = "mint"
                          \/ \E t \in sent : u = [t EXCEPT !.outrun = TRUE]
                          \/ \E r \in Routers : u = Request(r)
  PROVE  \A u \in sent' : SeededCall(u)
<1> SUFFICES ASSUME NEW u \in sent' PROVE SeededCall(u)
  OBVIOUS
<1>1. ASSUME NEW t \in sent, u = [t EXCEPT !.outrun = TRUE] PROVE SeededCall(u)
  <2>1. SeededCall(t) /\ Posted(t)
    BY KeysParts DEF SeededInv
  <2> QED
    BY <1>1, <2>1, OutrunFields DEF SeededCall
<1>2. ASSUME NEW r \in Routers, u = Request(r) PROVE SeededCall(u)
  BY <1>2, SeededRequest DEF SeededInv
<1> QED
  BY <1>1, <1>2 DEF SeededInv, SeededCall

LEMMA SeededMain ==
  ASSUME KeysInv, [SimNext]_allVars, ~Launch
  PROVE  /\ main'.seeded = main.seeded /\ main'.seedless = main.seedless
         /\ main'.pc # "exited" => main.pc # "exited"
<1>1. main \in MainType
  BY KeysParts
<1>2. Exit => main' = [main EXCEPT !.pc = "exited", !.draw = 0]
  BY DEF Exit
<1>3. ASSUME NEW r \in Routers, Start(r) \/ Turn(r) \/ GivenUp(r)
      PROVE  main' = main \/ Exit
  BY <1>3 DEF Turn, Start, GivenUp, Throws, Lookup, ReadBalance, Compare, EnsureStaked,
     ReadClock, FinishLoop, LookBack, FetchEpoch, Accepted, Refused
<1>4. ReadWallet => \/ main' = [main EXCEPT !.pc = "register"] /\ main.pc = "top_up"
                    \/ /\ main' = [main EXCEPT !.pc = "mint", !.draw = Required]
                       /\ main.pc = "top_up"
  BY DEF ReadWallet
<1>5. DrawAccepted => main' = [main EXCEPT !.pc = "register", !.draw = 0] /\ main.pc = "mint"
  BY DEF DrawAccepted
<1>6. AllRegistered => main' = [main EXCEPT !.pc = "run"] /\ main.pc = "register"
  BY DEF AllRegistered
<1>7. RegisterNext => main' = [main EXCEPT !.turn = @ + 1]
  BY DEF RegisterNext
<1>8. StopAll => main' = [main EXCEPT !.stopped = TRUE]
  BY DEF StopAll
<1>9. Lands \/ Others \/ Punish \/ Clock \/ UNCHANGED allVars => main' = main
  BY DEF Lands, Others, Punish, Clock, simVars, allVars
<1>10. DrawRefused \/ Quit => Exit
  BY DEF DrawRefused, Quit
<1> HIDE DEF ReadWallet, DrawAccepted, AllRegistered, RegisterNext, StopAll, DrawRefused, Quit,
             Lands, Exit
<1>11. main'.seeded = main.seeded /\ main'.seedless = main.seedless
       /\ (main'.pc # "exited" => main.pc # "exited")
  <2>1. \/ main' = main \/ Exit \/ ReadWallet \/ DrawAccepted \/ AllRegistered
        \/ RegisterNext \/ StopAll
    BY <1>3, <1>9, <1>10 DEF SimNext, Process
  <2>2. CASE Exit
    BY <1>1, <1>2, <2>2 DEF MainType
  <2>3. CASE ReadWallet \/ DrawAccepted \/ AllRegistered
    BY <1>1, <1>4, <1>5, <1>6, <2>3 DEF MainType
  <2>4. CASE RegisterNext \/ StopAll
    BY <1>1, <1>7, <1>8, <2>4 DEF MainType
  <2> QED
    BY <2>1, <2>2, <2>3, <2>4
<1> QED
  BY <1>11

\* All the process does to the chain is send it transactions.
LEMMA TurnSends ==
  ASSUME NEW r \in Routers, Start(r) \/ Turn(r) \/ GivenUp(r)
  PROVE  UNCHANGED vars \/ Sends(r)
<1>1. Accepted(r) => Sends(r)
  BY DEF Accepted
<1>2. Start(r) \/ GivenUp(r) \/ Lookup(r) \/ ReadBalance(r) => UNCHANGED vars
  BY DEF Start, GivenUp, Lookup, ReadBalance
<1>3. Compare(r) \/ EnsureStaked(r) \/ ReadClock(r) \/ FinishLoop(r) => UNCHANGED vars
  BY DEF Compare, EnsureStaked, ReadClock, FinishLoop
<1>4. LookBack(r) \/ FetchEpoch(r) \/ Refused(r) => UNCHANGED vars
  BY DEF LookBack, FetchEpoch, Refused
<1> QED
  BY <1>1, <1>2, <1>3, <1>4 DEF Turn

LEMMA ProcessSends ==
  ASSUME Process
  PROVE  UNCHANGED vars \/ Executes(Draw) \/ \E r \in Routers : Sends(r)
<1>1. DrawAccepted => Executes(Draw)
  BY DEF DrawAccepted
<1>2. Launch \/ ReadWallet \/ DrawRefused \/ RegisterNext => UNCHANGED vars
  BY DEF Launch, ReadWallet, DrawRefused, RegisterNext
<1>3. AllRegistered \/ StopAll \/ Quit => UNCHANGED vars
  BY DEF AllRegistered, StopAll, Quit
<1> QED
  BY <1>1, <1>2, <1>3, TurnSends DEF Process

\* The four parts of SeededInv under a step of the process.
LEMMA SeededProcess ==
  ASSUME KeysInv, SeededInv, ~main.seedless, Process, ~Launch
  PROVE  /\ late'.keys = {}
         /\ \A r \in Routers : SeededStep(r) /\
              (router'[r].exists => router'[r].device_pubkey = SeedKey[r])
         /\ \A u \in sent' : SeededCall(u)
<1>0. /\ late \in LateType /\ late.keys = {} /\ TypeOK /\ LoopsInv /\ PostInv
      /\ \A r \in Routers : SeededRouter(r)
      /\ \A r \in Routers : router[r].exists => router[r].device_pubkey = SeedKey[r]
  BY KeysParts DEF SeededInv, SeededRouter
<1>1. late'.keys = {}
  <2>1. late' = late \/ \E r \in Routers : late' = [late EXCEPT !.keys = @ \ {r}]
    <3>1. ASSUME NEW r \in Routers, Start(r) \/ Turn(r) \/ GivenUp(r)
          PROVE  late' = late \/ late' = [late EXCEPT !.keys = @ \ {r}]
      BY <3>1 DEF Turn, Start, GivenUp, Lookup, ReadBalance, Compare, EnsureStaked,
         ReadClock, FinishLoop, LookBack, FetchEpoch, Accepted, Refused
    <3> QED
      BY <3>1 DEF Process, ReadWallet, DrawAccepted, DrawRefused, RegisterNext,
         AllRegistered, StopAll, Quit
  <2> QED
    BY <1>0, <2>1 DEF LateType
<1>2. \A r \in Routers : router'[r].exists => router'[r].device_pubkey = SeedKey[r]
  <2>2. UNCHANGED vars \/ Executes(Draw) \/ \E r \in Routers : Sends(r)
    BY ProcessSends
  <2>3. CASE Executes(Draw)
    <3>1. Posted(Draw) /\ SeededCall(Draw)
      BY <1>0, DrawPosted DEF SeededCall
    <3> QED
      BY <1>0, <2>3, <3>1, SeededExecutes
  <2>4. ASSUME NEW r \in Routers, Sends(r)
        PROVE  \A x \in Routers : router'[x].exists => router'[x].device_pubkey = SeedKey[x]
    <3>1. Executes(Request(r)) /\ Posted(Request(r)) /\ SeededCall(Request(r))
      BY <1>0, <2>4, KeysParts, RequestPosted, SeededRequest DEF Sends
    <3> QED
      BY <1>0, <3>1, SeededExecutes
  <2>5. UNCHANGED vars => router' = router
    BY DEF vars, accounts
  <2> QED
    BY <1>0, <2>2, <2>3, <2>4, <2>5
<1>3. \A r \in Routers : SeededStep(r)
  <2>1. CASE ReadWallet \/ DrawAccepted \/ AllRegistered
    BY <2>1 DEF ReadWallet, DrawAccepted, AllRegistered, SeededStep
  <2>2. CASE DrawRefused \/ Quit
    BY <2>2 DEF DrawRefused, Quit, Exit, Fresh, SeededStep
  <2>3. CASE StopAll
    <3>1. ASSUME NEW r \in Routers PROVE sim'[r].pc = sim[r].pc /\ sim'[r].device = sim[r].device
      <4>1. sim'[r] = [sim[r] EXCEPT !.running = FALSE] /\ sim[r] \in SimulatorType
        BY <2>3, CrewParts DEF StopAll
      <4> QED
        BY <4>1 DEF SimulatorType
    <3>2. ASSUME NEW r \in Routers PROVE SeededStep(r)
      <4>1. sim[r].pc = "lookup" => main.pc # "exited"
        BY <2>3 DEF StopAll
      <4> QED
        BY <1>0, <3>1, <4>1 DEF SeededStep, SeededRouter
    <3> QED
      BY <3>2
  <2>4. CASE RegisterNext
    <3>1. PICK x : sim' = Goto(x, "lookup") /\ main.pc = "register"
      BY <2>4 DEF RegisterNext
    <3>2. ASSUME NEW r \in Routers
          PROVE  sim'[r] = sim[r] \/ sim'[r].pc = "lookup"
      <4>1. sim \in [Routers -> SimulatorType] /\ sim[r] \in SimulatorType
        BY KeysParts, CrewParts
      <4>2. sim'[r] = IF r = x THEN [sim[r] EXCEPT !.pc = "lookup"] ELSE sim[r]
        BY <3>1, <4>1 DEF Goto
      <4> QED
        BY <4>1, <4>2 DEF SimulatorType
    <3> QED
      BY <3>1, <3>2 DEF SeededStep
  <2> QED
    BY <2>1, <2>2, <2>3, <2>4, TurnSeeded DEF Process
<1>4. \A u \in sent' : SeededCall(u)
  <2>1. ASSUME NEW r \in Routers, Start(r) \/ Turn(r) \/ GivenUp(r), NEW u \in sent'
        PROVE  \/ u \in sent \/ u = Request(r)
               \/ \E t \in sent : u = [t EXCEPT !.outrun = TRUE]
    <3>1. Compare(r) => sent' = Outrun(Pending("rotate", r))
      BY DEF Compare
    <3>2. EnsureStaked(r) => sent' = Outrun(Pending("stake", r))
      BY DEF EnsureStaked
    <3>3. GivenUp(r) => sent' = sent \cup {Request(r)} \/ sent' = sent
      BY DEF GivenUp
    <3>4. ~Compare(r) /\ ~EnsureStaked(r) /\ ~GivenUp(r) => sent' = sent
      BY <2>1 DEF Turn, Start, Lookup, ReadBalance, ReadClock, FinishLoop, LookBack,
         FetchEpoch, Accepted, Refused
    <3>5. \A c : Pending(c, r) \subseteq sent
      BY DEF Pending
    <3> HIDE DEF Compare, EnsureStaked, GivenUp
    <3> QED
      BY <2>1, <3>1, <3>2, <3>3, <3>4, <3>5 DEF Outrun
  <2>2. ASSUME NEW u \in sent', ReadWallet \/ Quit
        PROVE  \/ u \in sent \/ u.call = "mint" \/ (\E r \in Routers : u = Request(r))
               \/ \E t \in sent : u = [t EXCEPT !.outrun = TRUE]
    <3>1. Draw.call = "mint"
      BY DEF Draw
    <3> QED
      BY <2>2, <3>1 DEF ReadWallet, Quit, Unanswered, Outrun, PendingDraws
  <2>3. ASSUME DrawAccepted \/ DrawRefused \/ RegisterNext \/ AllRegistered \/ StopAll
        PROVE  sent' = sent
    BY <2>3 DEF DrawAccepted, DrawRefused, RegisterNext, AllRegistered, StopAll
  <2>4. \A u \in sent' : \/ u \in sent \/ u.call = "mint"
                         \/ \E t \in sent : u = [t EXCEPT !.outrun = TRUE]
                         \/ \E r \in Routers : u = Request(r)
    <3>1. CASE \E r \in Routers : Start(r) \/ Turn(r) \/ GivenUp(r)
      BY <2>1, <3>1
    <3> QED
      BY <2>2, <2>3, <3>1 DEF Process
  <2> QED
    BY <2>4, SeededSent
<1> QED
  BY <1>1, <1>2, <1>3, <1>4

LEMMA SeededLands ==
  ASSUME KeysInv, SeededInv, ~main.seedless, Lands
  PROVE  /\ late'.keys = {}
         /\ \A r \in Routers : SeededStep(r) /\
              (router'[r].exists => router'[r].device_pubkey = SeedKey[r])
         /\ \A u \in sent' : SeededCall(u)
<1>1. PICK t \in sent : /\ Executes(t) /\ sent' = sent \ {t} /\ late' = Counted(t)
                        /\ sim' = sim
  BY DEF Lands
<1>2. /\ late \in LateType /\ late.keys = {} /\ TypeOK /\ Posted(t) /\ SeededCall(t)
      /\ \A r \in Routers : router[r].exists => router[r].device_pubkey = SeedKey[r]
      /\ \A u \in sent : SeededCall(u)
  BY KeysParts DEF SeededInv, SeededRouter
<1>3. late'.keys = {}
  <2>1. \/ late' = late
        \/ late' = [late EXCEPT !.draws = @ + 1]
        \/ late' = [late EXCEPT !.stakes[t.router] = @ + 1]
    BY <1>1, <1>2 DEF Counted, SeededCall
  <2> QED
    BY <1>2, <2>1 DEF LateType
<1>4. \A r \in Routers : router'[r].exists => router'[r].device_pubkey = SeedKey[r]
  BY <1>1, <1>2, SeededExecutes
<1> QED
  BY <1>1, <1>2, <1>3, <1>4 DEF SeededStep

LEMMA SeededPreserved == KeysInv /\ SeededInv /\ [SimNext]_allVars => SeededInv'
<1> SUFFICES ASSUME KeysInv, SeededInv, [SimNext]_allVars, ~main'.seedless
             PROVE  /\ main'.pc # "exited" => main'.seeded
                    /\ late'.keys = {}
                    /\ \A r \in Routers : SeededRouter(r)'
                    /\ \A t \in sent' : SeededCall(t)
  BY DEF SeededInv, SeededCall
<1>1. CASE Launch
  <2>1. PICK seeded \in BOOLEAN :
          main' = [pc |-> "top_up", turn |-> 0, draw |-> 0, seeded |-> seeded,
                   seedless |-> main.seedless \/ ~seeded, stopped |-> FALSE,
                   launches |-> main.launches + 1]
    BY <1>1 DEF Launch
  <2>2. main'.seeded /\ ~main.seedless
    BY <2>1
  <2>3. router' = router /\ sim' = sim /\ sent' = sent /\ late' = late
    BY <1>1 DEF Launch, vars, accounts
  <2> QED
    BY <2>2, <2>3 DEF SeededInv, SeededRouter
<1>2. CASE ~Launch
  <2>1. /\ main'.seeded = main.seeded /\ main'.seedless = main.seedless
        /\ main'.pc # "exited" => main.pc # "exited"
    BY <1>2, SeededMain
  <2>2. ~main.seedless
    BY <2>1
  <2>3. CASE Others \/ Punish \/ Clock \/ UNCHANGED allVars
    <3>1. AllQuiet /\ sim' = sim /\ sent' = sent /\ late' = late
      BY <2>3, KeysParts, OthersQuietly DEF simVars
    <3> QED
      BY <2>1, <2>2, <3>1 DEF SeededInv, SeededRouter, AllQuiet, Quiet
  <2>4. CASE Process \/ Lands
    <3>1. /\ late'.keys = {}
          /\ \A r \in Routers : SeededStep(r) /\
               (router'[r].exists => router'[r].device_pubkey = SeedKey[r])
          /\ \A u \in sent' : SeededCall(u)
      BY <1>2, <2>2, <2>4, SeededProcess, SeededLands
    <3> QED
      BY <2>1, <2>2, <3>1, SeededGoes DEF SeededInv
  <2> QED
    BY <2>3, <2>4 DEF SimNext
<1> QED
  BY <1>1, <1>2

LEMMA SeededInitially == SimInit => SeededInv
<1> SUFFICES ASSUME SimInit PROVE SeededInv
  OBVIOUS
<1>1. /\ main.pc = "exited" /\ late.keys = {} /\ sent = {}
      /\ \A r \in Routers : sim[r].pc = "off" /\ ~router[r].exists
  BY DEF SimInit, Fresh, NoRouter
<1> QED
  BY <1>1 DEF SeededInv, SeededRouter

\* However often the process is launched, with old devices or new ones, and whatever
\* registration or rotation was given up on the way: a started loop signs with the key
\* on chain, unless a rotation was executed after the keys were compared; and never
\* otherwise where every launch derives its devices from the seed (router.ts:132-157).
THEOREM KeysCurrent == SimSpec => []SignsWithCurrentKey
<1>1. KeysInv /\ SeededInv => SignsWithCurrentKey
  <2> SUFFICES ASSUME KeysInv, SeededInv, NEW r \in Routers, sim[r].started
               PROVE  \/ router[r].device_pubkey = sim[r].device
                      \/ r \in late.keys /\ main.seedless
    BY DEF SignsWithCurrentKey
  <2>1. CrewInv(r, sim[r]) /\ (~main.seedless => late.keys = {})
    BY CrewParts DEF SeededInv
  <2> QED
    BY <2>1 DEF CrewInv
<1> QED
  BY <1>1, KeysInvariant, SeededInitially, SeededPreserved, PTL DEF SimSpec


----------------------------------------------------------------------------
(* What the simulator draws from genesis. *)

Locked == protocol.total_staked + protocol.total_slashed

\* One round of minimum stakes, and one more.
Round == config.min_stake * (Cardinality(Routers) + 1)

\* What may be drawn beyond what is locked.
Allowed == Round * (1 + late.draws)

\* There is room for a draw of n.
Room(n) == protocol.genesis_minted + n <= Allowed + Locked

\* A draw under way, alone in not having been outrun by the next launch's reading.
DrawOut(t) == t.amount <= Round /\ (t.outrun \/ Room(t.amount))

\* What was drawn is in the wallet, staked or slashed; hence a draw, which only fills
\* the wallet up, leaves the total within one round beyond what is locked.
DrawInv ==
  /\ SimInv
  /\ protocol.genesis_minted <= wallet[Wallet] + Locked
  /\ Room(0)
  /\ main.pc = "mint" =>
       /\ main.draw <= Round /\ Room(main.draw)
       /\ \A t \in PendingDraws : t.outrun
  /\ \A t \in PendingDraws : DrawOut(t)
  /\ \A t \in PendingDraws, u \in PendingDraws : ~t.outrun /\ ~u.outrun => t = u

\* Nothing leaves the wallet but for the vault, and nothing leaves the vault but
\* for the treasury.
FundsKept ==
  /\ config' = config
  /\ protocol'.genesis_minted = protocol.genesis_minted
  /\ Locked' >= Locked
  /\ wallet'[Wallet] + Locked' >= wallet[Wallet] + Locked

LEMMA FundsTypes ==
  ASSUME TypeOK
  PROVE  /\ protocol \in ProtocolType /\ wallet \in [Wallets -> Nat]
         /\ Wallet \in Wallets /\ wallet[Wallet] \in Nat
         /\ protocol.genesis_minted \in Nat /\ protocol.total_staked \in Nat
         /\ protocol.total_slashed \in Nat /\ Locked \in Nat
  BY TypeParts, SimulatorAssumption DEF ProtocolType, Locked

LEMMA LockedType ==
  ASSUME TypeOK'
  PROVE  /\ protocol'.genesis_minted \in Nat /\ Locked' \in Nat /\ wallet'[Wallet] \in Nat
         /\ protocol'.total_staked \in Nat /\ protocol'.total_slashed \in Nat
<1>1. protocol' \in ProtocolType /\ wallet' \in [Wallets -> Nat]
  BY DEF TypeOK
<1>2. wallet'[Wallet] \in Nat
  BY <1>1, SimulatorAssumption
<1> QED
  BY <1>1, <1>2 DEF Locked, ProtocolType

LEMMA RoundType ==
  ASSUME TypeOK
  PROVE  Round \in Nat
<1>1. config.min_stake \in Nat /\ Cardinality(Routers) \in Nat
  BY TypeParts, RouterPulseAssumption, FS_CardinalityType DEF ConfigType
<1> QED
  BY <1>1 DEF Round

\* What the history counts raises what may be drawn by a round each.
LEMMA AllowedType ==
  ASSUME SimInv
  PROVE  /\ Round \in Nat /\ Allowed \in Nat /\ Round <= Allowed
         /\ config' = config => Round' = Round
         /\ config' = config /\ late'.draws = late.draws => Allowed' = Allowed
         /\ config' = config /\ late'.draws = late.draws + 1 => Allowed' = Allowed + Round
<1>1. Round \in Nat /\ late.draws \in Nat
  BY RoundType DEF SimInv, LoopsInv, PostInv, LateType
<1>2. config' = config => Round' = Round
  BY DEF Round
<1>3. \A m \in Nat, k \in Nat : /\ m * (1 + k) \in Nat /\ m <= m * (1 + k)
                                /\ m * (1 + (k + 1)) = m * (1 + k) + m
  <2> TAKE m \in Nat, k \in Nat
  <2>1. m * k \in Nat
    OBVIOUS
  <2>2. m * (1 + k) = m + m * k
    OBVIOUS
  <2>3. m * (1 + (k + 1)) = m * (1 + k) + m
    OBVIOUS
  <2> QED
    BY <2>1, <2>2, <2>3
<1>4. Allowed \in Nat /\ Round <= Allowed
  BY <1>1, <1>3 DEF Allowed
<1>5. config' = config /\ late'.draws = late.draws => Allowed' = Allowed
  BY <1>2 DEF Allowed
<1>6. config' = config /\ late'.draws = late.draws + 1 => Allowed' = Allowed + Round
  BY <1>1, <1>2, <1>3 DEF Allowed
<1> QED
  BY <1>1, <1>2, <1>4, <1>5, <1>6

LEMMA DrawParts ==
  ASSUME SimInv
  PROVE  /\ TypeOK /\ LoopsInv /\ PostInv /\ main \in MainType /\ main.draw \in Nat
         /\ late \in LateType /\ sim \in [Routers -> SimulatorType]
         /\ \A t \in sent : Posted(t) /\ t.amount \in Nat
         /\ Round \in Nat /\ Allowed \in Nat /\ Round <= Allowed
         /\ wallet[Wallet] \in Nat /\ Locked \in Nat /\ protocol.genesis_minted \in Nat
BY PostedFields, AllowedType, FundsTypes DEF SimInv, LoopsInv, PostInv, MainType

\* Neither an account the draw depends on nor a draw under way is disturbed.
LEMMA KeptDraws ==
  ASSUME DrawInv, SimInv', FundsKept, late'.draws = late.draws,
         main'.pc = "mint" => main.pc = "mint" /\ main'.draw = main.draw,
         \A u \in sent' : u.call = "mint" => u \in sent
  PROVE  DrawInv'
<1>1. /\ wallet[Wallet] \in Nat /\ Locked \in Nat /\ protocol.genesis_minted \in Nat
      /\ wallet'[Wallet] \in Nat /\ Locked' \in Nat /\ Allowed \in Nat
      /\ Allowed' = Allowed /\ Round' = Round
  BY DrawParts, LockedType, AllowedType DEF DrawInv, SimInv, LoopsInv, FundsKept
<1>2. \A n \in Nat : Room(n) => Room(n)'
  BY <1>1 DEF Room, FundsKept
<1>3. protocol'.genesis_minted <= wallet'[Wallet] + Locked'
  BY <1>1 DEF DrawInv, FundsKept
<1>4. Room(0)'
  BY <1>2 DEF DrawInv
<1>5. PendingDraws' \subseteq PendingDraws
  BY DEF PendingDraws
<1>6. \A t \in PendingDraws' : DrawOut(t)'
  <2> TAKE t \in PendingDraws'
  <2>1. t \in sent /\ DrawOut(t) /\ t.amount \in Nat
    BY <1>5, DrawParts DEF DrawInv, PendingDraws
  <2> QED
    BY <1>1, <1>2, <2>1 DEF DrawOut
<1>7. main'.pc = "mint" =>
        main'.draw <= Round' /\ Room(main.draw)' /\ \A t \in PendingDraws' : t.outrun
  BY <1>1, <1>2, <1>5, DrawParts DEF DrawInv
<1> QED
  BY <1>3, <1>4, <1>5, <1>6, <1>7 DEF DrawInv

LEMMA UntouchedFunds ==
  ASSUME TypeOK, UNCHANGED <<config, wallet>>,
         protocol'.genesis_minted = protocol.genesis_minted,
         protocol'.total_staked = protocol.total_staked,
         protocol'.total_slashed = protocol.total_slashed
  PROVE  FundsKept
<1>1. Locked' = Locked
  BY DEF Locked
<1> QED
  BY <1>1, FundsTypes DEF FundsKept

\* Instructions that write neither a balance nor a ledger counter.
LEMMA RecordFunds ==
  ASSUME TypeOK, NEW r, NEW e, NEW k,
         \/ UNCHANGED vars
         \/ RegisterRouter(r, k) \/ RotateDeviceKey(r, k) \/ Heartbeat(k, r, e)
         \/ FinalizeRouterEpoch(r, e) \/ ClaimReward(r, e) \/ ApplyPenalty(r)
         \/ PauseProtocol \/ ResumeProtocol \/ \E d \in TickSteps : Tick(d)
  PROVE  FundsKept
<1>1. UNCHANGED <<config, wallet>>
  BY DEF vars, tokens, accounts, RegisterRouter, RotateDeviceKey, Heartbeat,
         FinalizeRouterEpoch, ClaimReward, ApplyPenalty, PauseProtocol, ResumeProtocol, Tick
<1>2. \/ protocol' = protocol
      \/ \E n : protocol' = [protocol EXCEPT !.total_routers = n]
      \/ \E n : protocol' = [protocol EXCEPT !.total_rewards_distributed = n]
      \/ \E b : protocol' = [protocol EXCEPT !.is_paused = b]
  BY DEF vars, RegisterRouter, RotateDeviceKey, Heartbeat, FinalizeRouterEpoch, ClaimReward,
         ApplyPenalty, PauseProtocol, ResumeProtocol, Tick
<1>3. /\ protocol'.genesis_minted = protocol.genesis_minted
      /\ protocol'.total_staked = protocol.total_staked
      /\ protocol'.total_slashed = protocol.total_slashed
  BY <1>2, FundsTypes DEF ProtocolType
<1> QED
  BY <1>1, <1>3, UntouchedFunds

LEMMA StakeFunds ==
  ASSUME TypeOK, NEW r \in Routers, NEW amount \in Nat, StakeCollateral(r, amount)
  PROVE  FundsKept
<1>1. /\ UNCHANGED config /\ wallet[Wallet] >= amount
      /\ wallet' = [wallet EXCEPT ![Wallet] = @ - amount]
      /\ protocol' = [protocol EXCEPT !.total_staked = @ + amount]
  BY SimulatorAssumption DEF StakeCollateral
<1>2. /\ wallet'[Wallet] = wallet[Wallet] - amount
      /\ protocol'.total_staked = protocol.total_staked + amount
      /\ protocol'.total_slashed = protocol.total_slashed
      /\ protocol'.genesis_minted = protocol.genesis_minted
  BY <1>1, FundsTypes DEF ProtocolType
<1> QED
  BY <1>1, <1>2, FundsTypes DEF FundsKept, Locked

LEMMA SlashFunds ==
  ASSUME TypeOK, NEW r \in Routers, NEW e \in Epochs, SlashRouter(r, e)
  PROVE  FundsKept
<1> DEFINE amount == SlashDue(r, e)
<1>1. amount \in Nat
  <2>1. repoch[r][e] \in RouterEpochType /\ stake[r] \in StakeType
    BY TypeParts
  <2> QED
    BY <2>1 DEF SlashDue, Lesser, RouterEpochType, StakeType
<1>2. /\ UNCHANGED <<config, wallet>>
      /\ protocol' = [protocol EXCEPT !.total_staked = SaturatingSub(@, amount),
                                      !.total_slashed = @ + amount]
  BY DEF SlashRouter
<1> HIDE DEF amount
<1>3. /\ protocol'.total_staked = SaturatingSub(protocol.total_staked, amount)
      /\ protocol'.total_slashed = protocol.total_slashed + amount
      /\ protocol'.genesis_minted = protocol.genesis_minted
  BY <1>2, FundsTypes DEF ProtocolType
<1>4. /\ SaturatingSub(protocol.total_staked, amount) \in Nat
      /\ SaturatingSub(protocol.total_staked, amount) >= protocol.total_staked - amount
  BY <1>1, FundsTypes DEF SaturatingSub
<1>5. Locked' >= Locked
  BY <1>1, <1>3, <1>4, FundsTypes DEF Locked
<1>6. Locked' \in Nat
  BY <1>1, <1>3, <1>4, FundsTypes DEF Locked
<1> QED
  BY <1>2, <1>3, <1>5, <1>6, FundsTypes DEF FundsKept

LEMMA VestFunds ==
  ASSUME TypeOK, NEW r \in Routers, NEW e \in Epochs, ClaimVested(r, e)
  PROVE  FundsKept
<1> DEFINE released == Releasable(vesting[r][e])
<1>1. released \in Nat
  <2>1. vesting[r][e] \in VestingType /\ now \in Int
    BY TypeParts
  <2>2. Vested(vesting[r][e], now) \in Nat /\ vesting[r][e].claimed_amount \in Nat
    BY <2>1, VestedType DEF VestingType
  <2> QED
    BY <2>2 DEF Releasable, SaturatingSub
<1>2. /\ UNCHANGED config
      /\ wallet' = [wallet EXCEPT ![Wallet] = @ + released]
      /\ protocol' = [protocol EXCEPT !.total_minted = @ + released]
  BY SimulatorAssumption DEF ClaimVested
<1> HIDE DEF released
<1>3. /\ wallet'[Wallet] = wallet[Wallet] + released
      /\ protocol'.total_staked = protocol.total_staked
      /\ protocol'.total_slashed = protocol.total_slashed
      /\ protocol'.genesis_minted = protocol.genesis_minted
  BY <1>2, FundsTypes DEF ProtocolType
<1> QED
  BY <1>1, <1>2, <1>3, FundsTypes DEF FundsKept, Locked

\* No transaction but a draw takes from genesis.
LEMMA ExecutesFunds ==
  ASSUME TypeOK, NEW t, Posted(t), Executes(t), t.call # "mint"
  PROVE  FundsKept
<1> DEFINE r == t.router
           k == t.device
           e == t.epoch
           n == t.amount
<1>1. n \in Nat /\ r \in Routers /\ (t.call \in EpochCalls => e \in Epochs)
  BY PostedFields
<1>2. \/ t.call = "fund" /\ UNCHANGED vars
      \/ t.call = "register" /\ RegisterRouter(r, k)
      \/ t.call = "rotate" /\ RotateDeviceKey(r, k)
      \/ t.call = "stake" /\ StakeCollateral(r, n)
      \/ t.call = "beat" /\ Heartbeat(k, r, e)
      \/ t.call = "finalize" /\ FinalizeRouterEpoch(r, e)
      \/ t.call = "slash" /\ SlashRouter(r, e)
      \/ t.call = "claim" /\ ClaimReward(r, e)
      \/ t.call = "vest" /\ ClaimVested(r, e)
  BY DEF Executes
<1> HIDE DEF r, k, e, n
<1>3. CASE UNCHANGED vars \/ RegisterRouter(r, k) \/ RotateDeviceKey(r, k)
             \/ Heartbeat(k, r, e) \/ FinalizeRouterEpoch(r, e) \/ ClaimReward(r, e)
  BY <1>3, RecordFunds
<1>4. CASE StakeCollateral(r, n)
  BY <1>1, <1>4, StakeFunds
<1>5. CASE t.call = "slash" /\ SlashRouter(r, e)
  BY <1>1, <1>5, SlashFunds DEF EpochCalls
<1>6. CASE t.call = "vest" /\ ClaimVested(r, e)
  BY <1>1, <1>6, VestFunds DEF EpochCalls
<1> QED
  BY <1>2, <1>3, <1>4, <1>5, <1>6

\* What a draw of n does.
LEMMA MintFunds ==
  ASSUME TypeOK, NEW n \in Nat, MintGenesis(Wallet, n)
  PROVE  /\ config' = config /\ Locked' = Locked
         /\ protocol'.genesis_minted = protocol.genesis_minted + n
         /\ wallet'[Wallet] = wallet[Wallet] + n
<1>1. /\ config' = config
      /\ wallet' = [wallet EXCEPT ![Wallet] = @ + n]
      /\ protocol' = [protocol EXCEPT !.genesis_minted = @ + n, !.total_minted = @ + n]
  BY DEF MintGenesis
<1> QED
  BY <1>1, FundsTypes DEF ProtocolType, Locked

\* The launch that reads the wallet asks for what it lacks of a round, and outruns the
\* draws of the launches before.
LEMMA ReadWalletDraws ==
  ASSUME DrawInv, SimInv', ReadWallet
  PROVE  DrawInv'
<1> DEFINE round == Round
           held == wallet[Wallet]
           need == Required
<1>1. /\ UNCHANGED vars /\ late' = late /\ sent' = Outrun(PendingDraws)
      /\ \/ main' = [main EXCEPT !.pc = "mint", !.draw = need] /\ need > 0
         \/ main' = [main EXCEPT !.pc = "register"]
  BY DEF ReadWallet
<1>2. SimInv /\ round \in Nat /\ held \in Nat /\ need \in Nat
  BY DrawParts, RequiredType DEF DrawInv
<1>3. need = SaturatingSub(round, held)
  BY DEF Required, Round
<1>4. /\ config' = config /\ protocol' = protocol /\ wallet' = wallet
      /\ Locked' = Locked /\ Round' = Round /\ Allowed' = Allowed
  BY <1>1, AllowedType, <1>2 DEF vars, tokens, Locked
<1>5. \A n : Room(n)' <=> Room(n)
  BY <1>4 DEF Room
<1> HIDE DEF round, held, need
<1>6. need > 0 => need <= round /\ held + need = round
  BY <1>2, <1>3 DEF SaturatingSub
<1>7. need > 0 => Room(need) /\ need <= Round
  <2>1. protocol.genesis_minted <= held + Locked /\ round = Round
    BY DEF DrawInv, held, round
  <2> QED
    BY <1>2, <1>6, <2>1, DrawParts DEF Room
<1>8. ASSUME NEW u \in PendingDraws' PROVE u.outrun /\ u.amount <= Round
  <2>1. u \in Outrun(PendingDraws) /\ u.call = "mint"
    BY <1>1 DEF PendingDraws
  <2>2. u \notin sent \ PendingDraws
    BY <2>1 DEF PendingDraws
  <2>3. PICK t \in PendingDraws : u = [t EXCEPT !.outrun = TRUE]
    BY <2>1, <2>2 DEF Outrun
  <2>4. Posted(t) /\ t.amount <= Round
    BY <1>2, DrawParts DEF PendingDraws, DrawInv, DrawOut
  <2> QED
    BY <2>3, <2>4, OutrunFields
<1>9. main'.pc = "mint" => main'.draw = need /\ need > 0
  BY <1>1, <1>2, DrawParts DEF MainType, ReadWallet
<1>10. main'.pc = "mint" => main'.draw <= Round' /\ Room(main.draw)'
  <2>1. PICK n \in Nat : n = need
    BY <1>2
  <2>2. main'.pc = "mint" => Room(n)' /\ n <= Round'
    BY <1>4, <1>5, <1>7, <1>9, <2>1
  <2> QED
    BY <1>9, <2>1, <2>2 DEF Room
<1>11. \A t \in PendingDraws' : DrawOut(t)'
  BY <1>4, <1>8 DEF DrawOut
<1> QED
  BY <1>4, <1>5, <1>8, <1>10, <1>11 DEF DrawInv

\* The draw main() waits for is executed: nothing earlier is left that adds to it.
LEMMA DrawAcceptedDraws ==
  ASSUME DrawInv, SimInv', DrawAccepted
  PROVE  DrawInv'
<1>1. /\ main.pc = "mint" /\ Executes(Draw) /\ sent' = sent /\ late' = late
      /\ main' = [main EXCEPT !.pc = "register", !.draw = 0]
  BY DEF DrawAccepted
<1>2. SimInv /\ TypeOK /\ main.draw \in Nat /\ main \in MainType
  BY DrawParts DEF DrawInv
<1>3. PICK n \in Nat : n = main.draw
  BY <1>2
<1>4. MintGenesis(Wallet, n)
  BY <1>1, <1>3 DEF Executes, Draw
<1>5. /\ config' = config /\ Locked' = Locked
      /\ protocol'.genesis_minted = protocol.genesis_minted + n
      /\ wallet'[Wallet] = wallet[Wallet] + n
      /\ Round' = Round /\ Allowed' = Allowed
  BY <1>1, <1>2, <1>4, MintFunds, AllowedType
<1>6. protocol.genesis_minted <= wallet[Wallet] + Locked /\ Room(n)
  BY <1>1, <1>3 DEF DrawInv
<1>7. protocol'.genesis_minted <= wallet'[Wallet] + Locked' /\ Room(0)'
  BY <1>2, <1>5, <1>6, DrawParts DEF Room
<1>8. PendingDraws' = PendingDraws /\ \A t \in PendingDraws : t.outrun /\ DrawOut(t)
  BY <1>1 DEF PendingDraws, DrawInv
<1>9. \A t \in PendingDraws' : DrawOut(t)'
  BY <1>5, <1>8 DEF DrawOut
<1>10. main'.pc # "mint"
  BY <1>1, <1>2 DEF MainType
<1> QED
  BY <1>7, <1>8, <1>9, <1>10 DEF DrawInv

\* The process ends with a draw under way: the one that is not outrun.
LEMMA QuitDraws ==
  ASSUME DrawInv, SimInv', Quit
  PROVE  DrawInv'
<1>1. /\ UNCHANGED vars /\ late' = late
      /\ main' = [main EXCEPT !.pc = "exited", !.draw = 0]
      /\ sent' = sent \/ sent' = sent \cup Unanswered
  BY DEF Quit, Exit
<1>2. /\ SimInv /\ TypeOK /\ main \in MainType /\ PostInv /\ LoopsInv
      /\ faults \in Nat
  BY DrawParts DEF DrawInv, PostInv
<1>3. FundsKept
  BY <1>1, <1>2, RecordFunds
<1>4. main'.pc # "mint"
  BY <1>1, <1>2 DEF MainType
<1>5. ASSUME NEW r \in Routers, sim[r].pc \in Calls PROVE Request(r).call # "mint"
  BY <1>5, RequestFields DEF Calls, SettleSteps
<1>6. CASE main.pc # "mint" \/ sent' = sent
  <2>1. \A u \in sent' : u.call = "mint" => u \in sent
    BY <1>1, <1>5, <1>6 DEF Unanswered
  <2> QED
    BY <1>1, <1>3, <1>4, <2>1, KeptDraws
<1>7. CASE main.pc = "mint" /\ sent' = sent \cup Unanswered
  <2> DEFINE d == Draw
  <2>1. \A u \in PendingDraws' : u \in PendingDraws \/ u = d
    BY <1>5, <1>7 DEF PendingDraws, Unanswered
  <2>2. d.amount = main.draw /\ ~d.outrun
    BY DEF Draw
  <2>3. /\ main.draw <= Round /\ Room(main.draw) /\ \A t \in PendingDraws : t.outrun
        /\ \A t \in PendingDraws : DrawOut(t)
    BY <1>7 DEF DrawInv
  <2>4. DrawOut(d)
    BY <2>2, <2>3 DEF DrawOut
  <2> HIDE DEF d
  <2>5. /\ config' = config /\ protocol' = protocol /\ wallet' = wallet
        /\ Locked' = Locked /\ Round' = Round /\ Allowed' = Allowed
    BY <1>1, <1>2, AllowedType DEF vars, tokens, Locked
  <2>6. \A t \in PendingDraws' : DrawOut(t)'
    BY <2>1, <2>3, <2>4, <2>5 DEF DrawOut, Room
  <2>7. \A t \in PendingDraws', u \in PendingDraws' : ~t.outrun /\ ~u.outrun => t = u
    BY <2>1, <2>3
  <2>8. Room(0)' /\ protocol'.genesis_minted <= wallet'[Wallet] + Locked'
    BY <2>5 DEF DrawInv, Room
  <2> QED
    BY <1>4, <2>6, <2>7, <2>8 DEF DrawInv
<1> QED
  BY <1>1, <1>6, <1>7

\* A draw executed late is the one there is room for, or one the history counts.
LEMMA LandsDraws ==
  ASSUME DrawInv, SimInv', Lands
  PROVE  DrawInv'
<1>1. PICK t \in sent : /\ Executes(t) /\ sent' = sent \ {t} /\ late' = Counted(t)
                        /\ main' = main
  BY DEF Lands
<1>2. SimInv /\ TypeOK /\ Posted(t) /\ t.amount \in Nat /\ late \in LateType
  BY DrawParts DEF DrawInv
<1>3. CASE t.call # "mint"
  <2>1. \/ late' = late
        \/ late' = [late EXCEPT !.stakes[t.router] = @ + 1]
        \/ late' = [late EXCEPT !.keys = @ \cup {t.router}]
    BY <1>1, <1>3 DEF Counted
  <2>2. late'.draws = late.draws
    BY <1>2, <2>1 DEF LateType
  <2>3. FundsKept
    BY <1>1, <1>2, <1>3, ExecutesFunds
  <2> QED
    BY <1>1, <2>2, <2>3, KeptDraws
<1>4. CASE t.call = "mint"
  <2>1. PICK n \in Nat : n = t.amount
    BY <1>2
  <2>2. MintGenesis(Wallet, n) /\ t \in PendingDraws
    BY <1>1, <1>4, <2>1 DEF Executes, PendingDraws
  <2>3. /\ config' = config /\ Locked' = Locked
        /\ protocol'.genesis_minted = protocol.genesis_minted + n
        /\ wallet'[Wallet] = wallet[Wallet] + n
    BY <1>2, <2>2, MintFunds
  <2>4. DrawOut(t) /\ n <= Round /\ (t.outrun \/ Room(n))
    BY <2>1, <2>2 DEF DrawInv, DrawOut
  <2>5. /\ t.outrun => late'.draws = late.draws + 1
        /\ ~t.outrun => late'.draws = late.draws
    <3>1. t.outrun => late' = [late EXCEPT !.draws = @ + 1]
      BY <1>1, <1>4 DEF Counted
    <3>2. ~t.outrun => late' = late
      BY <1>1 DEF Counted
    <3> QED
      BY <1>2, <3>1, <3>2 DEF LateType
  <2>6. /\ Round' = Round
        /\ t.outrun => Allowed' = Allowed + Round
        /\ ~t.outrun => Allowed' = Allowed
    BY <1>2, <2>3, <2>5, AllowedType
  <2>7. /\ Round \in Nat /\ Allowed \in Nat /\ Locked \in Nat
        /\ protocol.genesis_minted \in Nat /\ wallet[Wallet] \in Nat
    BY <1>2, DrawParts
  \* Whatever else there was room for, there still is.
  <2>8. ASSUME NEW m \in Nat, Room(m), t.outrun PROVE Room(m)'
    BY <2>3, <2>4, <2>6, <2>7, <2>8 DEF Room
  <2>9. protocol'.genesis_minted <= wallet'[Wallet] + Locked'
    BY <2>3, <2>7 DEF DrawInv
  <2>10. Room(0)'
    <3>1. CASE t.outrun
      BY <2>8, <3>1 DEF DrawInv
    <3>2. CASE ~t.outrun
      BY <2>3, <2>4, <2>6, <2>7, <3>2 DEF Room
    <3> QED
      BY <3>1, <3>2
  <2>11. ASSUME NEW u \in PendingDraws' PROVE DrawOut(u)' /\ u \in PendingDraws
    <3>1. u \in PendingDraws /\ u # t /\ u.amount \in Nat
      BY <1>1, <1>2, DrawParts DEF PendingDraws
    <3>2. DrawOut(u) /\ (u.outrun \/ t.outrun)
      BY <2>2, <3>1 DEF DrawInv
    <3> QED
      BY <2>6, <2>8, <3>1, <3>2 DEF DrawOut
  <2>12. main'.pc = "mint" =>
           main'.draw <= Round' /\ Room(main.draw)' /\ \A u \in PendingDraws' : u.outrun
    <3> SUFFICES ASSUME main.pc = "mint"
                 PROVE  main'.draw <= Round' /\ Room(main.draw)' /\ \A u \in PendingDraws' : u.outrun
      BY <1>1
    <3>1. /\ main.draw <= Round /\ Room(main.draw) /\ \A u \in PendingDraws : u.outrun
          /\ main.draw \in Nat
      BY <1>2, DrawParts DEF DrawInv
    <3>2. PICK m \in Nat : m = main.draw
      BY <3>1
    <3>3. Room(m)'
      BY <2>2, <2>8, <3>1, <3>2
    <3> QED
      BY <1>1, <2>6, <2>11, <3>1, <3>2, <3>3 DEF Room
  <2> QED
    BY <2>9, <2>10, <2>11, <2>12 DEF DrawInv
<1> QED
  BY <1>3, <1>4

\* The steps of an instance touch no draw.
LEMMA InstanceDraws ==
  ASSUME DrawInv, SimInv', NEW r \in Routers, Start(r) \/ Turn(r) \/ GivenUp(r)
  PROVE  DrawInv'
<1>1. /\ SimInv /\ TypeOK /\ LoopsInv /\ faults \in Nat /\ main \in MainType
      /\ late \in LateType
  BY DrawParts DEF DrawInv, PostInv
<1>2. FundsKept
  <2>1. CASE Sends(r)
    <3>1. sim[r].pc \in Calls /\ Executes(Request(r))
      BY <2>1 DEF Sends
    <3>2. Posted(Request(r)) /\ Request(r).call # "mint"
      BY <1>1, <3>1, RequestPosted DEF Calls, SettleSteps
    <3> QED
      BY <1>1, <3>1, <3>2, ExecutesFunds
  <2> QED
    BY <1>1, <2>1, TurnSends, RecordFunds
<1>3. late'.draws = late.draws
  <2>1. late' = late \/ late' = [late EXCEPT !.keys = @ \ {r}]
    BY DEF Turn, Start, GivenUp, Lookup, ReadBalance, Compare, EnsureStaked, ReadClock,
       FinishLoop, LookBack, FetchEpoch, Accepted, Refused
  <2> QED
    BY <1>1, <2>1 DEF LateType
<1>4. main'.pc = "mint" => main.pc = "mint" /\ main'.draw = main.draw
  <2>1. main' = main \/ main' = [main EXCEPT !.pc = "exited", !.draw = 0]
    BY DEF Turn, Start, GivenUp, Throws, Exit, Lookup, ReadBalance, Compare, EnsureStaked,
       ReadClock, FinishLoop, LookBack, FetchEpoch, Accepted, Refused
  <2> QED
    BY <1>1, <2>1 DEF MainType
<1>5. ASSUME NEW u \in sent', u.call = "mint" PROVE u \in sent
  <2>1. ASSUME NEW c, c # "mint", u \in Outrun(Pending(c, r)) PROVE u \in sent
    <3>1. CASE \E t \in Pending(c, r) : u = [t EXCEPT !.outrun = TRUE]
      BY <1>1, <1>5, <2>1, <3>1, DrawParts, OutrunFields DEF Pending
    <3> QED
      BY <2>1, <3>1 DEF Outrun
  <2>2. sim[r].pc \in Calls => Request(r).call # "mint"
    BY RequestFields DEF Calls, SettleSteps
  <2>3. /\ Compare(r) => sent' = Outrun(Pending("rotate", r))
        /\ EnsureStaked(r) => sent' = Outrun(Pending("stake", r))
        /\ GivenUp(r) => sent' = sent \/ (sim[r].pc \in Calls /\ sent' = sent \cup {Request(r)})
    BY DEF Compare, EnsureStaked, GivenUp
  <2>4. ~Compare(r) /\ ~EnsureStaked(r) /\ ~GivenUp(r) => sent' = sent
    BY DEF Turn, Start, Lookup, ReadBalance, ReadClock, FinishLoop, LookBack, FetchEpoch,
       Accepted, Refused
  <2> HIDE DEF Compare, EnsureStaked, GivenUp
  <2> QED
    BY <1>5, <2>1, <2>2, <2>3, <2>4
<1> QED
  BY <1>2, <1>3, <1>4, <1>5, KeptDraws

LEMMA DrawInitially == SimInit => DrawInv
<1> SUFFICES ASSUME SimInit PROVE DrawInv
  OBVIOUS
<1>1. SimInv
  BY SimInitially
<1>2. protocol.genesis_minted = 0 /\ sent = {} /\ main.pc = "exited"
  BY DEF SimInit, NoProtocol
<1>3. Locked \in Nat /\ wallet[Wallet] \in Nat /\ Allowed \in Nat
  BY <1>1, DrawParts
<1>4. PendingDraws = {}
  BY <1>2 DEF PendingDraws
<1> QED
  BY <1>1, <1>2, <1>3, <1>4 DEF DrawInv, Room

LEMMA DrawPreserved == DrawInv /\ [SimNext]_allVars => DrawInv'
<1> SUFFICES ASSUME DrawInv, [SimNext]_allVars PROVE DrawInv'
  OBVIOUS
<1>1. SimInv /\ SimInv' /\ TypeOK /\ main \in MainType
  BY SimPreserved, DrawParts DEF DrawInv
<1>2. CASE Launch \/ RegisterNext \/ AllRegistered \/ StopAll \/ DrawRefused
  <2>1. UNCHANGED vars /\ late' = late /\ sent' = sent
    BY <1>2 DEF Launch, RegisterNext, AllRegistered, StopAll, DrawRefused
  <2>2. main'.pc # "mint"
    <3>1. /\ Launch => main'.pc = "top_up"
          /\ AllRegistered => main' = [main EXCEPT !.pc = "run"]
          /\ DrawRefused => main' = [main EXCEPT !.pc = "exited", !.draw = 0]
      BY DEF Launch, AllRegistered, DrawRefused, Exit
    <3>2. RegisterNext => main' = [main EXCEPT !.turn = @ + 1] /\ main.pc = "register"
      BY DEF RegisterNext
    <3>3. StopAll => main' = [main EXCEPT !.stopped = TRUE] /\ main.pc = "run"
      BY DEF StopAll
    <3> QED
      BY <1>1, <1>2, <3>1, <3>2, <3>3 DEF MainType
  <2>3. FundsKept
    BY <1>1, <2>1, RecordFunds
  <2> QED
    BY <1>1, <2>1, <2>2, <2>3, KeptDraws
<1>3. CASE Others \/ Punish \/ Clock \/ UNCHANGED allVars
  <2>1. UNCHANGED simVars
    BY <1>3 DEF Others, Punish, Clock, allVars
  <2>2. FundsKept
    BY <1>1, <1>3, RecordFunds, SlashFunds DEF Others, Punish, Clock, Keeper, allVars
  <2> QED
    BY <1>1, <2>1, <2>2, KeptDraws DEF simVars
<1>4. CASE Process
  BY <1>1, <1>2, <1>4, ReadWalletDraws, DrawAcceptedDraws, QuitDraws, InstanceDraws DEF Process
<1> QED
  BY <1>1, <1>3, <1>4, LandsDraws DEF SimNext

\* However often it is launched and whatever fails or is executed late, the simulator
\* draws no more than one round beyond what its routers hold or lost, and one round more
\* for each draw executed after the next launch read the wallet (index.ts:75-87).
THEOREM DrawBounded == SimSpec => []GenesisDrawBounded
<1>1. DrawInv => GenesisDrawBounded
  <2> SUFFICES ASSUME DrawInv PROVE GenesisDrawBounded
    OBVIOUS
  <2>1. Room(0) /\ TypeOK /\ protocol.genesis_minted \in Nat /\ Allowed \in Nat
    BY DrawParts DEF DrawInv
  <2>2. protocol.total_staked \in Nat /\ protocol.total_slashed \in Nat
    BY <2>1, FundsTypes
  <2> DEFINE allowed == Allowed
  <2>3. /\ allowed \in Nat
        /\ protocol.genesis_minted + 0 <= allowed + (protocol.total_staked + protocol.total_slashed)
    BY <2>1 DEF Room, Locked
  <2> HIDE DEF allowed
  <2>4. protocol.genesis_minted <= allowed + protocol.total_staked + protocol.total_slashed
    BY <2>1, <2>2, <2>3
  <2> QED
    BY <2>4, Zenon DEF allowed, Allowed, Round, GenesisDrawBounded
<1> QED
  BY <1>1, DrawInitially, DrawPreserved, PTL DEF SimSpec

----------------------------------------------------------------------------
(* The simulator is a client: whatever its calls meet, and however late they are *)
(* executed, all it does to the program is send it transactions, so the books of *)
(* the program balance under it.                                                 *)

LEMMA ExecutesTransaction ==
  ASSUME NEW t, Posted(t), Executes(t), t.call # "mint" => t.device \in DeviceKeys
  PROVE  [Transaction]_vars
<1> DEFINE r == t.router
           k == t.device
           e == t.epoch
           n == t.amount
<1>1. /\ n \in Nat
      /\ t.call # "mint" => r \in Routers /\ k \in DeviceKeys
      /\ t.call \in EpochCalls => e \in Epochs
  BY PostedFields
<1>2. \/ t.call = "fund" /\ UNCHANGED vars
      \/ t.call = "mint" /\ MintGenesis(Wallet, n)
      \/ t.call = "register" /\ RegisterRouter(r, k)
      \/ t.call = "rotate" /\ RotateDeviceKey(r, k)
      \/ t.call = "stake" /\ StakeCollateral(r, n)
      \/ t.call = "beat" /\ Heartbeat(k, r, e)
      \/ t.call = "finalize" /\ FinalizeRouterEpoch(r, e)
      \/ t.call = "slash" /\ SlashRouter(r, e)
      \/ t.call = "claim" /\ ClaimReward(r, e)
      \/ t.call = "vest" /\ ClaimVested(r, e)
  BY DEF Executes
<1> HIDE DEF r, k, e, n
<1>3. CASE t.call = "fund" /\ UNCHANGED vars
  BY <1>3
<1>4. CASE t.call = "mint" /\ MintGenesis(Wallet, n)
  BY <1>1, <1>4, SimulatorAssumption DEF Transaction, ByAuthority
<1>5. CASE \/ t.call = "register" /\ RegisterRouter(r, k)
           \/ t.call = "rotate" /\ RotateDeviceKey(r, k)
           \/ t.call = "stake" /\ StakeCollateral(r, n)
  BY <1>1, <1>5 DEF Transaction, ByOperator
<1>6. CASE t.call = "beat" /\ Heartbeat(k, r, e)
  BY <1>1, <1>6 DEF Transaction, ByOperator, EpochCalls
<1>7. CASE t.call \in EpochCalls /\ (FinalizeRouterEpoch(r, e) \/ SlashRouter(r, e)
                                      \/ ClaimReward(r, e) \/ ClaimVested(r, e))
  BY <1>1, <1>7 DEF Transaction, ByOperator, Keeper, EpochCalls
<1> QED
  BY <1>2, <1>3, <1>4, <1>5, <1>6, <1>7 DEF EpochCalls

LEMMA SendsTransaction ==
  ASSUME KeysInv, NEW r \in Routers, Sends(r)
  PROVE  [Transaction]_vars
<1>1. sim[r].pc \in Calls /\ Executes(Request(r)) /\ CrewInv(r, sim[r])
  BY CrewParts DEF Sends
<1>2. sim[r].device \in DeviceKeys
  BY <1>1 DEF CrewInv, Calls, SettleSteps
<1> QED
  BY <1>1, <1>2, KeysParts, RequestPosted, RequestFields, ExecutesTransaction

LEMMA SimTransaction == KeysInv /\ [SimNext]_allVars => [Transaction]_vars
<1> SUFFICES ASSUME KeysInv, [SimNext]_allVars PROVE [Transaction]_vars
  OBVIOUS
<1>1. CASE Executes(Draw)
  BY <1>1, KeysParts, DrawPosted, ExecutesTransaction
<1>2. CASE Process
  BY <1>1, <1>2, ProcessSends, SendsTransaction
<1>3. CASE Lands
  <2>1. PICK t \in sent : Executes(t)
    BY <1>3 DEF Lands
  <2> QED
    BY <2>1, KeysParts, ExecutesTransaction DEF Outstanding
<1>4. ASSUME Others \/ Punish \/ Clock PROVE [Transaction]_vars
  BY <1>4 DEF Others, Punish, Clock, Transaction, ByAuthority, Environment
<1>5. UNCHANGED allVars => UNCHANGED vars
  BY DEF allVars
<1> QED
  BY <1>2, <1>3, <1>4, <1>5 DEF SimNext

LEMMA SimService == SimInit => ServiceInv /\ Unused
<1> SUFFICES ASSUME SimInit PROVE ServiceInv /\ Unused
  OBVIOUS
<1>1. TypeOK
  BY SimInitially DEF SimInv, LoopsInv
<1>2. PICK c \in Configs :
        protocol = [NoProtocol EXCEPT !.initialized = TRUE,
          !.genesis_time = StartTime, !.reward_rate = c.reward_rate]
  BY DEF SimInit
<1>3. /\ protocol.initialized /\ protocol.genesis_time = StartTime
      /\ Counters(protocol) = <<0, 0, 0, 0, 0, 0>>
  BY <1>2 DEF NoProtocol, Counters
<1>4. now = StartTime /\ Unused
  BY DEF SimInit, Unused
<1>5. protocol.genesis_time <= now
  BY <1>3, <1>4, RouterPulseAssumption
<1> QED
  BY <1>1, <1>3, <1>4, <1>5, UnusedLedger, UnusedService DEF Undeployed

\* However the process runs, crashes and is launched again, all that is executed of what
\* it sent, at once or late, is one of the program's transactions, by a device it knows.
THEOREM SendsTransactions == SimSpec => [][Transaction]_vars
<1>1. KeysInv /\ [SimNext]_allVars => [Transaction]_vars
  BY SimTransaction
<1> QED
  BY <1>1, KeysInvariant, PTL DEF SimSpec

LEMMA ServiceUnderLoad == SimSpec => []ServiceInv
<1>1. SimInit => ServiceInv
  BY SimService
<1> QED
  BY <1>1, ServiceInductive, SendsTransactions, PTL DEF SimSpec

\* Under the simulator and every other keeper the vault covers the collateral, the
\* slashes are as fixed, the supply is accounted for and nobody blocks the crank.
THEOREM BooksUnderLoad ==
  SimSpec => [](VaultBacksStake /\ SlashedAsFixed /\ SupplyAccounted /\ NeverBlocked)
<1>1. ServiceInv => VaultBacksStake /\ SlashedAsFixed /\ SupplyAccounted
  BY DEF ServiceInv, LedgerInv
<1> QED
  BY <1>1, Unblocked, ServiceUnderLoad, PTL

\* Crashes, lost answers and restarts of the simulator change nothing in how rewards
\* are issued: under it, too, the program implements RewardIssuance.
THEOREM IssuanceUnderLoad == SimSpec => ImplementsIssuance
<1>1. SimInit => Issuance!Init
  BY SimService, IssuanceInit
<1>2. ServiceInv => ProgramInv
  BY ServiceParts
<1> QED
  BY <1>1, <1>2, IssuanceStep, ServiceUnderLoad, SendsTransactions, PTL
     DEF SimSpec, ImplementsIssuance, Issuance!Spec
=============================================================================
