-------------------------- MODULE RouterPulseLedger --------------------------
(***************************************************************************)
(* The ledgers of the on-chain program balance, for every choice of the    *)
(* constants: collateral, slashes, supply and grants.  LedgerInv is        *)
(* inductive; each of its sums changes by what one instruction moves.      *)
(***************************************************************************)
EXTENDS RouterPulseProofs

\* Before deployment the Protocol account is zeroed, so its counters agree with
\* sums over accounts that do not exist.
Undeployed == ~protocol.initialized => protocol = NoProtocol

\* A slash was fixed before it was executed: no later finalization resizes it.
SlashesSettled ==
  \A r \in Routers, e \in Epochs : repoch[r][e].slashed => repoch[r][e].finalized

\* Inductive.  The saturating subtractions on total_staked are exact because it
\* is the sum of the positions; a claim overwrites a vesting account that has
\* released nothing because ReleasedOnSchedule bounds it by an empty schedule.
LedgerInv ==
  /\ ProgramInv
  /\ Undeployed
  /\ SlashesSettled
  /\ VaultBacksStake
  /\ SlashedAsFixed
  /\ SupplyAccounted

TotalSlashed == SumOver(Routers, [r \in Routers |-> stake[r].total_slashed])

\* What an executed slash contributes to SlashesOf.
SlashOf(r, e) == IF repoch[r][e].slashed THEN repoch[r][e].slash_amount ELSE 0

----------------------------------------------------------------------------
(* The sums: naturals, and how one account changes them.                    *)

LEMMA PairsFinite == IsFiniteSet(Pairs)
  BY RouterPulseAssumption, FS_Product DEF Pairs

LEMMA StakeSums ==
  ASSUME TypeOK
  PROVE  /\ TotalStaked \in Nat /\ TotalSlashed \in Nat
         /\ \A r \in Routers : stake[r].amount \in Nat /\ stake[r].amount <= TotalStaked
<1> DEFINE f == [r \in Routers |-> stake[r].amount]
           g == [r \in Routers |-> stake[r].total_slashed]
<1>1. \A r \in Routers : f[r] \in Nat /\ g[r] \in Nat
  BY TypeParts DEF StakeType
<1>2. /\ SumFunctionOnSet(f, Routers) \in Nat
      /\ \A r \in Routers : f[r] <= SumFunctionOnSet(f, Routers)
      /\ SumFunctionOnSet(g, Routers) \in Nat
  <2> HIDE DEF f, g
  <2> QED
    BY <1>1, SumNat, RouterPulseAssumption
<1>3. TotalStaked = SumFunctionOnSet(f, Routers) /\ TotalSlashed = SumFunctionOnSet(g, Routers)
  BY DEF TotalStaked, TotalSlashed, SumOver
<1> QED
  BY <1>1, <1>2, <1>3

LEMMA StakeChange ==
  ASSUME TypeOK, TypeOK', NEW x \in Routers,
         \A r \in Routers \ {x} : stake'[r] = stake[r]
  PROVE  /\ TotalStaked' = TotalStaked + (stake'[x].amount - stake[x].amount)
         /\ TotalSlashed' = TotalSlashed + (stake'[x].total_slashed - stake[x].total_slashed)
<1> DEFINE f == [r \in Routers |-> stake[r].amount]
           g == [r \in Routers |-> stake[r].total_slashed]
<1>1. PICK p : p = f'
  OBVIOUS
<1>2. PICK q : q = g'
  OBVIOUS
<1>3. \A r \in Routers : f[r] \in Int /\ g[r] \in Int
  BY TypeParts DEF StakeType
<1>4. stake' \in [Routers -> StakeType]
  BY DEF TypeOK
<1>5. /\ p[x] \in Int /\ q[x] \in Int
      /\ p[x] = stake'[x].amount /\ q[x] = stake'[x].total_slashed
      /\ f[x] = stake[x].amount /\ g[x] = stake[x].total_slashed
      /\ \A r \in Routers \ {x} : p[r] = f[r] /\ q[r] = g[r]
  BY <1>1, <1>2, <1>4 DEF StakeType
<1>6. /\ TotalStaked = SumFunctionOnSet(f, Routers) /\ TotalSlashed = SumFunctionOnSet(g, Routers)
      /\ TotalStaked' = SumFunctionOnSet(p, Routers) /\ TotalSlashed' = SumFunctionOnSet(q, Routers)
  BY <1>1, <1>2 DEF TotalStaked, TotalSlashed, SumOver
<1> HIDE DEF f, g
<1>7. SumFunctionOnSet(p, Routers) = SumFunctionOnSet(f, Routers) + (p[x] - f[x])
  BY <1>3, <1>5, SumUpdate, RouterPulseAssumption
<1>8. SumFunctionOnSet(q, Routers) = SumFunctionOnSet(g, Routers) + (q[x] - g[x])
  BY <1>3, <1>5, SumUpdate, RouterPulseAssumption
<1> QED
  BY <1>5, <1>6, <1>7, <1>8

LEMMA WalletSum ==
  ASSUME TypeOK
  PROVE  TotalWallets \in Nat
<1>1. \A w \in Wallets : wallet[w] \in Nat
  BY TypeParts
<1> QED
  BY <1>1, SumNat, RouterPulseAssumption DEF TotalWallets, SumOver

LEMMA WalletChange ==
  ASSUME TypeOK, TypeOK', NEW x \in Wallets,
         \A w \in Wallets \ {x} : wallet'[w] = wallet[w]
  PROVE  TotalWallets' = TotalWallets + (wallet'[x] - wallet[x])
<1>1. \A w \in Wallets : wallet[w] \in Int
  BY TypeParts
<1>2. wallet'[x] \in Int
  BY DEF TypeOK
<1> QED
  BY <1>1, <1>2, SumUpdate, RouterPulseAssumption DEF TotalWallets, SumOver

LEMMA VestingSums ==
  ASSUME TypeOK
  PROVE  TotalGranted \in Nat /\ TotalReleased \in Nat
<1> DEFINE f == [p \in Pairs |-> vesting[p[1]][p[2]].total_amount]
           g == [p \in Pairs |-> vesting[p[1]][p[2]].claimed_amount]
<1>1. \A p \in Pairs : f[p] \in Nat /\ g[p] \in Nat
  BY TypeParts DEF VestingType, Pairs
<1>2. SumFunctionOnSet(f, Pairs) \in Nat /\ SumFunctionOnSet(g, Pairs) \in Nat
  <2> HIDE DEF f, g
  <2> QED
    BY <1>1, SumNat, PairsFinite
<1> QED
  BY <1>2 DEF TotalGranted, TotalReleased, SumOver

LEMMA VestingChange ==
  ASSUME TypeOK, TypeOK', NEW x \in Routers, NEW d \in Epochs,
         \A r \in Routers, e \in Epochs :
           r # x \/ e # d => vesting'[r][e] = vesting[r][e]
  PROVE  /\ TotalGranted' = TotalGranted
              + (vesting'[x][d].total_amount - vesting[x][d].total_amount)
         /\ TotalReleased' = TotalReleased
              + (vesting'[x][d].claimed_amount - vesting[x][d].claimed_amount)
<1> DEFINE f == [p \in Pairs |-> vesting[p[1]][p[2]].total_amount]
           g == [p \in Pairs |-> vesting[p[1]][p[2]].claimed_amount]
           y == <<x, d>>
<1>1. PICK p : p = f'
  OBVIOUS
<1>2. PICK q : q = g'
  OBVIOUS
<1>3. \A z \in Pairs : f[z] \in Int /\ g[z] \in Int
  BY TypeParts DEF VestingType, Pairs
<1>4. vesting' \in [Routers -> [Epochs -> VestingType]]
  BY DEF TypeOK
<1>5. /\ y \in Pairs
      /\ p[y] \in Int /\ q[y] \in Int
      /\ p[y] = vesting'[x][d].total_amount /\ q[y] = vesting'[x][d].claimed_amount
      /\ f[y] = vesting[x][d].total_amount /\ g[y] = vesting[x][d].claimed_amount
  BY <1>1, <1>2, <1>4 DEF VestingType, Pairs
<1>6. ASSUME NEW z \in Pairs \ {y} PROVE p[z] = f[z] /\ q[z] = g[z]
  <2>1. PICK r \in Routers, e \in Epochs : z = <<r, e>>
    BY DEF Pairs
  <2>2. r # x \/ e # d
    BY <2>1
  <2>3. vesting'[r][e] = vesting[r][e]
    BY <2>2
  <2> QED
    BY <1>1, <1>2, <2>1, <2>3
<1>7. /\ TotalGranted = SumFunctionOnSet(f, Pairs) /\ TotalReleased = SumFunctionOnSet(g, Pairs)
      /\ TotalGranted' = SumFunctionOnSet(p, Pairs) /\ TotalReleased' = SumFunctionOnSet(q, Pairs)
  BY <1>1, <1>2 DEF TotalGranted, TotalReleased, SumOver, Pairs
<1> HIDE DEF f, g, y
<1>8. SumFunctionOnSet(p, Pairs) = SumFunctionOnSet(f, Pairs) + (p[y] - f[y])
  BY <1>3, <1>5, <1>6, SumUpdate, PairsFinite
<1>9. SumFunctionOnSet(q, Pairs) = SumFunctionOnSet(g, Pairs) + (q[y] - g[y])
  BY <1>3, <1>5, <1>6, SumUpdate, PairsFinite
<1> QED
  BY <1>5, <1>7, <1>8, <1>9

LEMMA SlashSum ==
  ASSUME TypeOK, NEW x \in Routers
  PROVE  SlashesOf(x) \in Nat
<1> DEFINE f == [e \in Epochs |-> IF repoch[x][e].slashed THEN repoch[x][e].slash_amount ELSE 0]
<1>1. \A e \in Epochs : f[e] \in Nat
  BY TypeParts DEF RouterEpochType
<1> HIDE DEF f
<1>2. SumFunctionOnSet(f, Epochs) \in Nat
  BY <1>1, SumNat, RouterPulseAssumption
<1> QED
  BY <1>2 DEF f, SlashesOf, SumOver

LEMMA SlashSumSame ==
  ASSUME TypeOK, NEW x \in Routers, \A e \in Epochs : SlashOf(x, e)' = SlashOf(x, e)
  PROVE  SlashesOf(x)' = SlashesOf(x)
<1> DEFINE f == [e \in Epochs |-> SlashOf(x, e)]
<1>1. f' = f
  OBVIOUS
<1>2. SlashesOf(x) = SumFunctionOnSet(f, Epochs) /\ SlashesOf(x)' = SumFunctionOnSet(f', Epochs)
  BY DEF SlashesOf, SumOver, SlashOf
<1> QED
  BY <1>1, <1>2

LEMMA SlashSumChange ==
  ASSUME TypeOK, TypeOK', NEW x \in Routers, NEW d \in Epochs,
         \A e \in Epochs \ {d} : repoch'[x][e] = repoch[x][e]
  PROVE  SlashesOf(x)' = SlashesOf(x) + (SlashOf(x, d)' - SlashOf(x, d))
<1> DEFINE f == [e \in Epochs |-> IF repoch[x][e].slashed THEN repoch[x][e].slash_amount ELSE 0]
<1>1. PICK p : p = f'
  OBVIOUS
<1>2. repoch' \in [Routers -> [Epochs -> RouterEpochType]]
  BY DEF TypeOK
<1>3. \A e \in Epochs : f[e] \in Int
  BY TypeParts DEF RouterEpochType
<1>4. /\ p[d] \in Int /\ p[d] = SlashOf(x, d)' /\ f[d] = SlashOf(x, d)
      /\ \A e \in Epochs \ {d} : p[e] = f[e]
  BY <1>1, <1>2 DEF RouterEpochType, SlashOf
<1>5. SlashesOf(x) = SumFunctionOnSet(f, Epochs) /\ SlashesOf(x)' = SumFunctionOnSet(p, Epochs)
  BY <1>1 DEF SlashesOf, SumOver
<1>6. IsFiniteSet(Epochs)
  BY RouterPulseAssumption
<1> HIDE DEF f
<1>7. SumFunctionOnSet(p, Epochs) = SumFunctionOnSet(f, Epochs) + (p[d] - f[d])
  <2>1. p[d] \in Int /\ \A e \in Epochs \ {d} : p[e] = f[e]
    BY <1>4
  <2> QED
    BY <1>3, <1>6, <2>1, SumUpdate
<1> QED
  BY <1>4, <1>5, <1>7

----------------------------------------------------------------------------
(* What each instruction does to the ledgers.                               *)

\* The counters of the Protocol account.
Counters(p) == <<p.total_staked, p.total_slashed, p.total_rewards_distributed,
                 p.genesis_minted, p.total_minted, p.total_burned>>

Balanced == VaultBacksStake /\ SlashedAsFixed /\ SupplyAccounted

LEMMA LedgerParts ==
  ASSUME LedgerInv
  PROVE  /\ TypeOK /\ TypeOK /\ Balanced
         /\ vault \in Nat /\ treasury \in Nat
         /\ protocol.total_staked \in Nat /\ protocol.total_slashed \in Nat
         /\ protocol.total_rewards_distributed \in Nat /\ protocol.genesis_minted \in Nat
         /\ protocol.total_minted \in Nat /\ protocol.total_burned \in Nat
         /\ TotalStaked \in Nat /\ TotalSlashed \in Nat /\ TotalWallets \in Nat
         /\ TotalGranted \in Nat /\ TotalReleased \in Nat
         /\ \A r \in Routers : SlashesOf(r) \in Nat
<1>1. TypeOK /\ Balanced
  BY DEF LedgerInv, ProgramInv, Balanced
<1>2. protocol \in ProtocolType /\ vault \in Nat /\ treasury \in Nat
  BY <1>1, TypeParts
<1>3. \A r \in Routers : SlashesOf(r) \in Nat
  BY <1>1, SlashSum
<1> QED
  BY <1>1, <1>2, <1>3, StakeSums, WalletSum, VestingSums DEF ProtocolType

\* The balance in terms of the sums, before and after a step.
LEMMA BalancedMeans ==
  ASSUME Balanced
  PROVE  /\ vault >= TotalStaked
         /\ protocol.total_staked = TotalStaked
         /\ treasury + protocol.total_burned >= protocol.total_slashed
         /\ \A r \in Routers : stake[r].total_slashed <= SlashesOf(r)
         /\ protocol.total_slashed = TotalSlashed
         /\ protocol.total_rewards_distributed = TotalGranted
         /\ protocol.total_minted = protocol.genesis_minted + TotalReleased
         /\ protocol.genesis_minted <= config.genesis_allocation
         /\ vault + treasury + TotalWallets = protocol.total_minted - protocol.total_burned
  BY DEF Balanced, VaultBacksStake, SlashedAsFixed, SupplyAccounted, TotalSlashed

LEMMA BalancedAfter ==
  ASSUME vault' >= TotalStaked',
         protocol'.total_staked = TotalStaked',
         treasury' + protocol'.total_burned >= protocol'.total_slashed,
         \A r \in Routers : stake'[r].total_slashed <= SlashesOf(r)',
         protocol'.total_slashed = TotalSlashed',
         protocol'.total_rewards_distributed = TotalGranted',
         protocol'.total_minted = protocol'.genesis_minted + TotalReleased',
         protocol'.genesis_minted <= config'.genesis_allocation,
         vault' + treasury' + TotalWallets' = protocol'.total_minted - protocol'.total_burned
  PROVE  Balanced'
  BY DEF Balanced, VaultBacksStake, SlashedAsFixed, SupplyAccounted, TotalSlashed

\* Positions and the treasury side of the ledger stay when no position does.
LEMMA UnstakedSums ==
  ASSUME stake' = stake
  PROVE  TotalStaked' = TotalStaked /\ TotalSlashed' = TotalSlashed
  BY DEF TotalStaked, TotalSlashed, SumOver

LEMMA UngrantedSums ==
  ASSUME vesting' = vesting
  PROVE  TotalGranted' = TotalGranted /\ TotalReleased' = TotalReleased
  BY DEF TotalGranted, TotalReleased, SumOver, Pairs

LEMMA UnmovedWallets ==
  ASSUME wallet' = wallet
  PROVE  TotalWallets' = TotalWallets
  BY DEF TotalWallets, SumOver

LEMMA UnslashedSums ==
  ASSUME TypeOK, repoch' = repoch
  PROVE  \A r \in Routers : SlashesOf(r)' = SlashesOf(r)
  BY DEF SlashesOf, SumOver

\* An instruction that moves no tokens and records no debt.
LEMMA NothingMoved ==
  ASSUME LedgerInv, UNCHANGED <<config, stake, vesting, vault, treasury, wallet>>,
         Counters(protocol') = Counters(protocol),
         \A r \in Routers, e \in Epochs : SlashOf(r, e)' = SlashOf(r, e)
  PROVE  Balanced'
<1>1. \A r \in Routers : SlashesOf(r)' = SlashesOf(r)
  BY LedgerParts, SlashSumSame
<1> QED
  BY <1>1, LedgerParts, UnstakedSums, UngrantedSums, UnmovedWallets, BalancedMeans, BalancedAfter
     DEF Counters

LEMMA InitializeLedger ==
  ASSUME LedgerInv, NEW c \in Configs, InitializeProtocol(c)
  PROVE  Balanced'
<1>1. protocol = NoProtocol
  BY DEF LedgerInv, Undeployed, InitializeProtocol
<1>2. /\ UNCHANGED <<stake, vesting, repoch, vault, treasury, wallet>>
      /\ Counters(protocol') = Counters(protocol)
      /\ config' = c
      /\ protocol'.genesis_minted = 0
  BY <1>1 DEF InitializeProtocol, accounts, tokens, Counters, NoProtocol
<1>3. c.genesis_allocation \in Nat
  BY RouterPulseAssumption DEF ConfigType
<1>4. \A r \in Routers : SlashesOf(r)' = SlashesOf(r)
  BY <1>2, LedgerParts, UnslashedSums
<1>5. /\ protocol'.total_burned = protocol.total_burned
      /\ protocol'.total_staked = protocol.total_staked
      /\ protocol'.total_slashed = protocol.total_slashed
      /\ protocol'.total_rewards_distributed = protocol.total_rewards_distributed
      /\ protocol'.genesis_minted = protocol.genesis_minted
      /\ protocol'.total_minted = protocol.total_minted
  BY <1>2 DEF Counters
<1>6. protocol'.genesis_minted <= config'.genesis_allocation
  BY <1>2, <1>3
<1> QED
  BY <1>2, <1>4, <1>5, <1>6, LedgerParts, UnstakedSums, UngrantedSums, UnmovedWallets,
     BalancedMeans, BalancedAfter

LEMMA BurnTreasuryLedger ==
  ASSUME LedgerInv, NEW amount \in Nat, BurnTreasury(amount)
  PROVE  Balanced'
<1>1. protocol \in ProtocolType /\ amount \in Nat
  BY LedgerParts, TypeParts, RouterPulseAssumption
<1>2. /\ UNCHANGED <<config, stake, vesting, repoch, vault, wallet>>
      /\ treasury' = treasury - amount
      /\ protocol' = [protocol EXCEPT !.total_burned = @ + amount]
  BY DEF BurnTreasury, accounts
<1>3. /\ protocol'.total_burned = protocol.total_burned + amount
      /\ protocol'.total_staked = protocol.total_staked
      /\ protocol'.total_slashed = protocol.total_slashed
      /\ protocol'.total_rewards_distributed = protocol.total_rewards_distributed
      /\ protocol'.genesis_minted = protocol.genesis_minted
      /\ protocol'.total_minted = protocol.total_minted
  BY <1>1, <1>2 DEF ProtocolType
<1>4. \A r \in Routers : SlashesOf(r)' = SlashesOf(r)
  BY <1>2, LedgerParts, UnslashedSums
<1>5. /\ TotalStaked' = TotalStaked /\ TotalSlashed' = TotalSlashed
      /\ TotalGranted' = TotalGranted /\ TotalReleased' = TotalReleased
      /\ TotalWallets' = TotalWallets
  BY <1>2, UnstakedSums, UngrantedSums, UnmovedWallets
<1>6. /\ treasury' + protocol'.total_burned = treasury + protocol.total_burned
      /\ vault' + treasury' + TotalWallets' = protocol'.total_minted - protocol'.total_burned
  BY <1>1, <1>2, <1>3, <1>5, LedgerParts, BalancedMeans
<1>7. stake' = stake /\ vault' = vault /\ config' = config
  BY <1>2
<1> QED
  BY <1>3, <1>4, <1>5, <1>6, <1>7, LedgerParts, BalancedMeans, BalancedAfter

LEMMA MintGenesisLedger ==
  ASSUME LedgerInv, TypeOK', NEW w \in Wallets, NEW amount \in Nat,
         MintGenesis(w, amount)
  PROVE  Balanced'
<1>1. /\ protocol \in ProtocolType /\ amount \in Nat /\ wallet \in [Wallets -> Nat]
      /\ config.genesis_allocation \in Nat
  BY LedgerParts, TypeParts, RouterPulseAssumption DEF ConfigType
<1>2. /\ UNCHANGED <<config, stake, vesting, repoch, vault, treasury>>
      /\ wallet' = [wallet EXCEPT ![w] = @ + amount]
      /\ protocol' = [protocol EXCEPT !.genesis_minted = @ + amount,
                                      !.total_minted = @ + amount]
      /\ amount <= SaturatingSub(config.genesis_allocation, protocol.genesis_minted)
      /\ amount > 0
  BY DEF MintGenesis, accounts
<1>3. /\ protocol'.total_burned = protocol.total_burned
      /\ protocol'.total_staked = protocol.total_staked
      /\ protocol'.total_slashed = protocol.total_slashed
      /\ protocol'.total_rewards_distributed = protocol.total_rewards_distributed
      /\ protocol'.genesis_minted = protocol.genesis_minted + amount
      /\ protocol'.total_minted = protocol.total_minted + amount
  BY <1>1, <1>2 DEF ProtocolType
<1>4. \A r \in Routers : SlashesOf(r)' = SlashesOf(r)
  BY <1>2, LedgerParts, UnslashedSums
<1>5. TotalWallets' = TotalWallets + amount
  <2>1. wallet'[w] - wallet[w] = amount /\ \A x \in Wallets \ {w} : wallet'[x] = wallet[x]
    BY <1>1, <1>2
  <2> QED
    BY <2>1, LedgerParts, WalletChange
<1>6. protocol.genesis_minted + amount <= config.genesis_allocation
  BY <1>1, <1>2, LedgerParts DEF SaturatingSub
<1> QED
  BY <1>1, <1>2, <1>3, <1>4, <1>5, <1>6, LedgerParts, UnstakedSums, UngrantedSums,
     BalancedMeans, BalancedAfter

LEMMA HolderTransferLedger ==
  ASSUME LedgerInv, TypeOK', NEW w \in Wallets, NEW amount \in GiftAmounts,
         HolderTransfer(w, amount)
  PROVE  Balanced'
<1>1. /\ amount \in Nat /\ wallet \in [Wallets -> Nat] /\ TypeOK
  BY LedgerParts, TypeParts, RouterPulseAssumption
<1>2. UNCHANGED <<config, protocol, stake, vesting, repoch>>
  BY DEF HolderTransfer, accounts
<1>3. \A r \in Routers : SlashesOf(r)' = SlashesOf(r)
  BY <1>2, LedgerParts, UnslashedSums
<1>4. /\ vault' >= vault /\ treasury' >= treasury
      /\ vault' + treasury' + TotalWallets' = vault + treasury + TotalWallets
  <2>1. CASE /\ wallet' = [wallet EXCEPT ![w] = @ - amount]
             /\ \/ vault' = vault + amount /\ UNCHANGED treasury
                \/ treasury' = treasury + amount /\ UNCHANGED vault
    <3>1. wallet'[w] - wallet[w] = 0 - amount /\ \A x \in Wallets \ {w} : wallet'[x] = wallet[x]
      BY <1>1, <2>1
    <3>2. TotalWallets' = TotalWallets + (0 - amount)
      BY <1>1, <3>1, WalletChange
    <3> QED
      BY <1>1, <2>1, <3>2, LedgerParts
  <2>2. CASE \E x \in Wallets \ {w} :
               /\ wallet' = [wallet EXCEPT ![w] = @ - amount, ![x] = @ + amount]
               /\ UNCHANGED <<vault, treasury>>
    <3>1. PICK x \in Wallets \ {w} :
            /\ wallet' = [wallet EXCEPT ![w] = @ - amount, ![x] = @ + amount]
            /\ UNCHANGED <<vault, treasury>>
      BY <2>2
    <3>2. /\ wallet'[w] = wallet[w] - amount /\ wallet'[x] = wallet[x] + amount
          /\ \A y \in Wallets \ {w, x} : wallet'[y] = wallet[y]
          /\ wallet[w] \in Nat /\ wallet[x] \in Nat
      BY <1>1, <3>1
    <3> DEFINE mid == [wallet EXCEPT ![w] = @ - amount]
    <3>3. PICK m : m = mid
      OBVIOUS
    <3>4. /\ m[w] = wallet[w] - amount /\ m[x] = wallet[x]
          /\ m[w] \in Int /\ \A y \in Wallets : m[y] \in Int
          /\ \A y \in Wallets \ {w} : m[y] = wallet[y]
          /\ \A y \in Wallets \ {x} : wallet'[y] = m[y]
          /\ wallet'[x] \in Int /\ \A y \in Wallets : wallet[y] \in Int
      BY <1>1, <3>1, <3>3
    <3>5. IsFiniteSet(Wallets)
      BY RouterPulseAssumption
    <3>6. PICK t : t = wallet'
      OBVIOUS
    <3> HIDE DEF mid
    <3>7. SumFunctionOnSet(m, Wallets) = SumFunctionOnSet(wallet, Wallets) + (m[w] - wallet[w])
      BY <3>4, <3>5, SumUpdate
    <3>8. SumFunctionOnSet(t, Wallets) = SumFunctionOnSet(m, Wallets) + (t[x] - m[x])
      BY <3>4, <3>5, <3>6, SumUpdate
    <3>9. /\ TotalWallets = SumFunctionOnSet(wallet, Wallets)
          /\ TotalWallets' = SumFunctionOnSet(t, Wallets)
      BY <3>6 DEF TotalWallets, SumOver
    <3> QED
      BY <1>1, <3>1, <3>2, <3>4, <3>6, <3>7, <3>8, <3>9, LedgerParts
  <2> QED
    BY <2>1, <2>2 DEF HolderTransfer
<1> QED
  BY <1>2, <1>3, <1>4, TypeOK', LedgerParts, UnstakedSums, UngrantedSums,
     BalancedMeans, BalancedAfter DEF TypeOK

LEMMA StakeLedger ==
  ASSUME LedgerInv, TypeOK', NEW x \in Routers, NEW amount \in Nat,
         StakeCollateral(x, amount)
  PROVE  Balanced'
<1> DEFINE w == OwnerOf[x]
<1>1. /\ amount \in Nat /\ wallet \in [Wallets -> Nat] /\ TypeOK
      /\ protocol \in ProtocolType /\ stake \in [Routers -> StakeType]
      /\ w \in Wallets
  BY LedgerParts, TypeParts, RouterPulseAssumption
<1>2. /\ UNCHANGED <<config, vesting, repoch, treasury>>
      /\ wallet' = [wallet EXCEPT ![w] = @ - amount]
      /\ vault' = vault + amount
      /\ stake' = [stake EXCEPT ![x] =
           [stake[x] EXCEPT !.amount = stake[x].amount + amount,
                            !.locked_until = LockUntil(x),
                            !.created_at = IF @ = 0 THEN now ELSE @]]
      /\ protocol' = [protocol EXCEPT !.total_staked = @ + amount]
  BY DEF StakeCollateral
<1>3. /\ protocol'.total_burned = protocol.total_burned
      /\ protocol'.total_staked = protocol.total_staked + amount
      /\ protocol'.total_slashed = protocol.total_slashed
      /\ protocol'.total_rewards_distributed = protocol.total_rewards_distributed
      /\ protocol'.genesis_minted = protocol.genesis_minted
      /\ protocol'.total_minted = protocol.total_minted
  BY <1>1, <1>2 DEF ProtocolType
<1>4. /\ stake[x].amount \in Nat
      /\ stake'[x].amount - stake[x].amount = amount
      /\ \A r \in Routers : stake'[r].total_slashed = stake[r].total_slashed
      /\ stake'[x].total_slashed - stake[x].total_slashed = 0
      /\ \A r \in Routers \ {x} : stake'[r] = stake[r]
  BY <1>1, <1>2 DEF StakeType
<1>5. TotalStaked' = TotalStaked + amount /\ TotalSlashed' = TotalSlashed
  BY <1>1, <1>4, StakeChange, LedgerParts
<1>6. TotalWallets' = TotalWallets + (0 - amount)
  <2>1. wallet'[w] - wallet[w] = 0 - amount /\ \A y \in Wallets \ {w} : wallet'[y] = wallet[y]
    BY <1>1, <1>2
  <2> QED
    BY <1>1, <2>1, WalletChange
<1>7. \A r \in Routers : SlashesOf(r)' = SlashesOf(r)
  BY <1>1, <1>2, UnslashedSums
<1> QED
  BY <1>1, <1>2, <1>3, <1>4, <1>5, <1>6, <1>7, LedgerParts, UngrantedSums,
     BalancedMeans, BalancedAfter

LEMMA UnstakeLedger ==
  ASSUME LedgerInv, TypeOK', NEW x \in Routers, NEW amount \in Nat,
         Unstake(x, amount)
  PROVE  Balanced'
<1> DEFINE w == OwnerOf[x]
<1>1. /\ amount \in Nat /\ wallet \in [Wallets -> Nat] /\ TypeOK
      /\ protocol \in ProtocolType /\ stake \in [Routers -> StakeType]
      /\ w \in Wallets
  BY LedgerParts, TypeParts, RouterPulseAssumption
<1>2. /\ UNCHANGED <<config, vesting, repoch, treasury>>
      /\ wallet' = [wallet EXCEPT ![w] = @ + amount]
      /\ vault' = vault - amount
      /\ amount <= stake[x].amount
      /\ stake' = [stake EXCEPT ![x].amount = stake[x].amount - amount]
      /\ protocol' = [protocol EXCEPT !.total_staked = SaturatingSub(@, amount)]
  BY DEF Unstake
<1>3. stake[x].amount \in Nat /\ stake[x].amount <= TotalStaked
  BY <1>1, StakeSums
<1>4. SaturatingSub(protocol.total_staked, amount) = protocol.total_staked - amount
  BY <1>1, <1>2, <1>3, LedgerParts, BalancedMeans DEF SaturatingSub
<1>5. /\ protocol'.total_burned = protocol.total_burned
      /\ protocol'.total_staked = protocol.total_staked - amount
      /\ protocol'.total_slashed = protocol.total_slashed
      /\ protocol'.total_rewards_distributed = protocol.total_rewards_distributed
      /\ protocol'.genesis_minted = protocol.genesis_minted
      /\ protocol'.total_minted = protocol.total_minted
  BY <1>1, <1>2, <1>4 DEF ProtocolType
<1>6. /\ stake'[x].amount - stake[x].amount = 0 - amount
      /\ \A r \in Routers : stake'[r].total_slashed = stake[r].total_slashed
      /\ stake'[x].total_slashed - stake[x].total_slashed = 0
      /\ \A r \in Routers \ {x} : stake'[r] = stake[r]
  BY <1>1, <1>2, <1>3 DEF StakeType
<1>7. TotalStaked' = TotalStaked + (0 - amount) /\ TotalSlashed' = TotalSlashed
  BY <1>1, <1>6, StakeChange, LedgerParts
<1>8. TotalWallets' = TotalWallets + amount
  <2>1. wallet'[w] - wallet[w] = amount /\ \A y \in Wallets \ {w} : wallet'[y] = wallet[y]
    BY <1>1, <1>2
  <2> QED
    BY <1>1, <2>1, WalletChange
<1>9. \A r \in Routers : SlashesOf(r)' = SlashesOf(r)
  BY <1>1, <1>2, UnslashedSums
<1> QED
  BY <1>1, <1>2, <1>3, <1>5, <1>6, <1>7, <1>8, <1>9, LedgerParts, UngrantedSums,
     BalancedMeans, BalancedAfter

LEMMA SlashLedger ==
  ASSUME LedgerInv, TypeOK', NEW x \in Routers, NEW d \in Epochs, SlashRouter(x, d)
  PROVE  Balanced'
<1> DEFINE amount == SlashDue(x, d)
<1>1. /\ TypeOK /\ protocol \in ProtocolType /\ stake \in [Routers -> StakeType]
      /\ repoch \in [Routers -> [Epochs -> RouterEpochType]]
      /\ stake[x].amount \in Nat /\ repoch[x][d].slash_amount \in Nat
      /\ stake[x].total_slashed \in Nat
  BY LedgerParts, TypeParts DEF StakeType, RouterEpochType
<1>2. /\ amount \in Nat /\ amount <= stake[x].amount /\ amount <= repoch[x][d].slash_amount
      /\ stake[x].amount <= TotalStaked
      /\ SaturatingSub(stake[x].amount, amount) = stake[x].amount - amount
      /\ SaturatingSub(protocol.total_staked, amount) = protocol.total_staked - amount
  <2>1. amount \in Nat /\ amount <= stake[x].amount /\ amount <= repoch[x][d].slash_amount
    BY <1>1 DEF SlashDue, Lesser
  <2>2. stake[x].amount <= TotalStaked
    BY <1>1, StakeSums
  <2> HIDE DEF amount
  <2> QED
    BY <1>1, <2>1, <2>2, LedgerParts, BalancedMeans DEF SaturatingSub
<1>3. /\ UNCHANGED <<config, vesting, wallet>>
      /\ ~repoch[x][d].slashed
      /\ vault' = vault - amount /\ treasury' = treasury + amount
      /\ repoch' = [repoch EXCEPT ![x][d].slashed = TRUE]
      /\ stake' = [stake EXCEPT ![x] =
           [stake[x] EXCEPT !.amount = stake[x].amount - amount,
                            !.total_slashed = @ + amount]]
      /\ protocol' = [protocol EXCEPT !.total_staked = protocol.total_staked - amount,
                                      !.total_slashed = @ + amount]
  BY <1>2 DEF SlashRouter, MaySlash, SlashPending
<1> HIDE DEF amount
<1>4. /\ protocol'.total_burned = protocol.total_burned
      /\ protocol'.total_staked = protocol.total_staked - amount
      /\ protocol'.total_slashed = protocol.total_slashed + amount
      /\ protocol'.total_rewards_distributed = protocol.total_rewards_distributed
      /\ protocol'.genesis_minted = protocol.genesis_minted
      /\ protocol'.total_minted = protocol.total_minted
  BY <1>1, <1>3 DEF ProtocolType
<1>5. /\ stake'[x].amount - stake[x].amount = 0 - amount
      /\ stake'[x].total_slashed = stake[x].total_slashed + amount
      /\ stake'[x].total_slashed - stake[x].total_slashed = amount
      /\ \A r \in Routers \ {x} : stake'[r] = stake[r]
  BY <1>1, <1>2, <1>3 DEF StakeType
<1>6. TotalStaked' = TotalStaked + (0 - amount) /\ TotalSlashed' = TotalSlashed + amount
  BY <1>1, <1>5, StakeChange
<1>7. SlashesOf(x)' = SlashesOf(x) + repoch[x][d].slash_amount
  <2>1. /\ repoch'[x][d].slashed /\ repoch'[x][d].slash_amount = repoch[x][d].slash_amount
        /\ \A e \in Epochs \ {d} : repoch'[x][e] = repoch[x][e]
    BY <1>1, <1>3 DEF RouterEpochType
  <2>2. SlashOf(x, d)' = repoch[x][d].slash_amount /\ SlashOf(x, d) = 0
    BY <1>3, <2>1 DEF SlashOf
  <2>3. SlashesOf(x)' = SlashesOf(x) + (SlashOf(x, d)' - SlashOf(x, d))
    BY <1>1, <2>1, SlashSumChange
  <2>4. SlashesOf(x) \in Nat
    BY LedgerParts
  <2> QED
    BY <1>1, <2>2, <2>3, <2>4
<1>8. \A r \in Routers \ {x} : SlashesOf(r)' = SlashesOf(r)
  <2>1. \A r \in Routers \ {x} : repoch'[r] = repoch[r]
    BY <1>1, <1>3
  <2>2. \A r \in Routers \ {x}, e \in Epochs : SlashOf(r, e)' = SlashOf(r, e)
    BY <2>1 DEF SlashOf
  <2> QED
    BY <1>1, <2>2, SlashSumSame
<1>9. \A r \in Routers : stake'[r].total_slashed <= SlashesOf(r)'
  BY <1>1, <1>2, <1>5, <1>7, <1>8, LedgerParts, BalancedMeans
<1>10. /\ TotalWallets' = TotalWallets /\ config' = config
       /\ TotalGranted' = TotalGranted /\ TotalReleased' = TotalReleased
  BY <1>3, UngrantedSums, UnmovedWallets
<1>11. /\ vault' >= TotalStaked'
       /\ treasury' + protocol'.total_burned >= protocol'.total_slashed
       /\ vault' + treasury' = vault + treasury
  BY <1>2, <1>3, <1>4, <1>6, LedgerParts, BalancedMeans
<1>12. /\ protocol'.total_staked = TotalStaked' /\ protocol'.total_slashed = TotalSlashed'
       /\ protocol'.total_rewards_distributed = TotalGranted'
       /\ protocol'.total_minted = protocol'.genesis_minted + TotalReleased'
       /\ protocol'.genesis_minted <= config'.genesis_allocation
       /\ vault' + treasury' + TotalWallets' = protocol'.total_minted - protocol'.total_burned
  BY <1>2, <1>4, <1>6, <1>10, <1>11, LedgerParts, BalancedMeans
<1> QED
  BY <1>9, <1>11, <1>12, BalancedAfter

LEMMA ClaimRewardLedger ==
  ASSUME LedgerInv, TypeOK', NEW x \in Routers, NEW d \in Epochs, ClaimReward(x, d)
  PROVE  Balanced'
<1> DEFINE reward == repoch[x][d].reward_amount
<1>1. /\ TypeOK /\ protocol \in ProtocolType /\ reward \in Nat
      /\ repoch \in [Routers -> [Epochs -> RouterEpochType]]
      /\ vesting \in [Routers -> [Epochs -> VestingType]]
      /\ vesting[x][d] \in VestingType /\ now \in Nat
  BY LedgerParts, TypeParts DEF RouterEpochType
<1>2. /\ UNCHANGED <<config, stake, vault, treasury, wallet>>
      /\ vesting[x][d].total_amount = 0
      /\ repoch' = [repoch EXCEPT ![x][d] = ClaimRecorded(x, d)]
      /\ vesting' = [vesting EXCEPT ![x][d] =
           [total_amount |-> reward, claimed_amount |-> 0, start_time |-> now,
            cliff_duration |-> config.reward_cliff_duration,
            vesting_duration |-> config.reward_vesting_duration]]
      /\ protocol' = [protocol EXCEPT !.total_rewards_distributed = @ + reward]
  BY DEF ClaimReward, Granted, tokens
<1> HIDE DEF reward
<1>3. vesting[x][d].claimed_amount = 0
  <2>1. ProgramInv
    BY DEF LedgerInv
  <2> QED
    BY <1>2, <2>1, ReleasedBounded
<1>4. /\ protocol'.total_burned = protocol.total_burned
      /\ protocol'.total_staked = protocol.total_staked
      /\ protocol'.total_slashed = protocol.total_slashed
      /\ protocol'.total_rewards_distributed = protocol.total_rewards_distributed + reward
      /\ protocol'.genesis_minted = protocol.genesis_minted
      /\ protocol'.total_minted = protocol.total_minted
  BY <1>1, <1>2 DEF ProtocolType
<1>5. /\ vesting'[x][d].total_amount - vesting[x][d].total_amount = reward
      /\ vesting'[x][d].claimed_amount - vesting[x][d].claimed_amount = 0
      /\ \A r \in Routers, e \in Epochs : r # x \/ e # d => vesting'[r][e] = vesting[r][e]
  BY <1>1, <1>2, <1>3
<1>6. TotalGranted' = TotalGranted + reward /\ TotalReleased' = TotalReleased
  BY <1>1, <1>5, VestingChange, LedgerParts
<1>7. \A r \in Routers : SlashesOf(r)' = SlashesOf(r)
  <2>1. \A r \in Routers, e \in Epochs :
          /\ repoch'[r][e].slashed = repoch[r][e].slashed
          /\ repoch'[r][e].slash_amount = repoch[r][e].slash_amount
    BY <1>1, <1>2 DEF RouterEpochType, ClaimRecorded
  <2>2. \A r \in Routers, e \in Epochs : SlashOf(r, e)' = SlashOf(r, e)
    BY <2>1 DEF SlashOf
  <2> QED
    BY <1>1, <2>2, SlashSumSame
<1>8. /\ TotalWallets' = TotalWallets /\ config' = config /\ stake' = stake
      /\ vault' = vault /\ treasury' = treasury
      /\ TotalStaked' = TotalStaked /\ TotalSlashed' = TotalSlashed
  BY <1>2, UnstakedSums, UnmovedWallets
<1> QED
  BY <1>4, <1>6, <1>7, <1>8, LedgerParts, BalancedMeans, BalancedAfter

LEMMA ClaimVestedLedger ==
  ASSUME LedgerInv, TypeOK', NEW x \in Routers, NEW d \in Epochs, ClaimVested(x, d)
  PROVE  Balanced'
<1> DEFINE released == Releasable(vesting[x][d])
           w == OwnerOf[x]
<1>1. /\ TypeOK /\ protocol \in ProtocolType
      /\ vesting \in [Routers -> [Epochs -> VestingType]]
      /\ vesting[x][d] \in VestingType /\ now \in Nat
      /\ wallet \in [Wallets -> Nat] /\ w \in Wallets
  BY LedgerParts, TypeParts, RouterPulseAssumption
<1>2. released \in Nat
  <2>1. Vested(vesting[x][d], now) \in Nat /\ vesting[x][d].claimed_amount \in Nat
    BY <1>1, VestedType DEF VestingType
  <2> QED
    BY <2>1 DEF Releasable, SaturatingSub
<1>3. /\ UNCHANGED <<config, stake, repoch, vault, treasury>>
      /\ wallet' = [wallet EXCEPT ![w] = @ + released]
      /\ vesting' = [vesting EXCEPT ![x][d].claimed_amount = @ + released]
      /\ protocol' = [protocol EXCEPT !.total_minted = @ + released]
  BY DEF ClaimVested
<1> HIDE DEF released
<1>4. /\ protocol'.total_burned = protocol.total_burned
      /\ protocol'.total_staked = protocol.total_staked
      /\ protocol'.total_slashed = protocol.total_slashed
      /\ protocol'.total_rewards_distributed = protocol.total_rewards_distributed
      /\ protocol'.genesis_minted = protocol.genesis_minted
      /\ protocol'.total_minted = protocol.total_minted + released
  BY <1>1, <1>3 DEF ProtocolType
<1>5. /\ vesting'[x][d].total_amount - vesting[x][d].total_amount = 0
      /\ vesting'[x][d].claimed_amount - vesting[x][d].claimed_amount = released
      /\ \A r \in Routers, e \in Epochs : r # x \/ e # d => vesting'[r][e] = vesting[r][e]
  BY <1>1, <1>2, <1>3 DEF VestingType
<1>6. TotalGranted' = TotalGranted /\ TotalReleased' = TotalReleased + released
  BY <1>1, <1>5, VestingChange, LedgerParts
<1>7. TotalWallets' = TotalWallets + released
  <2>1. wallet'[w] - wallet[w] = released /\ \A y \in Wallets \ {w} : wallet'[y] = wallet[y]
    BY <1>1, <1>2, <1>3
  <2> QED
    BY <1>1, <2>1, WalletChange
<1>8. /\ \A r \in Routers : SlashesOf(r)' = SlashesOf(r)
      /\ TotalStaked' = TotalStaked /\ TotalSlashed' = TotalSlashed
      /\ config' = config /\ stake' = stake /\ vault' = vault /\ treasury' = treasury
  BY <1>1, <1>3, UnslashedSums, UnstakedSums
<1> QED
  BY <1>2, <1>4, <1>6, <1>7, <1>8, LedgerParts, BalancedMeans, BalancedAfter

----------------------------------------------------------------------------
(* Every step keeps the books.                                              *)

\* The instructions that only write identities, scores, records or switches.
LEMMA QuietLedger ==
  ASSUME LedgerInv,
         \/ UNCHANGED vars
         \/ \E x \in Routers, k \in DeviceKeys : RegisterRouter(x, k) \/ RotateDeviceKey(x, k)
         \/ \E x \in Routers : ApplyPenalty(x) \/ ReinstateRouter(x) \/ DecommissionRouter(x)
         \/ PauseProtocol \/ ResumeProtocol
         \/ \E rate \in Nat : UpdateRewardRate(rate)
         \/ \E d \in TickSteps : Tick(d)
  PROVE  Balanced'
<1>1. protocol \in ProtocolType
  BY LedgerParts, TypeParts
<1>2. UNCHANGED <<config, stake, repoch, vesting, vault, treasury, wallet>>
  BY DEF RegisterRouter, RotateDeviceKey, ApplyPenalty, ReinstateRouter, DecommissionRouter,
         PauseProtocol, ResumeProtocol, UpdateRewardRate, Tick, vars, accounts, tokens
<1>3. \/ protocol' = protocol
      \/ protocol' = [protocol EXCEPT !.total_routers = @ + 1]
      \/ \E b \in BOOLEAN : protocol' = [protocol EXCEPT !.is_paused = b]
      \/ \E rate \in Nat : protocol' = [protocol EXCEPT !.reward_rate = rate]
  BY DEF RegisterRouter, RotateDeviceKey, ApplyPenalty, ReinstateRouter, DecommissionRouter,
         PauseProtocol, ResumeProtocol, UpdateRewardRate, Tick, vars
<1>4. Counters(protocol') = Counters(protocol)
  BY <1>1, <1>3 DEF ProtocolType, Counters
<1>5. \A r \in Routers, e \in Epochs : SlashOf(r, e)' = SlashOf(r, e)
  BY <1>2 DEF SlashOf
<1> QED
  BY <1>2, <1>4, <1>5, NothingMoved

\* The record a heartbeat writes has never been slashed.
LEMMA UnslashedHeartbeat ==
  ASSUME TypeOK, SlashesSettled, AccountsInOrder, NEW x \in Routers, NEW d \in Epochs,
         NEW k \in DeviceKeys, Heartbeat(k, x, d)
  PROVE  ~repoch[x][d].slashed /\ ~repoch'[x][d].slashed
<1>0. /\ repoch \in [Routers -> [Epochs -> RouterEpochType]]
      /\ repoch[x][d] \in RouterEpochType
  BY TypeParts
<1>1. /\ ~OpenRouterEpoch(x, d).finalized
      /\ repoch'[x][d] = [OpenRouterEpoch(x, d) EXCEPT !.heartbeats = @ + 1]
  BY <1>0 DEF Heartbeat, MayHeartbeat, Unsettled
<1>2. CASE EpochOpened(x, d)
  BY <1>0, <1>1, <1>2 DEF OpenRouterEpoch, SlashesSettled, RouterEpochType
<1>3. CASE ~EpochOpened(x, d)
  <2>1. ~repoch[x][d].finalized
    BY <1>3 DEF AccountsInOrder
  <2>2. ~FreshRouterEpoch(d).slashed
    BY DEF FreshRouterEpoch, NoRouterEpoch
  <2>3. FreshRouterEpoch(d) \in RouterEpochType
    BY FreshRouterEpochType DEF Heartbeat, MayHeartbeat, Running
  <2> QED
    BY <1>0, <1>1, <1>3, <2>1, <2>2, <2>3 DEF OpenRouterEpoch, SlashesSettled, RouterEpochType
<1> QED
  BY <1>2, <1>3

\* A heartbeat opens no slashed record; finalization sizes only a record that was
\* never slashed.
LEMMA RecordLedger ==
  ASSUME LedgerInv, NEW x \in Routers, NEW d \in Epochs,
         (\E k \in DeviceKeys : Heartbeat(k, x, d)) \/ FinalizeRouterEpoch(x, d)
  PROVE  Balanced'
<1>1. /\ TypeOK /\ repoch \in [Routers -> [Epochs -> RouterEpochType]]
      /\ repoch[x][d] \in RouterEpochType /\ AccountsInOrder /\ SlashesSettled
  BY LedgerParts, TypeParts DEF LedgerInv, ProgramInv
<1>2. UNCHANGED <<config, protocol, stake, vesting, vault, treasury, wallet>>
  BY DEF Heartbeat, FinalizeRouterEpoch, tokens
<1>3. \A r \in Routers, e \in Epochs : r # x \/ e # d => repoch'[r][e] = repoch[r][e]
  BY <1>1 DEF Heartbeat, FinalizeRouterEpoch
<1>4. ~repoch[x][d].slashed /\ ~repoch'[x][d].slashed
  <2>1. CASE \E k \in DeviceKeys : Heartbeat(k, x, d)
    BY <1>1, <2>1, UnslashedHeartbeat
  <2>2. CASE FinalizeRouterEpoch(x, d)
    <3>1. ~repoch[x][d].slashed
      BY <1>1, <2>2 DEF FinalizeRouterEpoch, MayFinalize, Unsettled, SlashesSettled
    <3>2. repoch'[x][d].slashed = repoch[x][d].slashed
      BY <1>1, <2>2 DEF FinalizeRouterEpoch, RouterEpochType
    <3> QED
      BY <3>1, <3>2
  <2> QED
    BY <2>1, <2>2
<1>5. \A r \in Routers, e \in Epochs : SlashOf(r, e)' = SlashOf(r, e)
  BY <1>3, <1>4 DEF SlashOf
<1>6. Counters(protocol') = Counters(protocol)
  BY <1>2 DEF Counters
<1> QED
  BY <1>2, <1>5, <1>6, NothingMoved

\* One case per instruction.
LEMMA BalancedStep ==
  ASSUME LedgerInv, TypeOK', [Transaction]_vars
  PROVE  Balanced'
<1>1. ASSUME NEW x \in Routers, ByOperator(x) PROVE Balanced'
  BY <1>1, QuietLedger, RecordLedger, StakeLedger, UnstakeLedger, ClaimRewardLedger,
     ClaimVestedLedger DEF ByOperator
<1>2. ASSUME NEW x \in Routers, Keeper(x) PROVE Balanced'
  BY <1>2, RecordLedger, SlashLedger DEF Keeper
<1>3. ASSUME ByAuthority PROVE Balanced'
  <2>1. ASSUME PauseProtocol \/ ResumeProtocol \/ \E rate \in Nat : UpdateRewardRate(rate)
        PROVE  Balanced'
    BY <2>1, QuietLedger
  <2>2. ASSUME NEW x \in Routers, ApplyPenalty(x) \/ ReinstateRouter(x) \/ DecommissionRouter(x)
        PROVE  Balanced'
    BY <2>2, QuietLedger
  <2>3. ASSUME NEW c \in Configs, InitializeProtocol(c) PROVE Balanced'
    BY <2>3, InitializeLedger
  <2>4. ASSUME NEW w \in Wallets, NEW amount \in Nat, MintGenesis(w, amount)
        PROVE  Balanced'
    BY <2>4, MintGenesisLedger
  <2>5. ASSUME NEW amount \in Nat, BurnTreasury(amount) PROVE Balanced'
    BY <2>5, BurnTreasuryLedger
  <2> QED
    BY <1>3, <2>1, <2>2, <2>3, <2>4, <2>5 DEF ByAuthority
<1>4. ASSUME NEW d \in TickSteps, Tick(d) PROVE Balanced'
  BY <1>4, QuietLedger
<1>5. ASSUME NEW w \in Wallets, NEW amount \in GiftAmounts, HolderTransfer(w, amount)
      PROVE  Balanced'
  BY <1>5, HolderTransferLedger
<1>6. ASSUME UNCHANGED vars PROVE Balanced'
  BY <1>6, QuietLedger
<1> QED
  BY <1>1, <1>2, <1>3, <1>4, <1>5, <1>6 DEF Transaction, Environment

\* Only initialize_protocol runs against a zeroed Protocol account and writes it.
LEMMA UndeployedStep ==
  ASSUME LedgerInv, [Transaction]_vars
  PROVE  Undeployed'
<1>1. CASE protocol.initialized
  BY <1>1, LedgerParts, ClockStep DEF Undeployed
<1>2. CASE ~protocol.initialized
  <2>0. protocol = NoProtocol
    BY <1>2 DEF LedgerInv, Undeployed
  <2>1. ASSUME NEW x \in Routers, ByOperator(x) \/ Keeper(x) PROVE protocol' = protocol
    BY <1>2, <2>1 DEF ByOperator, Keeper, RegisterRouter, RotateDeviceKey, Heartbeat,
       MayHeartbeat, StakeCollateral, Unstake, ClaimReward, ClaimVested, FinalizeRouterEpoch,
       MayFinalize, SlashRouter, MaySlash, Running, KeeperMayRun
  <2>2. ASSUME ByAuthority PROVE protocol' = protocol \/ protocol'.initialized
    <3>1. ASSUME NEW c \in Configs, InitializeProtocol(c) PROVE protocol'.initialized
      BY <3>1 DEF InitializeProtocol, NoProtocol
    <3> QED
      BY <1>2, <2>2, <3>1 DEF ByAuthority, MintGenesis, BurnTreasury, PauseProtocol,
         ResumeProtocol, UpdateRewardRate, ApplyPenalty, ReinstateRouter, DecommissionRouter,
         Running
  <2>3. ASSUME Environment \/ UNCHANGED vars PROVE protocol' = protocol
    BY <2>3 DEF Environment, Tick, HolderTransfer, vars
  <2>4. protocol' = protocol \/ protocol'.initialized
    BY <2>1, <2>2, <2>3 DEF Transaction
  <2> QED
    BY <2>0, <2>4 DEF Undeployed
<1> QED
  BY <1>1, <1>2

LEMMA SlashesSettledStep ==
  ASSUME LedgerInv, [Transaction]_vars
  PROVE  SlashesSettled'
<1>0. /\ TypeOK /\ repoch \in [Routers -> [Epochs -> RouterEpochType]]
      /\ SlashesSettled /\ AccountsInOrder
  BY LedgerParts, TypeParts DEF LedgerInv, ProgramInv
<1> SUFFICES ASSUME NEW x \in Routers, NEW d \in Epochs
             PROVE  repoch'[x][d].slashed => repoch'[x][d].finalized
  BY DEF SlashesSettled
<1>1. repoch[x][d] \in RouterEpochType /\ repoch[x][d].slashed => repoch[x][d].finalized
  BY <1>0 DEF SlashesSettled
<1>2. ASSUME NEW k \in DeviceKeys, Heartbeat(k, x, d)
      PROVE  ~repoch'[x][d].slashed
  BY <1>0, <1>2, UnslashedHeartbeat
<1>3. ASSUME FinalizeRouterEpoch(x, d) PROVE repoch'[x][d].finalized
  BY <1>0, <1>3 DEF FinalizeRouterEpoch, RouterEpochType
<1>4. ASSUME ClaimReward(x, d) \/ SlashRouter(x, d) PROVE repoch'[x][d].finalized
  BY <1>0, <1>4 DEF ClaimReward, ClaimRecorded, SlashRouter, MaySlash, SlashPending, RouterEpochType
<1> QED
  BY <1>0, <1>1, <1>2, <1>3, <1>4, EpochStep

LEMMA UnusedLedger ==
  ASSUME TypeOK, Unused, Undeployed, Counters(protocol) = <<0, 0, 0, 0, 0, 0>>,
         protocol.initialized => protocol.genesis_time <= now
  PROVE  LedgerInv
<1>1. ProgramInv
  BY UnusedInv
<1>2. TypeOK
  BY <1>1 DEF ProgramInv
<1>3. Undeployed /\ SlashesSettled
  BY DEF Unused, SlashesSettled, NoRouterEpoch
<1>4. /\ \A r \in Routers : stake[r].amount = 0 /\ stake[r].total_slashed = 0
      /\ \A p \in Pairs : vesting[p[1]][p[2]].total_amount = 0
                          /\ vesting[p[1]][p[2]].claimed_amount = 0
      /\ \A w \in Wallets : wallet[w] = 0
      /\ vault = 0 /\ treasury = 0
      /\ protocol.total_staked = 0 /\ protocol.total_slashed = 0
      /\ protocol.total_rewards_distributed = 0 /\ protocol.genesis_minted = 0
      /\ protocol.total_minted = 0 /\ protocol.total_burned = 0
      /\ config.genesis_allocation \in Nat
  BY <1>2, TypeParts DEF Unused, NoStake, NoVesting, Counters, Pairs, ConfigType
<1>5. TotalStaked = 0 /\ TotalSlashed = 0
  <2> DEFINE f == [r \in Routers |-> stake[r].amount]
             g == [r \in Routers |-> stake[r].total_slashed]
  <2>1. \A r \in Routers : f[r] = 0 /\ g[r] = 0
    BY <1>4
  <2> HIDE DEF f, g
  <2>2. SumFunctionOnSet(f, Routers) = 0 /\ SumFunctionOnSet(g, Routers) = 0
    BY <2>1, SumOfNone, RouterPulseAssumption
  <2> QED
    BY <2>2 DEF f, g, TotalStaked, TotalSlashed, SumOver
<1>6. TotalGranted = 0 /\ TotalReleased = 0
  <2> DEFINE f == [p \in Pairs |-> vesting[p[1]][p[2]].total_amount]
             g == [p \in Pairs |-> vesting[p[1]][p[2]].claimed_amount]
  <2>1. \A p \in Pairs : f[p] = 0 /\ g[p] = 0
    BY <1>4
  <2> HIDE DEF f, g
  <2>2. SumFunctionOnSet(f, Pairs) = 0 /\ SumFunctionOnSet(g, Pairs) = 0
    BY <2>1, SumOfNone, PairsFinite
  <2> QED
    BY <2>2 DEF f, g, TotalGranted, TotalReleased, SumOver
<1>7. TotalWallets = 0
  BY <1>4, SumOfNone, RouterPulseAssumption DEF TotalWallets, SumOver
<1>8. \A r \in Routers : SlashesOf(r) \in Nat
  BY <1>2, SlashSum
<1>9. VaultBacksStake /\ SlashedAsFixed /\ SupplyAccounted
  BY <1>4, <1>5, <1>6, <1>7, <1>8
     DEF VaultBacksStake, SlashedAsFixed, SupplyAccounted, TotalSlashed
<1> QED
  BY <1>1, <1>3, <1>9 DEF LedgerInv

LEMMA InitLedger == Init => LedgerInv
<1> SUFFICES ASSUME Init PROVE LedgerInv
  OBVIOUS
<1>1. TypeOK /\ Unused /\ Undeployed
  BY InitType DEF Init, Unused, Undeployed
<1>2. ~protocol.initialized /\ Counters(protocol) = <<0, 0, 0, 0, 0, 0>>
  BY DEF Init, NoProtocol, Counters
<1> QED
  BY <1>1, <1>2, UnusedLedger

\* No instruction, in any order, puts the books out of balance.
THEOREM LedgerInductive == LedgerInv /\ [Transaction]_vars => LedgerInv'
<1> SUFFICES ASSUME LedgerInv, [Transaction]_vars PROVE LedgerInv'
  OBVIOUS
<1>1. ProgramInv'
  BY InvInductive DEF LedgerInv
<1>2. TypeOK'
  BY <1>1 DEF ProgramInv
<1> QED
  BY <1>1, <1>2, BalancedStep, UndeployedStep, SlashesSettledStep DEF LedgerInv, Balanced

\* The strengthened balance holds throughout.
THEOREM LedgerHolds == Spec => []LedgerInv
  BY InitLedger, LedgerInductive, StepSends, PTL DEF Spec

\* VaultBacksStake: the shared vault covers every operator's collateral, the total
\* is the exact sum of the positions, and no slashed token is lost.
THEOREM VaultSafe == Spec => []VaultBacksStake
<1>1. LedgerInv => VaultBacksStake
  BY DEF LedgerInv
<1> QED
  BY <1>1, LedgerHolds, PTL

\* SlashedAsFixed: no router loses more than its finalized epochs fixed, and the
\* protocol's total is the sum over the routers.
THEOREM SlashSafe == Spec => []SlashedAsFixed
<1>1. LedgerInv => SlashedAsFixed
  BY DEF LedgerInv
<1> QED
  BY <1>1, LedgerHolds, PTL

\* SupplyAccounted: every token in circulation was minted by genesis distribution
\* or a vested claim, and the counters say how much of each.
THEOREM SupplySafe == Spec => []SupplyAccounted
<1>1. LedgerInv => SupplyAccounted
  BY DEF LedgerInv
<1> QED
  BY <1>1, LedgerHolds, PTL
----------------------------------------------------------------------------
(* Nobody can block the crank: what the checked additions and the account   *)
(* constraints of finalization, slashing and penalties can still refuse.    *)

\* A position is an account, and with a minimum set no record opens without one.
CollateralTaken ==
  \A r \in Routers :
    /\ stake[r].amount > 0 => StakeExists(r)
    /\ \A e \in Epochs : EpochOpened(r, e) /\ config.min_stake > 0 => StakeExists(r)

\* What a router has earned and lost was paid by the protocol or taken from its
\* collateral.
EarningsCovered ==
  \A r \in Routers :
    /\ router[r].total_rewards <= protocol.total_rewards_distributed
    /\ router[r].total_rewards + router[r].total_penalties
         <= protocol.total_rewards_distributed + stake[r].total_slashed

\* Budgets and supply were stored, so they are u64 values.
StoredFit ==
  /\ Fits(protocol.total_minted)
  /\ \A e \in Epochs : Fits(emission[e].total_emission)

\* Nobody registers before deployment.
DeployedFirst == \A r \in Routers : router[r].exists => protocol.initialized

ServiceInv == LedgerInv /\ CollateralTaken /\ EarningsCovered /\ StoredFit /\ DeployedFirst

LEMMA ServiceParts ==
  ASSUME ServiceInv
  PROVE  /\ LedgerInv /\ CollateralTaken /\ EarningsCovered /\ StoredFit /\ DeployedFirst
         /\ ProgramInv /\ TypeOK
         /\ protocol.total_rewards_distributed \in Nat /\ protocol.total_minted \in Nat
         /\ \A r \in Routers :
              /\ router[r].total_rewards \in Nat /\ router[r].total_penalties \in Nat
              /\ stake[r].total_slashed \in Nat /\ stake[r].amount \in Nat
<1>1. LedgerInv /\ ProgramInv /\ TypeOK
  BY DEF ServiceInv, LedgerInv, ProgramInv
<1>2. \A r \in Routers : router[r] \in RouterType /\ stake[r] \in StakeType
  BY <1>1, TypeParts
<1>3. protocol \in ProtocolType
  BY <1>1, TypeParts
<1> QED
  BY <1>1, <1>2, <1>3 DEF ServiceInv, RouterType, StakeType, ProtocolType

\* The totals of the Protocol account only grow, and supply is only stored when it
\* fits; deployment writes the zeroes that were there.
LEMMA TotalsStep ==
  ASSUME LedgerInv, [Transaction]_vars
  PROVE  /\ protocol'.total_rewards_distributed >= protocol.total_rewards_distributed
         /\ \/ protocol'.total_minted = protocol.total_minted
            \/ Fits(protocol'.total_minted)
<1> DEFINE Grow == /\ protocol'.total_rewards_distributed >= protocol.total_rewards_distributed
                   /\ \/ protocol'.total_minted = protocol.total_minted
                      \/ Fits(protocol'.total_minted)
<1>0. /\ TypeOK /\ protocol \in ProtocolType
      /\ protocol.total_rewards_distributed \in Nat /\ protocol.total_minted \in Nat
  BY LedgerParts, TypeParts
<1>1. ASSUME NEW r \in Routers, ByOperator(r) PROVE Grow
  <2>1. ASSUME NEW k \in DeviceKeys, RegisterRouter(r, k) \/ RotateDeviceKey(r, k) PROVE Grow
    BY <1>0, <2>1 DEF RegisterRouter, RotateDeviceKey, ProtocolType
  <2>2. ASSUME NEW k \in DeviceKeys, NEW e \in Epochs, Heartbeat(k, r, e) PROVE Grow
    BY <1>0, <2>2 DEF Heartbeat
  <2>3. ASSUME NEW amount \in Nat, StakeCollateral(r, amount) \/ Unstake(r, amount) PROVE Grow
    BY <1>0, <2>3 DEF StakeCollateral, Unstake, ProtocolType
  <2>4. ASSUME NEW e \in Epochs, ClaimReward(r, e) PROVE Grow
    <3>1. protocol' = [protocol EXCEPT !.total_rewards_distributed
                                         = @ + repoch[r][e].reward_amount]
      BY <2>4 DEF ClaimReward
    <3>2. repoch[r][e].reward_amount \in Nat
      BY <1>0, TypeParts DEF RouterEpochType
    <3> QED
      BY <1>0, <3>1, <3>2 DEF ProtocolType
  <2>5. ASSUME NEW e \in Epochs, ClaimVested(r, e) PROVE Grow
    <3> DEFINE released == Releasable(vesting[r][e])
    <3>1. /\ protocol' = [protocol EXCEPT !.total_minted = @ + released]
          /\ Fits(protocol.total_minted + released)
      BY <2>5 DEF ClaimVested
    <3> HIDE DEF released
    <3> QED
      BY <1>0, <3>1 DEF ProtocolType
  <2> QED
    BY <1>1, <2>1, <2>2, <2>3, <2>4, <2>5 DEF ByOperator
<1>2. ASSUME NEW r \in Routers, Keeper(r) PROVE Grow
  <2>1. ASSUME NEW e \in Epochs, FinalizeRouterEpoch(r, e) PROVE Grow
    BY <1>0, <2>1 DEF FinalizeRouterEpoch
  <2>2. ASSUME NEW e \in Epochs, SlashRouter(r, e) PROVE Grow
    <3> DEFINE a == SaturatingSub(protocol.total_staked, SlashDue(r, e))
               b == protocol.total_slashed + SlashDue(r, e)
    <3>1. protocol' = [protocol EXCEPT !.total_staked = a, !.total_slashed = b]
      BY <2>2 DEF SlashRouter
    <3> HIDE DEF a, b
    <3> QED
      BY <1>0, <3>1 DEF ProtocolType
  <2> QED
    BY <1>2, <2>1, <2>2 DEF Keeper
<1>3. ASSUME ByAuthority PROVE Grow
  <2>1. ASSUME NEW c \in Configs, InitializeProtocol(c) PROVE Grow
    <3>1. protocol = NoProtocol
      BY <2>1 DEF LedgerInv, Undeployed, InitializeProtocol
    <3> QED
      BY <1>0, <2>1, <3>1 DEF InitializeProtocol, NoProtocol
  <2>2. ASSUME NEW w \in Wallets, NEW amount \in Nat, MintGenesis(w, amount) PROVE Grow
    BY <1>0, <2>2 DEF MintGenesis, ProtocolType
  <2>3. ASSUME NEW amount \in Nat, BurnTreasury(amount) PROVE Grow
    BY <1>0, <2>3 DEF BurnTreasury, ProtocolType
  <2>4. ASSUME PauseProtocol \/ ResumeProtocol \/ \E rate \in Nat : UpdateRewardRate(rate)
        PROVE  Grow
    BY <1>0, <2>4 DEF PauseProtocol, ResumeProtocol, UpdateRewardRate, ProtocolType
  <2>5. ASSUME NEW r \in Routers, ApplyPenalty(r) \/ ReinstateRouter(r) \/ DecommissionRouter(r)
        PROVE  Grow
    BY <1>0, <2>5 DEF ApplyPenalty, ReinstateRouter, DecommissionRouter
  <2> QED
    BY <1>3, <2>1, <2>2, <2>3, <2>4, <2>5 DEF ByAuthority
<1>4. ASSUME Environment \/ UNCHANGED vars PROVE Grow
  BY <1>0, <1>4 DEF Environment, Tick, HolderTransfer, vars
<1> QED
  BY <1>1, <1>2, <1>3, <1>4 DEF Transaction

\* A position once opened stays an account, and its slashed total only grows.
LEMMA PositionStep ==
  ASSUME ServiceInv, [Transaction]_vars, NEW x \in Routers
  PROVE  /\ StakeExists(x) => StakeExists(x)'
         /\ stake'[x].amount > 0 => StakeExists(x)'
         /\ stake'[x].total_slashed >= stake[x].total_slashed
<1> DEFINE Kept == /\ stake[x].created_at # 0 => stake'[x].created_at # 0
                   /\ stake'[x].amount > 0 => stake'[x].created_at # 0
                   /\ stake'[x].total_slashed >= stake[x].total_slashed
<1>0. /\ TypeOK /\ now # 0 /\ stake \in [Routers -> StakeType]
      /\ stake[x] \in StakeType /\ repoch \in [Routers -> [Epochs -> RouterEpochType]]
      /\ stake[x].total_slashed \in Nat /\ stake[x].amount \in Nat
      /\ stake[x].amount > 0 => stake[x].created_at # 0
  BY ServiceParts, TypeParts DEF CollateralTaken, StakeExists
<1>1. ASSUME stake'[x] = stake[x] PROVE Kept
  BY <1>0, <1>1
<1>2. ASSUME NEW amount \in Nat, StakeCollateral(x, amount) PROVE Kept
  <2> DEFINE total == stake[x].amount + amount
             lock == LockUntil(x)
             created == IF stake[x].created_at = 0 THEN now ELSE stake[x].created_at
  <2>1. stake' = [stake EXCEPT ![x] = [stake[x] EXCEPT
                    !.amount = total, !.locked_until = lock, !.created_at = created]]
    BY <1>2 DEF StakeCollateral
  <2>2. created # 0
    BY <1>0
  <2> HIDE DEF total, lock, created
  <2>3. stake'[x].created_at = created /\ stake'[x].total_slashed = stake[x].total_slashed
    BY <1>0, <2>1 DEF StakeType
  <2> QED
    BY <1>0, <2>2, <2>3
<1>3. ASSUME NEW amount \in Nat, Unstake(x, amount) PROVE Kept
  <2> DEFINE left == stake[x].amount - amount
  <2>1. stake' = [stake EXCEPT ![x] = [stake[x] EXCEPT !.amount = left]]
        /\ stake[x].created_at # 0
    BY <1>3 DEF Unstake, StakeExists
  <2> HIDE DEF left
  <2>2. /\ stake'[x].created_at = stake[x].created_at
        /\ stake'[x].total_slashed = stake[x].total_slashed
    BY <1>0, <2>1 DEF StakeType
  <2> QED
    BY <1>0, <2>1, <2>2
<1>4. ASSUME NEW e \in Epochs, SlashRouter(x, e) PROVE Kept
  <2> DEFINE due == SlashDue(x, e)
             left == SaturatingSub(stake[x].amount, due)
             slashed == stake[x].total_slashed + due
  <2>1. /\ stake' = [stake EXCEPT ![x] = [stake[x] EXCEPT !.amount = left,
                                                          !.total_slashed = slashed]]
        /\ stake[x].created_at # 0
    BY <1>4 DEF SlashRouter, MaySlash, StakeExists
  <2>2. due \in Nat
    BY <1>0 DEF SlashDue, Lesser, RouterEpochType
  <2> HIDE DEF due
  <2>3. slashed >= stake[x].total_slashed
    BY <1>0, <2>2
  <2> HIDE DEF left, slashed
  <2>4. stake'[x].created_at = stake[x].created_at /\ stake'[x].total_slashed = slashed
    BY <1>0, <2>1 DEF StakeType
  <2> QED
    BY <1>0, <2>1, <2>3, <2>4
<1>5. Kept
  BY <1>0, <1>1, <1>2, <1>3, <1>4, StakeStep
<1> QED
  BY <1>5 DEF StakeExists

LEMMA CollateralStep ==
  ASSUME ServiceInv, [Transaction]_vars
  PROVE  CollateralTaken'
<1>0. /\ TypeOK /\ ProgramInv /\ AccountsInOrder /\ MirrorInSync /\ CollateralTaken
      /\ repoch \in [Routers -> [Epochs -> RouterEpochType]]
  BY ServiceParts, TypeParts, InvParts
<1> SUFFICES ASSUME NEW x \in Routers, NEW f \in Epochs, EpochOpened(x, f)',
                    config'.min_stake > 0
             PROVE  StakeExists(x)'
  BY PositionStep DEF CollateralTaken
<1>1. CASE \E k \in DeviceKeys : Heartbeat(k, x, f)
  <2>1. /\ stake[x].amount >= config.min_stake /\ config' = config
        /\ stake[x].amount \in Nat /\ config.min_stake \in Nat
    BY <1>0, <1>1, ServiceParts, TypeParts DEF Heartbeat, MayHeartbeat, MirrorInSync, ConfigType
  <2>2. stake[x].amount > 0
    BY <2>1
  <2> QED
    BY <1>0, <2>2, PositionStep DEF CollateralTaken
<1>2. CASE \/ repoch'[x][f] = repoch[x][f]
           \/ FinalizeRouterEpoch(x, f) \/ ClaimReward(x, f) \/ SlashRouter(x, f)
  <2>1. repoch'[x][f].expected_heartbeats = repoch[x][f].expected_heartbeats
    BY <1>0, <1>2, FinalizeEffect, ClaimEffect, SlashRecord
  <2>2. EpochOpened(x, f)
    BY <2>1 DEF EpochOpened
  <2>3. config' = config
    BY <1>0, <2>2, ClockStep DEF AccountsInOrder
  <2> QED
    BY <1>0, <2>2, <2>3, PositionStep DEF CollateralTaken
<1> QED
  BY <1>0, <1>1, <1>2, EpochStep
\* What earns and costs: only a claim, a slash and a penalty move a router's totals.
LEMMA EarningsKept ==
  ASSUME TypeOK, NEW x \in Routers,
         \/ \E k \in DeviceKeys : RotateDeviceKey(x, k)
         \/ \E k \in DeviceKeys, e \in Epochs : Heartbeat(k, x, e)
         \/ \E amount \in Nat : StakeCollateral(x, amount) \/ Unstake(x, amount)
         \/ ReinstateRouter(x) \/ DecommissionRouter(x)
  PROVE  /\ router'[x].total_rewards = router[x].total_rewards
         /\ router'[x].total_penalties = router[x].total_penalties
<1> DEFINE Kept == /\ router'[x].total_rewards = router[x].total_rewards
                   /\ router'[x].total_penalties = router[x].total_penalties
<1>0. router \in [Routers -> RouterType] /\ router[x] \in RouterType
  BY TypeParts
<1>1. ASSUME NEW k \in DeviceKeys, RotateDeviceKey(x, k) PROVE Kept
  <2> DEFINE version == router[x].device_key_version + 1
  <2>1. router' = [router EXCEPT ![x] =
                     [router[x] EXCEPT !.device_pubkey = k, !.device_key_version = version]]
    BY <1>0, <1>1 DEF RotateDeviceKey
  <2> HIDE DEF version
  <2> QED
    BY <1>0, <2>1 DEF RouterType
<1>2. ASSUME NEW k \in DeviceKeys, NEW e \in Epochs, Heartbeat(k, x, e) PROVE Kept
  <2> DEFINE live == IF FirstBeat(x) THEN [router[x] EXCEPT !.status = "Active"] ELSE Scored(x)
             count == live.heartbeat_count + 1
  <2>1. router' = [router EXCEPT ![x] =
                     [live EXCEPT !.last_heartbeat = now, !.heartbeat_count = count]]
    BY <1>2 DEF Heartbeat
  <2>2. Scored(x) \in RouterType
    BY ScoredType
  <2>3. /\ Scored(x).total_rewards = router[x].total_rewards
        /\ Scored(x).total_penalties = router[x].total_penalties
    <3> DEFINE score == Calculate(router[x].uptime_score, now - router[x].last_heartbeat,
                                  config.heartbeat_interval).new_score
               missed == router[x].missed_heartbeats
                           + Calculate(router[x].uptime_score, now - router[x].last_heartbeat,
                                       config.heartbeat_interval).missed_count
               status == IF ShouldSuspend(score) /\ router[x].status = "Active"
                         THEN "Suspended" ELSE router[x].status
    <3>1. Scored(x) = [router[x] EXCEPT !.uptime_score = score, !.missed_heartbeats = missed,
                                        !.status = status]
      BY DEF Scored
    <3> HIDE DEF score, missed, status
    <3> QED
      BY <1>0, <3>1 DEF RouterType
  <2>4. /\ live \in RouterType
        /\ live.total_rewards = router[x].total_rewards
        /\ live.total_penalties = router[x].total_penalties
    BY <1>0, <2>2, <2>3 DEF RouterType, Statuses
  <2> HIDE DEF live, count
  <2> QED
    BY <1>0, <2>1, <2>4 DEF RouterType
<1>3. ASSUME NEW amount \in Nat, StakeCollateral(x, amount) \/ Unstake(x, amount) PROVE Kept
  <2>1. \E total : router' = [router EXCEPT ![x] = [router[x] EXCEPT !.staked_amount = total]]
    BY <1>3 DEF StakeCollateral, Unstake
  <2> QED
    BY <1>0, <2>1 DEF RouterType
<1>4. ASSUME ReinstateRouter(x) PROVE Kept
  <2>1. router' = [router EXCEPT ![x] =
                     [router[x] EXCEPT !.status = "Active", !.uptime_score = REINSTATED_SCORE]]
    BY <1>0, <1>4 DEF ReinstateRouter
  <2> QED
    BY <1>0, <2>1 DEF RouterType
<1>5. ASSUME DecommissionRouter(x) PROVE Kept
  <2>1. router' = [router EXCEPT ![x] = [router[x] EXCEPT !.status = "Decommissioned"]]
    BY <1>5 DEF DecommissionRouter
  <2> QED
    BY <1>0, <2>1 DEF RouterType
<1> QED
  BY <1>1, <1>2, <1>3, <1>4, <1>5

\* A penalty never takes more than was earned.
LEMMA PenaltyBounded ==
  ASSUME TypeOK, protocol.initialized, NEW x \in Routers
  PROVE  /\ Penalty(x) \in Nat /\ Penalty(x) <= router[x].total_rewards
         /\ config.penalty_bps \in Nat /\ PenaltyProduct(x) \in Nat
<1>1. router[x].total_rewards \in Nat /\ config.penalty_bps \in Nat
  BY TypeParts DEF RouterType, ConfigType
<1>2. config.penalty_bps <= 10000
  BY DEF TypeOK, ValidConfig
<1>3. Penalty(x) = ApplyBps(router[x].total_rewards, config.penalty_bps)
  BY DEF Penalty, PenaltyProduct, ApplyBps
<1>4. /\ ApplyBps(router[x].total_rewards, config.penalty_bps) \in Nat
      /\ ApplyBps(router[x].total_rewards, config.penalty_bps) <= router[x].total_rewards
  <2>1. PICK a \in Nat, b \in Nat : a = router[x].total_rewards /\ b = config.penalty_bps
    BY <1>1
  <2>2. b <= 10000
    BY <1>2, <2>1
  <2>3. ApplyBps(a, b) \in Nat /\ ApplyBps(a, b) <= a
    BY <2>2, ApplyBpsType
  <2> QED
    BY <2>1, <2>3
<1>5. PenaltyProduct(x) \in Nat
  BY <1>1 DEF PenaltyProduct
<1> QED
  BY <1>1, <1>3, <1>4, <1>5

\* A penalty only relabels earnings as penalties.
LEMMA PenaltyRelabels ==
  ASSUME ServiceInv, NEW x \in Routers, ApplyPenalty(x)
  PROVE  /\ router'[x].total_rewards <= router[x].total_rewards
         /\ router'[x].total_rewards + router'[x].total_penalties
              = router[x].total_rewards + router[x].total_penalties
<1>0. /\ router \in [Routers -> RouterType] /\ router[x] \in RouterType
      /\ router[x].total_rewards \in Nat /\ router[x].total_penalties \in Nat
  BY ServiceParts, TypeParts
<1> DEFINE penalty == Penalty(x)
           rewards == SaturatingSub(router[x].total_rewards, penalty)
           penalties == router[x].total_penalties + penalty
           score == SaturatingSub(router[x].uptime_score, PENALTY_DROP)
           status == IF ShouldSuspend(score) /\ router[x].status = "Active"
                     THEN "Suspended" ELSE router[x].status
<1>1. penalty \in Nat /\ penalty <= router[x].total_rewards
  <2>1. TypeOK /\ protocol.initialized
    BY ServiceParts DEF ApplyPenalty, MayPenalize
  <2> QED
    BY <2>1, PenaltyBounded
<1>2. router' = [router EXCEPT ![x] = [router[x] EXCEPT !.total_rewards = rewards,
          !.total_penalties = penalties, !.uptime_score = score, !.status = status]]
  BY DEF ApplyPenalty, Penalized
<1> HIDE DEF penalty
<1>3. rewards = router[x].total_rewards - penalty
  BY <1>0, <1>1 DEF SaturatingSub
<1> HIDE DEF rewards, score, status
<1>4. rewards <= router[x].total_rewards
      /\ rewards + penalties = router[x].total_rewards + router[x].total_penalties
  BY <1>0, <1>1, <1>3
<1> HIDE DEF penalties
<1>5. router'[x].total_rewards = rewards /\ router'[x].total_penalties = penalties
  BY <1>0, <1>2 DEF RouterType
<1> QED
  BY <1>4, <1>5

LEMMA EarningsStep ==
  ASSUME ServiceInv, [Transaction]_vars
  PROVE  EarningsCovered'
<1>0. /\ TypeOK /\ router \in [Routers -> RouterType] /\ stake \in [Routers -> StakeType]
      /\ repoch \in [Routers -> [Epochs -> RouterEpochType]] /\ protocol \in ProtocolType
      /\ LedgerInv
  BY ServiceParts, TypeParts
<1>a. TypeOK'
  BY <1>0, NextType
<1> SUFFICES ASSUME NEW x \in Routers
             PROVE  /\ router'[x].total_rewards <= protocol'.total_rewards_distributed
                    /\ router'[x].total_rewards + router'[x].total_penalties
                         <= protocol'.total_rewards_distributed + stake'[x].total_slashed
  BY DEF EarningsCovered
<1> DEFINE rew == router[x].total_rewards
           pen == router[x].total_penalties
           sla == stake[x].total_slashed
           paid == protocol.total_rewards_distributed
<1>1. /\ rew \in Nat /\ pen \in Nat /\ sla \in Nat /\ paid \in Nat
      /\ rew <= paid /\ rew + pen <= paid + sla
      /\ router[x] \in RouterType /\ stake[x] \in StakeType
  BY <1>0, ServiceParts DEF EarningsCovered
<1>2. stake'[x].total_slashed >= sla /\ protocol'.total_rewards_distributed >= paid
  BY <1>0, PositionStep, TotalsStep
<1>3. /\ stake'[x].total_slashed \in Nat /\ protocol'.total_rewards_distributed \in Nat
      /\ router'[x].total_rewards \in Nat /\ router'[x].total_penalties \in Nat
  BY <1>a DEF TypeOK, StakeType, ProtocolType, RouterType
<1>4. ASSUME router'[x].total_rewards <= rew,
             router'[x].total_rewards + router'[x].total_penalties <= rew + pen
      PROVE  /\ router'[x].total_rewards <= protocol'.total_rewards_distributed
             /\ router'[x].total_rewards + router'[x].total_penalties
                  <= protocol'.total_rewards_distributed + stake'[x].total_slashed
  <2> HIDE DEF rew, pen, sla, paid
  <2> QED
    BY <1>1, <1>2, <1>3, <1>4
<1>5. CASE router'[x] = router[x]
  BY <1>1, <1>4, <1>5
<1>6. CASE \/ \E k \in DeviceKeys : RotateDeviceKey(x, k)
           \/ \E k \in DeviceKeys, e \in Epochs : Heartbeat(k, x, e)
           \/ \E amount \in Nat : StakeCollateral(x, amount) \/ Unstake(x, amount)
           \/ ReinstateRouter(x) \/ DecommissionRouter(x)
  <2>1. router'[x].total_rewards = rew /\ router'[x].total_penalties = pen
    BY <1>0, <1>6, EarningsKept
  <2> QED
    BY <1>1, <1>4, <2>1
<1>7. CASE \E k \in DeviceKeys : RegisterRouter(x, k)
  <2>1. router'[x].total_rewards = 0 /\ router'[x].total_penalties = 0
    BY <1>0, <1>7 DEF RegisterRouter, NoRouter
  <2> QED
    BY <1>1, <1>4, <2>1
<1>8. CASE ApplyPenalty(x)
  BY <1>1, <1>3, <1>4, <1>8, PenaltyRelabels
<1>9. ASSUME NEW e \in Epochs, ClaimReward(x, e)
      PROVE  /\ router'[x].total_rewards <= protocol'.total_rewards_distributed
             /\ router'[x].total_rewards + router'[x].total_penalties
                  <= protocol'.total_rewards_distributed + stake'[x].total_slashed
  <2> DEFINE reward == repoch[x][e].reward_amount
  <2>1. /\ router' = [router EXCEPT ![x].total_rewards = @ + reward]
        /\ protocol' = [protocol EXCEPT !.total_rewards_distributed = @ + reward]
        /\ stake' = stake
    BY <1>9 DEF ClaimReward
  <2>2. reward \in Nat
    BY <1>0 DEF RouterEpochType
  <2> HIDE DEF reward
  <2>3. /\ router'[x].total_rewards = rew + reward /\ router'[x].total_penalties = pen
        /\ protocol'.total_rewards_distributed = paid + reward /\ stake'[x].total_slashed = sla
    BY <1>0, <1>1, <2>1 DEF RouterType, ProtocolType
  <2> HIDE DEF rew, pen, sla, paid
  <2> QED
    BY <1>1, <2>2, <2>3
<1>10. ASSUME NEW e \in Epochs, SlashRouter(x, e)
       PROVE  /\ router'[x].total_rewards <= protocol'.total_rewards_distributed
              /\ router'[x].total_rewards + router'[x].total_penalties
                   <= protocol'.total_rewards_distributed + stake'[x].total_slashed
  <2> DEFINE due == SlashDue(x, e)
             left == SaturatingSub(stake[x].amount, due)
             total == SaturatingSub(protocol.total_staked, due)
  <2>1. /\ router' = [router EXCEPT ![x] =
             [router[x] EXCEPT !.staked_amount = left, !.total_penalties = @ + due]]
        /\ stake' = [stake EXCEPT ![x] =
             [stake[x] EXCEPT !.amount = left, !.total_slashed = @ + due]]
    BY <1>10 DEF SlashRouter
  <2>2. due \in Nat
    <3>1. repoch[x][e].slash_amount \in Nat /\ stake[x].amount \in Nat
      BY <1>0, <1>1 DEF RouterEpochType, StakeType
    <3> QED
      BY <3>1 DEF SlashDue, Lesser
  <2> HIDE DEF due, left
  <2>3. /\ router'[x].total_rewards = rew /\ router'[x].total_penalties = pen + due
        /\ stake'[x].total_slashed = sla + due
    BY <1>0, <1>1, <2>1 DEF RouterType, StakeType
  <2> HIDE DEF rew, pen, sla, paid
  <2> QED
    BY <1>1, <1>2, <1>3, <2>2, <2>3
<1> QED
  BY <1>0, <1>5, <1>6, <1>7, <1>8, <1>9, <1>10, RouterStep
LEMMA StoredStep ==
  ASSUME ServiceInv, [Transaction]_vars
  PROVE  StoredFit'
<1>1. Fits(protocol'.total_minted)
  BY ServiceParts, TotalsStep DEF StoredFit
<1>2. ASSUME NEW f \in Epochs PROVE Fits(emission'[f].total_emission)
  <2>1. CASE emission'[f] = emission[f]
    BY <2>1, ServiceParts DEF StoredFit
  <2>2. ASSUME NEW r \in Routers, FinalizeRouterEpoch(r, f)
        PROVE  Fits(emission'[f].total_emission)
    <3>1. Fits(OpenEmission(f).total_emission)
      BY <2>2 DEF FinalizeRouterEpoch, MayFinalize
    <3>2. emission'[f].total_emission = OpenEmission(f).total_emission
      BY <2>2, ServiceParts, FinalizeEffect
    <3> QED
      BY <3>1, <3>2
  <2> QED
    BY <2>1, <2>2, ServiceParts, EmissionStep
<1> QED
  BY <1>1, <1>2 DEF StoredFit

LEMMA DeployedStep ==
  ASSUME ServiceInv, [Transaction]_vars
  PROVE  DeployedFirst'
<1> SUFFICES ASSUME NEW x \in Routers, router'[x].exists PROVE protocol'.initialized
  BY DEF DeployedFirst
<1>0. /\ TypeOK /\ DeployedFirst
      /\ protocol.initialized => protocol'.initialized
  BY ServiceParts, ClockStep
<1>1. CASE \E k \in DeviceKeys : RegisterRouter(x, k)
  BY <1>0, <1>1 DEF RegisterRouter, Running
<1>2. CASE ~ \E k \in DeviceKeys : RegisterRouter(x, k)
  <2>1. router[x].exists
    BY <1>0, <1>2, ServiceParts, RouterStep, RotateDeviceKeyEffect, HeartbeatEffect, StakeEffect,
       UnstakeEffect, ClaimRewardEffect, SlashEffect, ApplyPenaltyEffect, ReinstateRouterEffect,
       DecommissionRouterEffect DEF Heartbeat, MayHeartbeat
  <2> QED
    BY <1>0, <2>1 DEF DeployedFirst
<1> QED
  BY <1>1, <1>2

\* No step, in any order, takes away what the crank relies on.
THEOREM ServiceInductive == ServiceInv /\ [Transaction]_vars => ServiceInv'
<1> SUFFICES ASSUME ServiceInv, [Transaction]_vars PROVE ServiceInv'
  OBVIOUS
<1>1. LedgerInv'
  BY ServiceParts, LedgerInductive
<1> QED
  BY <1>1, CollateralStep, EarningsStep, StoredStep, DeployedStep DEF ServiceInv

\* Nothing used: nothing earned, stored or opened.
LEMMA UnusedService ==
  ASSUME LedgerInv, Unused, Counters(protocol) = <<0, 0, 0, 0, 0, 0>>
  PROVE  ServiceInv
<1>1. /\ \A r \in Routers :
           /\ ~router[r].exists
           /\ router[r].total_rewards = 0 /\ router[r].total_penalties = 0
           /\ stake[r].amount = 0 /\ stake[r].total_slashed = 0
           /\ \A e \in Epochs : repoch[r][e].expected_heartbeats = 0
      /\ \A e \in Epochs : emission[e].total_emission = 0
      /\ protocol.total_rewards_distributed = 0 /\ protocol.total_minted = 0
  BY DEF Unused, NoStake, NoRouter, NoRouterEpoch, NoEmission, Counters
<1>2. Fits(0)
  BY MaxU64Assumption DEF Fits
<1> QED
  BY <1>1, <1>2 DEF ServiceInv, CollateralTaken, EarningsCovered, StoredFit, DeployedFirst,
     EpochOpened

LEMMA InitService == Init => ServiceInv
<1> SUFFICES ASSUME Init PROVE ServiceInv
  OBVIOUS
<1>1. Unused /\ Counters(protocol) = <<0, 0, 0, 0, 0, 0>>
  BY DEF Init, Unused, NoProtocol, Counters
<1> QED
  BY <1>1, InitLedger, UnusedService

\* The terms of the emission curve, as initialize_protocol checked them.
LEMMA EmissionTerms ==
  ASSUME NEW c \in ConfigType, ValidConfig(c)
  PROVE  /\ c.initial_emission_per_epoch \in Nat /\ Fits(c.initial_emission_per_epoch)
         /\ c.epochs_per_year \in Nat
         /\ c.emission_decay_bps \in Nat /\ c.emission_decay_bps <= 10000
<1>1. c.emission_decay_bps \in 1 .. 10000
  BY DEF ValidConfig
<1>2. /\ c.initial_emission_per_epoch \in {z \in Nat : Fits(z)}
      /\ c.epochs_per_year \in Nat
  BY DEF ConfigType
<1>3. PICK z \in 1 .. 10000 : z = c.emission_decay_bps
  BY <1>1
<1>4. z \in Nat /\ z <= 10000
  OBVIOUS
<1>5. c.initial_emission_per_epoch \in Nat /\ Fits(c.initial_emission_per_epoch)
  BY <1>2
<1>6. c.emission_decay_bps \in Nat
  BY <1>3, <1>4
<1>7. c.emission_decay_bps <= 10000
  BY <1>3, <1>4
<1>8. c.epochs_per_year \in Nat
  BY <1>2
<1> QED
  BY <1>5, <1>6, <1>7, <1>8

\* The budget finalization opens always fits, and so does what it adds to it.
LEMMA FinalizeUnblocked ==
  ASSUME ServiceInv, NEW x \in Routers, NEW e \in Epochs,
         EpochOpened(x, e), Unsettled(repoch[x][e]), WindowClosed(repoch[x][e]),
         StakeExists(x), Fits(config.epoch_duration * protocol.reward_rate)
  PROVE  MayFinalize(x, e)
<1> DEFINE ep == repoch[x][e]
           em == OpenEmission(e)
<1>1. /\ TypeOK /\ AccountsInOrder /\ FinalizedAfterWindow /\ EmissionWithinBudget /\ StoredFit
      /\ ep \in RouterEpochType /\ config \in ConfigType /\ protocol \in ProtocolType
  BY ServiceParts, InvParts, TypeParts
<1>2. protocol.initialized /\ ValidConfig(config)
  BY <1>1 DEF AccountsInOrder, TypeOK
<1>3. Fits(em.total_emission)
  <2>1. CASE emission[e].created_at # 0
    BY <1>1, <2>1 DEF OpenEmission, StoredFit
  <2>2. CASE emission[e].created_at = 0
    <3>1. PICK initial \in Nat, y \in Nat, bps \in Nat :
            /\ initial = config.initial_emission_per_epoch
            /\ y = config.epochs_per_year /\ bps = config.emission_decay_bps
            /\ Fits(initial) /\ bps <= 10000
      BY <1>1, <1>2, EmissionTerms
    <3>2. PICK n \in Nat : n = e
      BY RouterPulseAssumption
    <3>3. EpochEmission(initial, n, y, bps) \in 0 .. initial
      <4>1. bps <= 10000
        BY <3>1
      <4> QED
        BY <4>1, EpochEmissionType
    <3>4. em.total_emission = EpochEmission(initial, e, y, bps)
      BY <2>2, <3>1 DEF OpenEmission
    <3> QED
      BY <3>1, <3>2, <3>3, <3>4, MaxU64Assumption DEF Fits
  <2> QED
    BY <2>1, <2>2
<1>4. em \in EmissionType /\ em.allocated <= em.total_emission
  BY <1>1, <1>3, OpenEmissionType, OpenEmissionBounded
<1>5. BaseReward(ep) = config.epoch_duration * protocol.reward_rate
  <2>1. /\ config.epoch_duration \in Int /\ protocol.genesis_time \in Nat /\ e \in Nat
    BY <1>1, RouterPulseAssumption DEF ConfigType, ProtocolType
  <2>2. /\ ep.start_time = protocol.genesis_time + e * config.epoch_duration
        /\ ep.end_time = protocol.genesis_time + e * config.epoch_duration + config.epoch_duration
    BY <1>1 DEF FinalizedAfterWindow, EpochStart, EpochEnd
  <2>3. e * config.epoch_duration \in Int
    BY <2>1
  <2>4. ep.end_time - ep.start_time = config.epoch_duration
    BY <2>1, <2>2, <2>3
  <2> QED
    BY <2>4 DEF BaseReward
<1>6. Fits(em.allocated + Reward(ep, em))
  <2> HIDE DEF ep, em
  <2>1. PICK base \in Nat, u \in Nat : base = BaseReward(ep) /\ u = MeasuredUptime(ep)
    <3>1. BaseReward(ep) \in Nat
      BY <1>5, MaxU64Assumption DEF Fits
    <3>2. MeasuredUptime(ep) \in Nat
      BY <1>1, UptimeBpsType DEF MeasuredUptime, RouterEpochType
    <3> QED
      BY <3>1, <3>2
  <2>2. u <= 10000
    BY <1>1, <2>1, UptimeBpsType DEF MeasuredUptime, RouterEpochType
  <2>3. TieredReward(base, u) \in Nat
    BY <2>2, TieredRewardType
  <2>4. Reward(ep, em) = Lesser(TieredReward(base, u), Remaining(em))
    BY <2>1 DEF Reward
  <2>5. /\ em.allocated \in Nat /\ em.total_emission \in Nat
        /\ Remaining(em) = em.total_emission - em.allocated
    BY <1>4 DEF Remaining, SaturatingSub, EmissionType
  <2>6. Reward(ep, em) \in Nat /\ em.allocated + Reward(ep, em) <= em.total_emission
    BY <1>4, <2>3, <2>4, <2>5 DEF Lesser
  <2> QED
    BY <1>3, <2>5, <2>6, MaxU64Assumption DEF Fits
<1> QED
  BY <1>2, <1>3, <1>5, <1>6 DEF MayFinalize, KeeperMayRun

LEMMA SlashedMinted ==
  ASSUME ServiceInv, NEW x \in Routers
  PROVE  /\ stake[x].total_slashed <= protocol.total_slashed
         /\ protocol.total_slashed <= protocol.total_minted
<1> DEFINE g == [r \in Routers |-> stake[r].total_slashed]
<1>1. \A r \in Routers : g[r] \in Nat
  BY ServiceParts
<1>2. g[x] <= SumFunctionOnSet(g, Routers)
  <2> HIDE DEF g
  <2> QED
    BY <1>1, SumNat, RouterPulseAssumption
<1>3. protocol.total_slashed = SumFunctionOnSet(g, Routers)
  BY ServiceParts, LedgerParts, BalancedMeans DEF TotalSlashed, SumOver
<1>4. /\ treasury + protocol.total_burned >= protocol.total_slashed
      /\ vault + treasury + TotalWallets = protocol.total_minted - protocol.total_burned
      /\ vault \in Nat /\ treasury \in Nat /\ TotalWallets \in Nat
      /\ protocol.total_burned \in Nat /\ protocol.total_minted \in Nat
      /\ protocol.total_slashed \in Nat
  BY ServiceParts, LedgerParts, BalancedMeans
<1>5. protocol.total_slashed <= protocol.total_minted
  BY <1>4
<1> QED
  BY <1>2, <1>3, <1>5

\* Everything ever slashed is still in the treasury or was burned, and what is about
\* to be is in the vault: together no more than was minted.
LEMMA SlashUnblocked ==
  ASSUME ServiceInv, NEW x \in Routers, NEW e \in Epochs,
         SlashPending(x, e), SlashDue(x, e) > 0,
         Fits(protocol.total_rewards_distributed + protocol.total_minted)
  PROVE  MaySlash(x, e)
<1>1. /\ TypeOK /\ LedgerInv /\ AccountsInOrder /\ CollateralTaken /\ EarningsCovered /\ StoredFit
      /\ repoch[x][e] \in RouterEpochType
  BY ServiceParts, InvParts, TypeParts
<1>2. EpochOpened(x, e) /\ protocol.initialized
  BY <1>1 DEF SlashPending, AccountsInOrder
<1>3. PICK due \in Nat : due = SlashDue(x, e) /\ due <= stake[x].amount
  <2>1. repoch[x][e].slash_amount \in Nat /\ stake[x].amount \in Nat
    BY <1>1, ServiceParts DEF RouterEpochType
  <2> QED
    BY <2>1 DEF SlashDue, Lesser
<1>4. StakeExists(x)
  BY <1>1, <1>3, ServiceParts DEF CollateralTaken
<1>5. /\ stake[x].amount <= TotalStaked /\ TotalStaked \in Nat /\ vault \in Nat
      /\ stake[x].amount \in Nat /\ vault >= TotalStaked
  BY <1>1, ServiceParts, StakeSums, LedgerParts, BalancedMeans
<1>6. vault >= due
  BY <1>3, <1>5
<1>7. stake[x].total_slashed <= protocol.total_slashed
  BY SlashedMinted
<1>8. protocol.total_slashed + due <= protocol.total_minted
  <2>1. /\ treasury + protocol.total_burned >= protocol.total_slashed
        /\ vault + treasury + TotalWallets = protocol.total_minted - protocol.total_burned
        /\ treasury \in Nat /\ TotalWallets \in Nat /\ protocol.total_burned \in Nat
        /\ protocol.total_minted \in Nat /\ protocol.total_slashed \in Nat
    BY <1>1, LedgerParts, BalancedMeans
  <2> QED
    BY <1>5, <1>6, <2>1
<1>9. /\ protocol.total_slashed \in Nat /\ protocol.total_minted \in Nat
      /\ protocol.total_rewards_distributed \in Nat
      /\ stake[x].total_slashed \in Nat /\ router[x].total_penalties \in Nat
      /\ router[x].total_rewards \in Nat
      /\ router[x].total_rewards + router[x].total_penalties
           <= protocol.total_rewards_distributed + stake[x].total_slashed
  BY <1>1, ServiceParts, LedgerParts DEF EarningsCovered
<1>10. /\ stake[x].total_slashed + due <= protocol.total_minted
       /\ router[x].total_penalties + due
            <= protocol.total_rewards_distributed + protocol.total_minted
  BY <1>7, <1>8, <1>9
<1>11. /\ Fits(stake[x].total_slashed + due) /\ Fits(router[x].total_penalties + due)
       /\ Fits(protocol.total_slashed + due)
  BY <1>1, <1>8, <1>9, <1>10, MaxU64Assumption DEF Fits, StoredFit
<1> QED
  BY <1>2, <1>3, <1>4, <1>6, <1>11 DEF MaySlash, KeeperMayRun

LEMMA PenaltyUnblocked ==
  ASSUME ServiceInv, NEW x \in Routers, router[x].exists,
         router[x].status # "Decommissioned", protocol.initialized,
         Fits(protocol.total_rewards_distributed * config.penalty_bps),
         Fits(protocol.total_rewards_distributed + protocol.total_minted)
  PROVE  MayPenalize(x)
<1>1. TypeOK
  BY ServiceParts
<1>2. PICK pen \in Nat, bps \in Nat :
        /\ pen = Penalty(x) /\ pen <= router[x].total_rewards /\ bps = config.penalty_bps
  BY <1>1, PenaltyBounded
<1>3. PICK paid \in Nat, rew \in Nat, taken \in Nat :
        /\ paid = protocol.total_rewards_distributed /\ rew = router[x].total_rewards
        /\ taken = router[x].total_penalties
        /\ rew <= paid /\ rew + taken <= paid + stake[x].total_slashed
  BY ServiceParts DEF EarningsCovered
<1>4. rew * bps <= paid * bps /\ rew * bps \in Nat
  BY <1>3
<1>5. Fits(PenaltyProduct(x))
  BY <1>2, <1>3, <1>4, MaxU64Assumption DEF PenaltyProduct, Fits
<1>6. stake[x].total_slashed <= protocol.total_minted
  <2>1. stake[x].total_slashed <= protocol.total_slashed
        /\ protocol.total_slashed <= protocol.total_minted
    BY SlashedMinted
  <2>2. protocol.total_slashed \in Nat
    BY ServiceParts, LedgerParts
  <2> QED
    BY <2>1, <2>2, ServiceParts
<1>7. taken + pen <= paid + protocol.total_minted /\ taken + pen \in Nat
  BY <1>2, <1>3, <1>6, ServiceParts
<1>8. Fits(router[x].total_penalties + Penalty(x))
  BY <1>2, <1>3, <1>7, ServiceParts, MaxU64Assumption DEF Fits
<1> QED
  BY <1>5, <1>8 DEF MayPenalize

LEMMA Unblocked ==
  ASSUME ServiceInv
  PROVE  NeverBlocked
<1> DEFINE paid == protocol.total_rewards_distributed
<1>1. ASSUME NEW r \in Routers, NEW e \in Epochs,
             EpochOpened(r, e), Unsettled(repoch[r][e]), WindowClosed(repoch[r][e])
      PROVE  \/ MayFinalize(r, e)
             \/ config.min_stake = 0 /\ ~StakeExists(r)
             \/ ~Fits(config.epoch_duration * protocol.reward_rate)
  <2>1. CollateralTaken /\ config.min_stake \in Nat
    BY ServiceParts, TypeParts DEF ConfigType
  <2>2. CASE StakeExists(r)
    BY <1>1, <2>2, FinalizeUnblocked
  <2>3. CASE ~StakeExists(r)
    BY <1>1, <2>1, <2>3 DEF CollateralTaken
  <2> QED
    BY <2>2, <2>3
<1>2. ASSUME NEW r \in Routers, NEW e \in Epochs, SlashPending(r, e), SlashDue(r, e) > 0
      PROVE  MaySlash(r, e) \/ ~Fits(paid + protocol.total_minted)
  BY <1>2, SlashUnblocked
<1>3. ASSUME NEW r \in Routers, router[r].exists, router[r].status # "Decommissioned"
      PROVE  \/ MayPenalize(r)
             \/ ~Fits(paid * config.penalty_bps) \/ ~Fits(paid + protocol.total_minted)
  <2>1. protocol.initialized
    BY <1>3, ServiceParts DEF DeployedFirst
  <2> QED
    BY <1>3, <2>1, PenaltyUnblocked
<1> QED
  BY <1>1, <1>2, <1>3 DEF NeverBlocked

\* NeverBlocked: the crank and a penalty are refused only for the reasons named there.
THEOREM UnblockedSafe == Spec => []NeverBlocked
<1>1. Spec => []ServiceInv
  BY InitService, ServiceInductive, StepSends, PTL DEF Spec
<1> QED
  BY <1>1, Unblocked, PTL
=============================================================================
