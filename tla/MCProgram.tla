----------------------------- MODULE MCProgram ------------------------------
(***************************************************************************)
(* The program explored far in one direction at a time: focus, fixed when  *)
(* a behaviour starts, says which.                                         *)
(***************************************************************************)
EXTENDS MCRouterPulse, RouterMathCheck

VARIABLE focus
mcVars == <<vars, input, focus>>

----------------------------------------------------------------------------
(* Two routers: sharing the emission of an epoch, or their collateral in   *)
(* one vault.                                                              *)

EconomyNext == (\E r \in Routers : Beats(r) \/ Claims(r) \/ Keeper(r)) \/ ClockTicks

CollateralNext ==
  /\ \/ \E r \in Routers :
          \/ Beats(r) \/ Keeper(r) \/ DecommissionRouter(r)
          \/ \E amount \in StakeAmounts : StakeCollateral(r, amount)
          \/ \E amount \in UnstakeAmounts : Unstake(r, amount)
     \/ ClockTicks
  /\ \A r \in Routers, e \in Epochs \ {0} : repoch'[r][e] = NoRouterEpoch
  /\ now' <= StartTime + 180

EconomyInit == StartedInit /\ NothingDrawn /\ focus \in {"economy", "collateral"}

EconomySpec ==
  /\ EconomyInit
  /\ [][/\ IF focus = "economy" THEN EconomyNext ELSE CollateralNext
        /\ UNCHANGED <<input, focus>>]_mcVars

----------------------------------------------------------------------------
(* One router from deployment: through everything that moves tokens, or    *)
(* without collateral through three epochs of heartbeats, penalties and    *)
(* rotations.  And the arithmetic on its own.                              *)

LedgerNext ==
  /\ Next
  /\ config' \in Deployments \cup {NoConfig}
  /\ protocol'.reward_rate \in {0, Base.reward_rate}
  /\ \A r \in Routers : /\ router'[r].device_key_version = 0
                       /\ router'[r].device_pubkey \in {FirstKey, NoKey}
                       /\ \A e \in Epochs \ {0} : repoch'[r][e] = NoRouterEpoch
  /\ now' <= StartTime + 180

ScoresNext ==
  /\ (\E r \in Routers : Operator(r) \/ Keeper(r)) \/ Authority \/ ClockTicks
  /\ config' \in Uncollateralized \cup {NoConfig}
  /\ protocol'.genesis_minted = 0

LedgerInit == Init /\ NothingDrawn /\ focus \in {"ledger", "scores", "arithmetic"}

LedgerSpec ==
  /\ LedgerInit
  /\ [][CASE focus = "ledger" -> LedgerNext /\ UNCHANGED <<input, focus>>
          [] focus = "scores" -> ScoresNext /\ UNCHANGED <<input, focus>>
          [] OTHER -> Draw /\ UNCHANGED <<vars, focus>>]_mcVars
=============================================================================
