--------------------------- MODULE RewardIssuance ---------------------------
(***************************************************************************)
(* What the reward side of the protocol promises, with no clock, score,    *)
(* collateral or governance in it.  Every epoch has one pool, opened once. *)
(* An award is locked in once per router and epoch and comes out of that   *)
(* pool; tokens are then minted against the award, never beyond it.        *)
(* RouterPulse implements this specification.                              *)
(***************************************************************************)
EXTENDS Naturals

CONSTANTS Routers, Epochs

VARIABLES
  opened,   \* [Epochs -> BOOLEAN]: the epoch's pool exists
  pool,     \* [Epochs -> Nat]: what the pool still holds
  locked,   \* [Routers -> [Epochs -> BOOLEAN]]: the award is fixed
  award,    \* [Routers -> [Epochs -> Nat]]: its amount, 0 before
  minted    \* [Routers -> [Epochs -> Nat]]: tokens minted against it

vars == <<opened, pool, locked, award, minted>>

Init ==
  /\ opened = [e \in Epochs |-> FALSE]
  /\ pool = [e \in Epochs |-> 0]
  /\ locked = [r \in Routers |-> [e \in Epochs |-> FALSE]]
  /\ award = [r \in Routers |-> [e \in Epochs |-> 0]]
  /\ minted = [r \in Routers |-> [e \in Epochs |-> 0]]

\* Fix the award of r for e; a pool already open pays for it in full.
Lock(r, e) ==
  /\ ~locked[r][e]
  /\ pool'[e] \in Nat /\ award'[r][e] \in Nat
  /\ opened[e] => pool'[e] + award'[r][e] = pool[e]
  /\ opened' = [opened EXCEPT ![e] = TRUE]
  /\ locked' = [locked EXCEPT ![r][e] = TRUE]
  /\ pool' = [pool EXCEPT ![e] = pool'[e]]
  /\ award' = [award EXCEPT ![r][e] = award'[r][e]]
  /\ UNCHANGED minted

\* Mint some of what the award still leaves.
Mint(r, e) ==
  /\ locked[r][e]
  /\ minted'[r][e] \in Nat
  /\ minted[r][e] < minted'[r][e] /\ minted'[r][e] <= award[r][e]
  /\ minted' = [minted EXCEPT ![r][e] = minted'[r][e]]
  /\ UNCHANGED <<opened, pool, locked, award>>

Next == \E r \in Routers, e \in Epochs : Lock(r, e) \/ Mint(r, e)

Spec == Init /\ [][Next]_vars
=============================================================================
