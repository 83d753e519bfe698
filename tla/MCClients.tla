----------------------------- MODULE MCClients ------------------------------
(***************************************************************************)
(* Small instances of the clients of the deployed program and of the API:  *)
(* the scripts, the browser's sign-in, the operator page and the readers.  *)
(* They share no state, so a behaviour follows one of them: focus, fixed   *)
(* when it starts, says which.                                             *)
(***************************************************************************)
EXTENDS Scripts, OperatorPage, Queries

VARIABLE focus
mcVars == <<scriptVars, sessionVars, pageVars, queryVars, focus>>

----------------------------------------------------------------------------
(* The configuration the scripts deploy with, in thousandths of a token.   *)

MCOwnerOf == [r \in Routers |-> Owner]

Deployed ==
  {[reward_rate |-> RATE, penalty_bps |-> 500, heartbeat_interval |-> 60,
    epoch_duration |-> 120, min_stake |-> TOKEN, stake_lock_duration |-> 0,
    reward_cliff_duration |-> 5, reward_vesting_duration |-> 60,
    initial_emission_per_epoch |-> 120 * TOKEN, epochs_per_year |-> 262800,
    emission_decay_bps |-> 1000, genesis_allocation |-> 100000 * TOKEN]}

----------------------------------------------------------------------------
(* The page: either the lists, with routers of two wallets, or the keys of *)
(* one wallet's routers.                                                   *)

CONSTANTS alice, bob, x, y, z

MCHolderOf == [b \in Boxes |-> IF b = z THEN bob ELSE alice]

\* x and z were registered and indexed before.
ListsInit ==
  /\ SessionInit
  /\ page = NoPage
  /\ flights = [l \in Lists |-> <<>>] /\ behind = [l \in Lists |-> 0] /\ stale = {}
  /\ card = NoCard /\ form = NoForm
  /\ sent = {} /\ keys = 2 /\ lost = 0 /\ unheard = {}
  /\ deviceKey = [b \in Boxes |-> CASE b = x -> 1 [] b = z -> 2 [] OTHER -> 0]
  /\ indexed = {x, z}

\* What two tabs without an operator page do to each other's session.
SignInNext == SessionNext /\ connected'[Here] = NoWallet /\ UNCHANGED pageVars

\* Every tab but the page's stays without a wallet.
Alone == \A t \in Tabs \ {Here} : connected'[t] = NoWallet

ListsNext ==
  /\ PageNext /\ Alone
  /\ challenges' = 0 /\ keys' = keys /\ lost' = 0 /\ page'.timers <= 1
  /\ Cardinality(sent') <= 1
  /\ \A l \in Lists : Len(flights'[l]) <= IF l = "routers" THEN 2 ELSE 1

ProbeNext ==
  /\ PageNext /\ Alone
  /\ challenges' <= 1 /\ keys' = keys /\ page'.selected = NoBox
  /\ \A l \in Lists : Len(flights'[l]) <= IF l = "admin" THEN 2 ELSE 1

KeysNext ==
  /\ PageNext /\ Alone
  /\ connected'[Here] \in {NoWallet, alice}
  /\ challenges' = 0 /\ page'.timers <= 1 /\ stale' = {}
  /\ \A l \in Lists : Len(flights'[l]) <= 1
  /\ Cardinality(sent') <= 2 /\ \A t \in sent' : t.kind \in {"register", "rotate"}

----------------------------------------------------------------------------
(* The readers: one list, or the feed. *)

MCLexical == [e \in EpochDocs |-> IF e < 10 THEN 10 * e ELSE e]
MCTimeOf == [e \in Events |-> (e + 1) \div 2]

ListNext(l) ==
  /\ \/ ReadPage(l)
     \/ \E r \in RouterDocs : l = "routers" /\ RouterIndexed(r)
     \/ \E e \in EpochDocs : l = "epochs" /\ EpochIndexed(e)
     \/ \E e \in Events : l = "events" /\ EventIndexed(e)

FeedNext ==
  \/ \E e \in Events : EventIndexed(e)
  \/ Publish \/ IndexerDies \/ LoadFeed \/ SocketTurns \/ GatewayTurns

----------------------------------------------------------------------------
ClientsInit ==
  /\ ScriptsInit /\ QueryInit
  /\ \/ focus \in {"scripts", "signin", "keys", "routers", "epochs", "events", "feed"}
        /\ PageInit
     \/ focus \in {"lists", "probe"} /\ ListsInit

ClientsNext ==
  /\ CASE focus = "scripts" -> ScriptsNext /\ UNCHANGED <<sessionVars, pageVars, queryVars>>
       [] focus = "signin"  -> SignInNext /\ UNCHANGED <<scriptVars, queryVars>>
       [] focus = "lists"   -> ListsNext /\ UNCHANGED <<scriptVars, queryVars>>
       [] focus = "probe"   -> ProbeNext /\ UNCHANGED <<scriptVars, queryVars>>
       [] focus = "keys"    -> KeysNext /\ UNCHANGED <<scriptVars, queryVars>>
       [] focus = "feed"    -> FeedNext /\ UNCHANGED <<scriptVars, sessionVars, pageVars>>
       [] OTHER -> ListNext(focus) /\ UNCHANGED <<scriptVars, sessionVars, pageVars>>
  /\ UNCHANGED focus

ClientsSpec == ClientsInit /\ [][ClientsNext]_mcVars
=============================================================================
