------------------------------ MODULE Session ------------------------------
(***************************************************************************)
(* Sign-In-With-Solana: the browser's useSession hook (web/src/lib) and    *)
(* the API's AuthService (api/src/auth).                                   *)
(*                                                                         *)
(* Each tab mounts the hook twice, in WalletBar and in the operator page,  *)
(* and each instance keeps a session of its own; localStorage is shared by *)
(* the tabs.  Redis holds one pending challenge per wallet.  Between the   *)
(* get and the del of a verification other requests run.                   *)
(*                                                                         *)
(* Abstracted: a message is its nonce, a token the wallet and the nonce it *)
(* was given for.  Whoever holds the wallet signs what is shown to it.     *)
(***************************************************************************)
EXTENDS Naturals

CONSTANTS
  Holders,        \* wallets a browser may connect
  NoWallet,
  Tabs,
  MaxChallenges   \* challenges issued (bound)

ASSUME SessionAssumption == NoWallet \notin Holders /\ MaxChallenges \in Nat

VARIABLES
  connected,   \* [Tabs -> wallet]: publicKey of the wallet adapter
  stored,      \* localStorage["routerpulse.session"]
  session,     \* [Tabs -> [bar, page]]: state of the two hooks
  handshake,   \* [Tabs -> [step, wallet, nonce]]: WalletBar's signIn
  pending,     \* [Holders -> nonce]: challenges in Redis
  burning,     \* verifications that have read their challenge
  challenges   \* number issued so far

apiVars     == <<pending, burning, challenges>>
sessionVars == <<connected, stored, session, handshake, apiVars>>

NoSession == [wallet |-> NoWallet, nonce |-> 0]
Idle      == [step |-> "idle", wallet |-> NoWallet, nonce |-> 0]
SignedOut == [bar |-> NoSession, page |-> NoSession]

SessionInit ==
  /\ connected = [t \in Tabs |-> NoWallet]
  /\ stored = NoSession
  /\ session = [t \in Tabs |-> SignedOut]
  /\ handshake = [t \in Tabs |-> Idle]
  /\ pending = [w \in Holders |-> 0]
  /\ burning = {} /\ challenges = 0

Authenticated(t, hook) ==
  connected[t] # NoWallet /\ session[t][hook].wallet = connected[t]

----------------------------------------------------------------------------
(* The hook's effect, run by each instance when its wallet becomes w.       *)

\* Takes the tick without a wallet for a change of wallet (mutation).
LeavesOnDiskHasty(w) == IF stored.wallet = w THEN stored ELSE NoSession

LeavesOnDisk(w) ==
  IF stored # NoSession /\ w \notin {NoWallet, stored.wallet} THEN NoSession ELSE stored

\* With nothing on disk the effect returns before it looks at its own session.
Restored(raw, w, own) ==
  CASE raw = NoSession      -> own
    [] raw.wallet = w       -> raw
    [] OTHER                -> NoSession

\* The wallet bar is mounted before the page: it sees the disk first.
Effects(w, own) ==
  [bar |-> Restored(stored, w, own.bar), page |-> Restored(LeavesOnDisk(w), w, own.page)]

SwitchWallet(t, w) ==
  /\ connected[t] # w
  /\ connected' = [connected EXCEPT ![t] = w]
  /\ session' = [session EXCEPT ![t] = Effects(w, @)]
  /\ stored' = LeavesOnDisk(w)
  /\ UNCHANGED <<handshake, apiVars>>

\* Until autoConnect resolves there is no wallet.
Reload(t) ==
  /\ connected' = [connected EXCEPT ![t] = NoWallet]
  /\ session' = [session EXCEPT ![t] = Effects(NoWallet, SignedOut)]
  /\ stored' = LeavesOnDisk(NoWallet)
  /\ handshake' = [handshake EXCEPT ![t] = Idle]
  /\ UNCHANGED apiVars

\* Navigation mounts the page anew; the layout, and its bar, stay.
OpenPage(t) ==
  /\ session' = [session EXCEPT ![t].page = Restored(stored, connected[t], NoSession)]
  /\ stored' = LeavesOnDisk(connected[t])
  /\ UNCHANGED <<connected, handshake, apiVars>>

----------------------------------------------------------------------------
(* signIn and signOut, buttons of the wallet bar.                           *)

\* The API overwrites the challenge pending for the wallet.
Challenge(t) ==
  /\ connected[t] # NoWallet /\ ~Authenticated(t, "bar") /\ handshake[t] = Idle
  /\ challenges < MaxChallenges
  /\ challenges' = challenges + 1
  /\ pending' = [pending EXCEPT ![connected[t]] = challenges']
  /\ handshake' = [handshake EXCEPT ![t] =
       [step |-> "sign", wallet |-> connected[t], nonce |-> challenges']]
  /\ UNCHANGED <<connected, stored, session, burning>>

Sign(t) ==
  /\ handshake[t].step = "sign"
  /\ handshake' = [handshake EXCEPT ![t].step = "sent"]
  /\ UNCHANGED <<connected, stored, session, apiVars>>

\* The user rejects the prompt, or a request fails.
SignInFails(t) ==
  /\ handshake[t] # Idle
  /\ handshake' = [handshake EXCEPT ![t] = Idle]
  /\ UNCHANGED <<connected, stored, session, apiVars>>

\* AuthService.verify up to its del: the signature is over this tab's message and
\* is compared with whatever is pending.
VerifyReads(t) ==
  LET h == handshake[t] IN
  /\ h.step = "sent"
  /\ IF pending[h.wallet] = h.nonce
     THEN /\ burning' = burning \cup {[wallet |-> h.wallet, nonce |-> h.nonce]}
          /\ handshake' = [handshake EXCEPT ![t].step = "verified"]
     ELSE /\ handshake' = [handshake EXCEPT ![t] = Idle]
          /\ UNCHANGED burning
  /\ UNCHANGED <<connected, stored, session, pending, challenges>>

\* del removes the wallet's key, whichever challenge it holds by now.
VerifyBurns(v) ==
  /\ v \in burning
  /\ burning' = burning \ {v}
  /\ pending' = [pending EXCEPT ![v.wallet] = 0]
  /\ UNCHANGED <<connected, stored, session, handshake, challenges>>

\* The token goes to disk and to the bar's session, whatever wallet is connected
\* by now.
SignInDone(t) ==
  LET h == handshake[t]
      next == [wallet |-> h.wallet, nonce |-> h.nonce]
  IN
  /\ h.step = "verified" /\ next \notin burning
  /\ stored' = next
  /\ session' = [session EXCEPT ![t].bar = next]
  /\ handshake' = [handshake EXCEPT ![t] = Idle]
  /\ UNCHANGED <<connected, apiVars>>

SignOut(t) ==
  /\ Authenticated(t, "bar")
  /\ stored' = NoSession
  /\ session' = [session EXCEPT ![t].bar = NoSession]
  /\ UNCHANGED <<connected, handshake, apiVars>>

BarStep(t) ==
  Challenge(t) \/ Sign(t) \/ SignInFails(t) \/ VerifyReads(t) \/ SignInDone(t) \/ SignOut(t)

SessionNext ==
  \/ \E t \in Tabs : BarStep(t) \/ Reload(t) \/ OpenPage(t)
  \/ \E t \in Tabs, w \in Holders \cup {NoWallet} : SwitchWallet(t, w)
  \/ \E v \in burning : VerifyBurns(v)

SessionSpec == SessionInit /\ [][SessionNext]_sessionVars

----------------------------------------------------------------------------
\* useSession.ts:34-40: neither a reload, nor the tick before autoConnect, nor a
\* lost connection costs the user the session on disk: it goes only when a tab
\* signs out or has another wallet.  Whoever reconnects the wallet it is for is
\* signed in again, in both places.
SessionOutlivesReload ==
  [][stored # NoSession =>
       /\ stored' = NoSession =>
            \E t \in Tabs : \/ connected'[t] \notin {NoWallet, stored.wallet}
                            \/ Authenticated(t, "bar") /\ connected' = connected
                               /\ session'[t].bar = NoSession
       /\ \A t \in Tabs :
            connected[t] # stored.wallet /\ connected'[t] = stored.wallet =>
              session'[t] = [bar |-> stored, page |-> stored]]_sessionVars

\* web/README.md:21-22: signing in unlocks the admin panel; whoever is signed in
\* for the bar is signed in for the page of the same tab.
SignInReachesPage == \A t \in Tabs : Authenticated(t, "bar") => Authenticated(t, "page")
=============================================================================
