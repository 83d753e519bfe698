---------------------------- MODULE ClientProofs ----------------------------
(***************************************************************************)
(* The API's clients, for any number of them.                              *)
(*                                                                         *)
(* However many tabs, wallets and challenges, what the user did not end    *)
(* stays signed in through reloads and reconnections.  However many        *)
(* fetches, transactions and keys, the operator page comes to show what is *)
(* wanted and no key a router does not have.  However many rows, readers,  *)
(* crashes of the indexer and reconnections, the lists are read through    *)
(* without repetition or loss, and the live feed shows nothing that the    *)
(* database does not hold.                                                 *)
(***************************************************************************)
EXTENDS OperatorPage, Queries, FiniteSetTheorems, SequenceTheorems, WellFoundedInduction,
        TLAPS

----------------------------------------------------------------------------
(* The sign-in. *)

Signed   == [wallet : Holders, nonce : Nat]
Sessions == Signed \cup {NoSession}
Shakes   == [step : {"sign", "sent", "verified"}, wallet : Holders, nonce : Nat]

\* Only wallets sign in: a session, on disk or in memory, is empty or a holder's,
\* and so is a handshake under way.
SessionInv ==
  /\ connected \in [Tabs -> Holders \cup {NoWallet}]
  /\ stored \in Sessions
  /\ session \in [Tabs -> [bar : Sessions, page : Sessions]]
  /\ handshake \in [Tabs -> Shakes \cup {Idle}]
  /\ challenges \in Nat

\* No session on disk is the empty one but NoSession.
LEMMA EmptyIsNobody ==
  \A x \in Sessions : x.wallet = NoWallet <=> x = NoSession
PROOF
  BY SessionAssumption DEF Sessions, Signed, NoSession

\* What the effects leave behind are sessions again.
LEMMA EffectsKeep ==
  ASSUME SessionInv, NEW w, NEW own \in [bar : Sessions, page : Sessions]
  PROVE  /\ LeavesOnDisk(w) \in Sessions
         /\ Effects(w, own) \in [bar : Sessions, page : Sessions]
         /\ \A x \in Sessions : Restored(stored, w, x) \in Sessions
PROOF
  <1>1. NoSession \in Sessions
    BY DEF Sessions
  <1>2. LeavesOnDisk(w) \in Sessions
    BY <1>1 DEF LeavesOnDisk, SessionInv
  <1>3. \A raw, x \in Sessions : Restored(raw, w, x) \in Sessions
    BY <1>1 DEF Restored
  <1> QED
    BY <1>2, <1>3 DEF Effects, SessionInv

\* Each step keeps the types.
LEMMA SessionStep ==
  ASSUME SessionInv, [SessionNext]_sessionVars
  PROVE  SessionInv'
PROOF
  <1> USE DEF SessionInv
  <1>1. ASSUME NEW t \in Tabs, NEW w \in Holders \cup {NoWallet}, SwitchWallet(t, w)
        PROVE  SessionInv'
    <2>1. session[t] \in [bar : Sessions, page : Sessions]
      OBVIOUS
    <2> QED
      BY <1>1, <2>1, EffectsKeep DEF SwitchWallet, apiVars
  <1>2. ASSUME NEW t \in Tabs, Reload(t) PROVE SessionInv'
    <2>1. SignedOut \in [bar : Sessions, page : Sessions]
      BY DEF SignedOut, Sessions
    <2> QED
      BY <1>2, <2>1, EffectsKeep DEF Reload, apiVars
  <1>3. ASSUME NEW t \in Tabs, OpenPage(t) PROVE SessionInv'
    <2>1. /\ Restored(stored, connected[t], NoSession) \in Sessions
          /\ LeavesOnDisk(connected[t]) \in Sessions
      <3>1. NoSession \in Sessions /\ session[t] \in [bar : Sessions, page : Sessions]
        BY DEF Sessions
      <3> QED
        BY <3>1, EffectsKeep
    <2> QED
      BY <1>3, <2>1 DEF OpenPage, apiVars
  <1>4. ASSUME NEW t \in Tabs, Challenge(t) PROVE SessionInv'
    BY <1>4 DEF Challenge, Shakes
  <1>5. ASSUME NEW t \in Tabs, Sign(t) PROVE SessionInv'
    BY <1>5 DEF Sign, Shakes, apiVars, Idle
  <1>6. ASSUME NEW t \in Tabs, SignInFails(t) PROVE SessionInv'
    BY <1>6 DEF SignInFails, apiVars
  <1>7. ASSUME NEW t \in Tabs, VerifyReads(t) PROVE SessionInv'
    BY <1>7 DEF VerifyReads, Shakes, Idle
  <1>8. ASSUME NEW v \in burning, VerifyBurns(v) PROVE SessionInv'
    BY <1>8 DEF VerifyBurns
  <1>9. ASSUME NEW t \in Tabs, SignInDone(t) PROVE SessionInv'
    <2>1. [wallet |-> handshake[t].wallet, nonce |-> handshake[t].nonce] \in Sessions
      BY <1>9 DEF SignInDone, Shakes, Idle, Sessions, Signed
    <2> QED
      BY <1>9, <2>1 DEF SignInDone, apiVars
  <1>10. ASSUME NEW t \in Tabs, SignOut(t) PROVE SessionInv'
    BY <1>10 DEF SignOut, apiVars, Sessions
  <1>11. CASE UNCHANGED sessionVars
    BY <1>11 DEF sessionVars, apiVars
  <1> QED
    BY <1>1, <1>2, <1>3, <1>4, <1>5, <1>6, <1>7, <1>8, <1>9, <1>10, <1>11
    DEF SessionNext, BarStep

\* What the hook promises of one step.
Ended ==
  \E t \in Tabs : \/ connected'[t] \notin {NoWallet, stored.wallet}
                  \/ Authenticated(t, "bar") /\ connected' = connected
                     /\ session'[t].bar = NoSession
Rejoins ==
  \A t \in Tabs : connected[t] # stored.wallet /\ connected'[t] = stored.wallet =>
                    session'[t] = [bar |-> stored, page |-> stored]
Outlives == stored # NoSession => (stored' = NoSession => Ended) /\ Rejoins

\* Steps of the handshake connect nobody.
LEMMA NobodyJoins == connected' = connected => Rejoins
PROOF
  BY DEF Rejoins

\* The effect of a wallet that is not another's leaves the session on disk, and the
\* wallet it is for finds it there in both places.
LEMMA WalletMoves ==
  ASSUME SessionInv, NEW t \in Tabs, NEW w \in Holders \cup {NoWallet}, NEW own,
         connected' = [connected EXCEPT ![t] = w],
         session' = [session EXCEPT ![t] = Effects(w, own)],
         stored' = LeavesOnDisk(w), stored # NoSession
  PROVE  (stored' = NoSession => Ended) /\ Rejoins
PROOF
  <1>1. connected'[t] = w
    BY DEF SessionInv
  <1>2. stored' = NoSession => Ended
    BY <1>1 DEF LeavesOnDisk, Ended
  <1>3. w = stored.wallet => Effects(w, own) = [bar |-> stored, page |-> stored]
    BY DEF Effects, Restored, LeavesOnDisk
  <1>4. Rejoins
    BY <1>1, <1>3 DEF Rejoins, SessionInv
  <1> QED
    BY <1>2, <1>4

\* Each step keeps the promise.
LEMMA OutlivesStep ==
  ASSUME SessionInv, SessionNext, stored # NoSession
  PROVE  (stored' = NoSession => Ended) /\ Rejoins
PROOF
  <1>1. ASSUME NEW t \in Tabs, NEW w \in Holders \cup {NoWallet}, SwitchWallet(t, w)
        PROVE  (stored' = NoSession => Ended) /\ Rejoins
    BY <1>1, WalletMoves DEF SwitchWallet
  <1>2. ASSUME NEW t \in Tabs, Reload(t)
        PROVE  (stored' = NoSession => Ended) /\ Rejoins
    BY <1>2, WalletMoves DEF Reload
  <1>3. ASSUME NEW t \in Tabs, OpenPage(t)
        PROVE  (stored' = NoSession => Ended) /\ Rejoins
    BY <1>3, NobodyJoins DEF OpenPage, LeavesOnDisk, Ended
  <1>4. ASSUME NEW t \in Tabs, SignInDone(t)
        PROVE  (stored' = NoSession => Ended) /\ Rejoins
    <2>1. stored' # NoSession
      BY <1>4, SessionAssumption DEF SignInDone, NoSession, Idle, Shakes, SessionInv
    <2> QED
      BY <1>4, <2>1, NobodyJoins DEF SignInDone
  <1>5. ASSUME NEW t \in Tabs, SignOut(t)
        PROVE  (stored' = NoSession => Ended) /\ Rejoins
    <2>1. session'[t].bar = NoSession
      BY <1>5 DEF SignOut, SessionInv
    <2> QED
      BY <1>5, <2>1, NobodyJoins DEF SignOut, Ended
  <1>6. ASSUME UNCHANGED <<connected, stored>>
        PROVE  (stored' = NoSession => Ended) /\ Rejoins
    BY <1>6, NobodyJoins
  <1>7. ASSUME NEW t \in Tabs, Challenge(t) \/ Sign(t) \/ SignInFails(t) \/ VerifyReads(t)
        PROVE  UNCHANGED <<connected, stored>>
    BY <1>7 DEF Challenge, Sign, SignInFails, VerifyReads
  <1>8. ASSUME NEW v \in burning, VerifyBurns(v) PROVE UNCHANGED <<connected, stored>>
    BY <1>8 DEF VerifyBurns
  <1> QED
    BY <1>1, <1>2, <1>3, <1>4, <1>5, <1>6, <1>7, <1>8 DEF SessionNext, BarStep

\* A session names a wallet exactly when there is one, with any number of tabs.
THEOREM SessionCorrect == SessionSpec => []SessionInv
PROOF
  <1>1. SessionInit => SessionInv
    BY DEF SessionInit, SessionInv, Sessions, SignedOut
  <1>2. SessionInv /\ [SessionNext]_sessionVars => SessionInv'
    BY SessionStep
  <1> QED
    BY <1>1, <1>2, PTL DEF SessionSpec

\* useSession.ts:34-40: only signing out or another wallet ends the session on
\* disk, and its wallet is signed in again wherever it reconnects, in any number of
\* tabs.
THEOREM OutlivesReload == SessionSpec => SessionOutlivesReload
PROOF
  <1>1. SessionInv /\ [SessionNext]_sessionVars => [Outlives]_sessionVars
    BY OutlivesStep DEF Outlives
  <1>2. [][Outlives]_sessionVars => SessionOutlivesReload
    <2>1. Outlives =>
            (stored # NoSession =>
               /\ stored' = NoSession =>
                    \E t \in Tabs : \/ connected'[t] \notin {NoWallet, stored.wallet}
                                    \/ Authenticated(t, "bar") /\ connected' = connected
                                       /\ session'[t].bar = NoSession
               /\ \A t \in Tabs :
                    connected[t] # stored.wallet /\ connected'[t] = stored.wallet =>
                      session'[t] = [bar |-> stored, page |-> stored])
      BY DEF Outlives, Ended, Rejoins
    <2> QED
      BY <2>1, PTL DEF SessionOutlivesReload
  <1> QED
    BY <1>1, <1>2, SessionCorrect, PTL DEF SessionSpec

----------------------------------------------------------------------------
(* The operator page. *)

KeyKinds == {"register", "rotate"}

\* A transaction carries a key exactly when it registers or rotates one.
Txs == [kind : Deeds \cup KeyKinds, box : Boxes, by : Holders, key : Nat,
        awaited : BOOLEAN, executed : BOOLEAN]

\* A key on screen is a router's, or there is none.
KeysShown == [box : Boxes, key : Nat \ {0}] \cup {NoKeyShown}

\* What may be fetched for, and what the page may hold.
Subjects == Holders \cup Boxes
PageStates ==
  [routers : [of : Subjects \cup {NoWallet}, boxes : SUBSET Boxes],
   selected : Boxes \cup {NoBox}, epochs : Subjects \cup {NoBox},
   admin : {"none", "granted", "refused", "unreachable"}, timers : Nat]

\* What the page and the components hold, over wallets, routers and keys.
PageType ==
  /\ page \in PageStates
  /\ card \in [busy : SUBSET (Deeds \cup KeyKinds), rotated : KeysShown]
  /\ form \in [busy : BOOLEAN, device : KeysShown]
  /\ sent \subseteq Txs
  /\ \A t \in sent : t.key = 0 <=> t.kind \notin KeyKinds
  /\ deviceKey \in [Boxes -> Nat]
  /\ keys \in Nat

\* What is listed is registered, and only what is listed is rotated.
Registered ==
  /\ page.routers.boxes \subseteq indexed /\ indexed \subseteq Boxes
  /\ \A b \in indexed : deviceKey[b] # 0
  /\ \A t \in sent : t.kind = "rotate" => deviceKey[t.box] # 0
  /\ card.rotated # NoKeyShown => deviceKey[card.rotated.box] # 0

\* Keys are generated in order: a router's first key is its lowest.
FirstKeyLowest ==
  /\ \A t \in sent : t.key <= keys
  /\ form.device.key <= keys
  /\ \A t \in sent : t.kind = "register" /\ t.executed =>
       /\ deviceKey[t.box] >= t.key
       /\ \A u \in sent : u.kind = "rotate" /\ u.box = t.box =>
            u.key > t.key /\ (u.executed => deviceKey[t.box] > t.key)
       /\ card.rotated.box = t.box => deviceKey[t.box] > t.key
  /\ form.device # NoKeyShown =>
       /\ deviceKey[form.device.box] >= form.device.key
       /\ \A u \in sent : u.kind = "rotate" /\ u.box = form.device.box =>
            u.key > form.device.key

\* The card waits for one rotation at a time.
OneRotation ==
  \A t \in sent : t.kind = "rotate" /\ t.awaited =>
    /\ "rotate" \in card.busy
    /\ \A u \in sent : u.kind = "rotate" /\ u.awaited => u = t

\* Router b has key k, or has been given another that is still to be heard of, or
\* was and is not.
Accounted(b, k) ==
  \/ deviceKey[b] = k
  \/ b \in unheard
  \/ \E t \in sent : t.executed /\ t.box = b /\ t.key = deviceKey[b]

\* The keys the card shows, and the one it may show next, are accounted for.
CardAccounted ==
  /\ card.rotated # NoKeyShown => Accounted(card.rotated.box, card.rotated.key)
  /\ \A t \in sent : t.kind = "rotate" /\ t.executed /\ t.awaited => Accounted(t.box, t.key)

KeysInv == PageType /\ Registered /\ FirstKeyLowest /\ OneRotation /\ CardAccounted

\* What list l is for, if anything.
Subject(l) == IF l = "epochs" THEN page.selected ELSE connected[Here]
Wanted(l) ==
  CASE l = "routers" -> connected[Here] # NoWallet
    [] l = "epochs"  -> page.selected # NoBox
    [] OTHER         -> Authenticated(Here, "page")
Current(l) ==
  CASE l = "routers" -> page.routers.of = connected[Here]
    [] l = "epochs"  -> page.epochs = page.selected
    [] OTHER -> page.admin = IF connected[Here] = Admin THEN "granted" ELSE "refused"

\* The newest fetch of a list is for what is wanted now; once it is answered, that
\* is shown, or else an older answer or a failure is.
NewestWanted(l) ==
  /\ behind[l] <= Waiting(l)
  /\ Wanted(l) => IF behind[l] < Waiting(l) THEN flights[l][Waiting(l)] = Subject(l)
                  ELSE l \in stale \/ Current(l)

FetchType == flights \in [Lists -> Seq(Subjects)] /\ behind \in [Lists -> Nat]

FetchInv == FetchType /\ \A l \in Lists : NewestWanted(l)

----------------------------------------------------------------------------
(* The keys on screen. *)

\* Transaction u is t, whoever may still wait for it.
SameTx(t, u) ==
  /\ u.kind = t.kind /\ u.box = t.box /\ u.by = t.by /\ u.key = t.key
  /\ u.executed = t.executed

\* The transactions are what they were; fewer are waited for.
Mirrored ==
  /\ \A u \in sent' : \E t \in sent : SameTx(t, u) /\ (u.awaited => t.awaited)
  /\ \A t \in sent : \E u \in sent' : SameTx(t, u)

\* A transaction is its fields.
LEMMA TxFields ==
  ASSUME NEW t \in Txs, NEW u \in Txs, SameTx(t, u), u.awaited = t.awaited
  PROVE  u = t
PROOF
  <1>1. /\ t = [kind |-> t.kind, box |-> t.box, by |-> t.by, key |-> t.key,
                awaited |-> t.awaited, executed |-> t.executed]
        /\ u = [kind |-> u.kind, box |-> u.box, by |-> u.by, key |-> u.key,
                awaited |-> u.awaited, executed |-> u.executed]
    BY Zenon DEF Txs
  <1> QED
    BY <1>1, Zenon DEF SameTx

\* What is rendered keeps the transactions, and without a card nobody waits for a
\* rotation.
LEMMA RenderedTxs ==
  ASSUME sent \subseteq Txs, NEW w, NEW p, NEW c, NEW f, NEW txs,
         txs = sent \/ txs = {[t EXCEPT !.awaited = FALSE] : t \in sent},
         Renders(w, p, c, f, txs)
  PROVE  /\ sent' \subseteq Txs
         /\ Mirrored
         /\ ~CardShown(w, p) => \A u \in sent' : u.kind = "rotate" => ~u.awaited
         /\ txs # sent => \A u \in sent' : ~u.awaited
PROOF
  <1> DEFINE waits(t) == IF t.kind = "register" THEN w # NoWallet ELSE CardShown(w, p)
             shown(t) == [t EXCEPT !.awaited = @ /\ waits(t)]
  <1>1. sent' = {shown(t) : t \in txs}
    BY DEF Renders
  <1>2. \A t \in Txs : /\ shown(t) \in Txs /\ SameTx(t, shown(t))
                       /\ shown(t).awaited <=> t.awaited /\ waits(t)
    BY DEF Txs, SameTx
  <1>3. \A t \in Txs : /\ [t EXCEPT !.awaited = FALSE] \in Txs
                       /\ SameTx(t, [t EXCEPT !.awaited = FALSE])
                       /\ ~[t EXCEPT !.awaited = FALSE].awaited
    BY DEF Txs, SameTx
  <1> HIDE DEF shown
  <1>4. txs \subseteq Txs
    BY <1>3
  <1>5. sent' \subseteq Txs
    BY <1>1, <1>2, <1>4
  <1>6. Mirrored
    <2>1. CASE txs = sent
      BY <2>1, <1>1, <1>2 DEF Mirrored
    <2>2. CASE txs = {[t EXCEPT !.awaited = FALSE] : t \in sent}
      <3>1. ASSUME NEW u \in sent'
            PROVE  \E t \in sent : SameTx(t, u) /\ (u.awaited => t.awaited)
        <4>1. PICK s \in txs : u = shown(s)
          BY <1>1
        <4>2. PICK t \in sent : s = [t EXCEPT !.awaited = FALSE]
          BY <2>2
        <4>3. SameTx(t, s) /\ SameTx(s, u) /\ ~s.awaited
          BY <4>1, <4>2, <1>2, <1>3, <1>4
        <4>4. ~u.awaited
          BY <4>1, <4>3, <1>2, <1>4
        <4> QED
          BY <4>3, <4>4 DEF SameTx
      <3>2. ASSUME NEW t \in sent PROVE \E u \in sent' : SameTx(t, u)
        <4>1. PICK s \in txs : s = [t EXCEPT !.awaited = FALSE]
          BY <2>2
        <4>2. SameTx(t, s) /\ SameTx(s, shown(s)) /\ shown(s) \in sent'
          BY <4>1, <1>1, <1>2, <1>3, <1>4
        <4> QED
          BY <4>2 DEF SameTx
      <3> QED
        BY <3>1, <3>2 DEF Mirrored
    <2> QED
      BY <2>1, <2>2
  <1>7. ~CardShown(w, p) => \A u \in sent' : u.kind = "rotate" => ~u.awaited
    BY <1>1, <1>2, <1>4 DEF SameTx
  <1>8. txs # sent => \A u \in sent' : ~u.awaited
    <2> SUFFICES ASSUME txs = {[t EXCEPT !.awaited = FALSE] : t \in sent}
                 PROVE  \A u \in sent' : ~u.awaited
      OBVIOUS
    <2>1. \A s \in txs : ~s.awaited
      BY <1>3
    <2> QED
      BY <2>1, <1>1, <1>2, <1>4
  <1> QED
    BY <1>5, <1>6, <1>7, <1>8

\* With the same transactions, routers and keys, and no more on screen, the keys are
\* as good as they were.
LEMMA MirrorStep ==
  ASSUME KeysInv, Mirrored, sent' \subseteq Txs,
         page' \in PageStates, page'.routers.boxes \subseteq indexed,
         UNCHANGED <<deviceKey, indexed, keys, unheard>>,
         card' \in [busy : SUBSET (Deeds \cup KeyKinds), rotated : {card.rotated, NoKeyShown}],
         form' \in [busy : BOOLEAN, device : {form.device, NoKeyShown}],
         \/ "rotate" \in card.busy => "rotate" \in card'.busy
         \/ \A u \in sent' : u.kind = "rotate" => ~u.awaited
  PROVE  KeysInv'
PROOF
  <1>1. PageType'
    <2>1. /\ card' \in [busy : SUBSET (Deeds \cup KeyKinds), rotated : KeysShown]
          /\ form' \in [busy : BOOLEAN, device : KeysShown]
      BY DEF KeysInv, PageType, KeysShown
    <2>2. \A t \in sent' : t.key = 0 <=> t.kind \notin KeyKinds
      BY DEF KeysInv, PageType, Mirrored, SameTx
    <2> QED
      BY <2>1, <2>2 DEF KeysInv, PageType
  <1>2. Registered'
    BY DEF KeysInv, PageType, Registered, Mirrored, SameTx
  <1>3. NoBox \notin Boxes /\ \A u \in sent' : u.box \in Boxes
    BY OperatorPageAssumption DEF Txs
  <1>4. FirstKeyLowest'
    <2>1. \A u \in sent' : u.key <= keys
      BY DEF KeysInv, FirstKeyLowest, Mirrored, SameTx
    <2>2. form'.device.key <= keys
      BY DEF KeysInv, FirstKeyLowest, PageType, NoKeyShown
    <2>3. ASSUME NEW v \in sent', v.kind = "register", v.executed
          PROVE  /\ deviceKey[v.box] >= v.key
                 /\ \A u \in sent' : u.kind = "rotate" /\ u.box = v.box =>
                      u.key > v.key /\ (u.executed => deviceKey[v.box] > v.key)
                 /\ card'.rotated.box = v.box => deviceKey[v.box] > v.key
      <3>1. PICK t \in sent : SameTx(t, v)
        BY DEF Mirrored
      <3>2. t.kind = "register" /\ t.executed
        BY <2>3, <3>1 DEF SameTx
      <3>3. card'.rotated.box = v.box => card'.rotated = card.rotated
        BY <1>3 DEF NoKeyShown
      <3>4. /\ deviceKey[t.box] >= t.key
            /\ \A u \in sent : u.kind = "rotate" /\ u.box = t.box =>
                 u.key > t.key /\ (u.executed => deviceKey[t.box] > t.key)
            /\ card.rotated.box = t.box => deviceKey[t.box] > t.key
        BY <3>2 DEF KeysInv, FirstKeyLowest
      <3> QED
        BY <3>1, <3>3, <3>4 DEF SameTx, Mirrored
    <2>4. form'.device # NoKeyShown =>
            /\ deviceKey[form'.device.box] >= form'.device.key
            /\ \A u \in sent' : u.kind = "rotate" /\ u.box = form'.device.box =>
                 u.key > form'.device.key
      BY DEF KeysInv, FirstKeyLowest, Mirrored, SameTx
    <2> QED
      BY <2>1, <2>2, <2>3, <2>4 DEF FirstKeyLowest
  <1>5. OneRotation'
    <2> SUFFICES ASSUME NEW v \in sent', v.kind = "rotate", v.awaited
                 PROVE  /\ "rotate" \in card'.busy
                        /\ \A u \in sent' : u.kind = "rotate" /\ u.awaited => u = v
      BY DEF OneRotation
    <2>1. "rotate" \in card.busy => "rotate" \in card'.busy
      OBVIOUS
    <2>2. PICK t \in sent : SameTx(t, v) /\ t.awaited
      BY DEF Mirrored
    <2>3. t.kind = "rotate"
      BY <2>2 DEF SameTx
    <2>4. "rotate" \in card.busy
      BY <2>2, <2>3 DEF KeysInv, OneRotation
    <2>5. ASSUME NEW u \in sent', u.kind = "rotate", u.awaited PROVE u = v
      <3>1. PICK s \in sent : SameTx(s, u) /\ s.awaited
        BY <2>5 DEF Mirrored
      <3>2. s.kind = "rotate"
        BY <2>5, <3>1 DEF SameTx
      <3>3. s = t
        BY <2>2, <2>3, <3>1, <3>2 DEF KeysInv, OneRotation
      <3>4. u \in Txs /\ v \in Txs
        OBVIOUS
      <3>5. u.awaited = v.awaited
        BY <2>5, <3>4 DEF Txs
      <3>6. SameTx(v, u)
        BY <3>1, <3>3, <2>2 DEF SameTx
      <3> QED
        BY <3>4, <3>5, <3>6, TxFields
    <2> QED
      BY <2>1, <2>4, <2>5
  <1>6. \A b, k : Accounted(b, k) => Accounted(b, k)'
    BY DEF Accounted, Mirrored, SameTx
  <1>7. CardAccounted'
    <2>1. card'.rotated # NoKeyShown => Accounted(card.rotated.box, card.rotated.key)'
                                        /\ card'.rotated = card.rotated
      BY <1>6 DEF KeysInv, CardAccounted
    <2>2. ASSUME NEW v \in sent', v.kind = "rotate", v.executed, v.awaited
          PROVE  Accounted(v.box, v.key)'
      <3>1. PICK t \in sent : SameTx(t, v) /\ t.awaited
        BY <2>2 DEF Mirrored
      <3>2. Accounted(t.box, t.key)
        BY <2>2, <3>1 DEF KeysInv, CardAccounted, SameTx
      <3>3. Accounted(v.box, v.key)
        BY <3>1, <3>2 DEF SameTx
      <3> QED
        BY <3>3, <1>6
    <2> QED
      BY <2>1, <2>2 DEF CardAccounted
  <1> QED
    BY <1>1, <1>2, <1>4, <1>5, <1>7 DEF KeysInv

\* Components stay as they are, or are mounted anew.
Kept(c, f, txs) ==
  \/ txs = sent /\ c = card /\ f = form
  \/ txs = {[t EXCEPT !.awaited = FALSE] : t \in sent} /\ c = NoCard /\ f = NoForm

\* Rendering keeps the keys, whatever the session does.
LEMMA RenderStep ==
  ASSUME KeysInv, NEW w, NEW p, NEW c, NEW f, NEW txs, Kept(c, f, txs),
         Renders(w, p, c, f, txs),
         p.routers.boxes \subseteq indexed, p \in PageStates,
         UNCHANGED deviceKey, UNCHANGED indexed, UNCHANGED keys, UNCHANGED unheard
  PROVE  KeysInv'
PROOF
  <1> USE DEF Kept
  <1>1. sent \subseteq Txs
    BY DEF KeysInv, PageType
  <1>2. /\ sent' \subseteq Txs /\ Mirrored
        /\ ~CardShown(w, p) => \A u \in sent' : u.kind = "rotate" => ~u.awaited
        /\ txs # sent => \A u \in sent' : ~u.awaited
    BY <1>1, RenderedTxs
  <1>3. page' = p /\ (form' = form \/ form' = NoForm)
    BY DEF Renders
  <1>5. form' \in [busy : BOOLEAN, device : {form.device, NoKeyShown}]
    <2>1. NoForm \in [busy : BOOLEAN, device : {form.device, NoKeyShown}]
      BY DEF NoForm
    <2>2. form \in [busy : BOOLEAN, device : {form.device, NoKeyShown}]
      BY Zenon DEF KeysInv, PageType
    <2> QED
      BY <1>3, <2>1, <2>2
  <1>4. \/ card' = card
        \/ card' = NoCard /\ \A u \in sent' : u.kind = "rotate" => ~u.awaited
    <2>1. card' = IF CardShown(w, p) THEN c ELSE NoCard
      BY DEF Renders
    <2>2. CASE c = card
      BY <1>2, <2>1, <2>2
    <2>3. CASE txs = {[t EXCEPT !.awaited = FALSE] : t \in sent} /\ c = NoCard
      <3>1. CASE txs = sent
        <4>1. \A t \in sent : ~t.awaited
          <5> SUFFICES ASSUME NEW t \in sent PROVE ~t.awaited
            OBVIOUS
          <5>1. PICK u \in sent : t = [u EXCEPT !.awaited = FALSE]
            BY <2>3, <3>1
          <5> QED
            BY <5>1, <1>1 DEF Txs
        <4>2. \A u \in sent' : ~u.awaited
          BY <4>1, <1>2 DEF Mirrored
        <4> QED
          BY <2>1, <2>3, <4>2
      <3>2. CASE txs # sent
        BY <1>2, <2>1, <2>3, <3>2
      <3> QED
        BY <3>1, <3>2
    <2> QED
      BY <2>2, <2>3
  <1>6. card' \in [busy : SUBSET (Deeds \cup KeyKinds), rotated : {card.rotated, NoKeyShown}]
    BY <1>4 DEF KeysInv, PageType, NoCard
  <1> QED
    BY <1>2, <1>3, <1>4, <1>5, <1>6, MirrorStep

\* The common case: the components stay as they are where they are rendered.
LEMMA RerenderStep ==
  ASSUME KeysInv, NEW w, NEW p, Renders(w, p, card, form, sent),
         p.routers.boxes \subseteq indexed, p \in PageStates,
         UNCHANGED <<deviceKey, indexed, keys, unheard>>
  PROVE  KeysInv'
PROOF
  <1>1. PICK c, f, txs : c = card /\ f = form /\ txs = sent
    OBVIOUS
  <1>2. Renders(w, p, c, f, txs)
    BY <1>1
  <1>3. Kept(c, f, txs)
    BY <1>1 DEF Kept
  <1>4. UNCHANGED deviceKey /\ UNCHANGED indexed /\ UNCHANGED keys /\ UNCHANGED unheard
    OBVIOUS
  <1> QED
    BY <1>2, <1>3, <1>4, RenderStep, Zenon

\* The steps that only render.
LEMMA RenderingStep ==
  ASSUME KeysInv, FetchType,
         \/ \E w \in Holders \cup {NoWallet} : SwitchWalletHere(w)
         \/ ReloadHere \/ OpenPageHere \/ \E b \in Boxes : Select(b)
         \/ \E l \in Lists : \E i \in 1 .. Waiting(l) : FetchAnswered(l, i) \/ FetchFails(l, i)
  PROVE  KeysInv'
PROOF
  <1>0. /\ page.routers.boxes \subseteq indexed
        /\ page \in PageStates
    BY DEF KeysInv, PageType, Registered
  <1>1. ASSUME NEW w \in Holders \cup {NoWallet}, SwitchWalletHere(w) PROVE KeysInv'
    <2>0. PICK p : p = [page EXCEPT !.routers = IF w = NoWallet THEN Nothing ELSE @,
                                    !.admin = IF SignedInAfter THEN @ ELSE "none"]
      OBVIOUS
    <2>1. p.routers.boxes \subseteq indexed /\ p \in PageStates
      BY <1>0, <2>0 DEF Nothing, PageStates
    <2>2. Renders(w, p, card, form, sent) /\ UNCHANGED <<deviceKey, indexed, keys, unheard>>
      BY <1>1, <2>0 DEF SwitchWalletHere
    <2> QED
      BY <2>1, <2>2, RerenderStep
  <1>2. ASSUME Mounts PROVE KeysInv'
    <2>1. NoPage.routers.boxes \subseteq indexed /\ NoPage \in PageStates
      BY DEF NoPage, Nothing, PageStates
    <2>2. /\ Renders(connected'[Here], NoPage, NoCard, NoForm,
                     {[t EXCEPT !.awaited = FALSE] : t \in sent})
          /\ UNCHANGED <<deviceKey, indexed, keys, unheard>>
      BY <1>2 DEF Mounts
    <2> QED
      BY <2>1, <2>2, RenderStep DEF Kept
  <1>3. ASSUME NEW b \in Boxes, Select(b) PROVE KeysInv'
    <2>1. PICK chosen \in Boxes \cup {NoBox} :
            Renders(connected[Here],
                    [page EXCEPT !.selected = chosen,
                                 !.epochs = IF chosen = NoBox THEN NoBox ELSE @],
                    card, form, sent)
      BY <1>3 DEF Select
    <2>4. PICK p : p = [page EXCEPT !.selected = chosen,
                                    !.epochs = IF chosen = NoBox THEN NoBox ELSE @]
      OBVIOUS
    <2>2. p.routers.boxes \subseteq indexed /\ p \in PageStates
      BY <1>0, <2>4 DEF PageStates
    <2>3. UNCHANGED <<deviceKey, indexed, keys, unheard>>
      BY <1>3 DEF Select
    <2>5. Renders(connected[Here], p, card, form, sent)
      BY <2>1, <2>4
    <2> QED
      BY <2>2, <2>3, <2>5, RerenderStep
  <1>4. ASSUME NEW l \in Lists, NEW i \in 1 .. Waiting(l), FetchAnswered(l, i) PROVE KeysInv'
    <2>0. flights[l][i] \in Subjects
      BY DEF FetchType, Waiting
    <2>3. PICK p : p = Shown(l, flights[l][i])
      OBVIOUS
    <2>1. p.routers.boxes \subseteq indexed /\ p \in PageStates
      BY <1>0, <2>0, <2>3 DEF Shown, OwnedBy, PageStates, KeysInv, Registered
    <2>2. /\ Renders(connected[Here], p, card, form, sent)
          /\ UNCHANGED <<deviceKey, indexed, keys, unheard>>
      BY <1>4, <2>3 DEF FetchAnswered
    <2> QED
      BY <2>1, <2>2, RerenderStep
  <1>5. ASSUME NEW l \in Lists, NEW i \in 1 .. Waiting(l), FetchFails(l, i) PROVE KeysInv'
    <2>3. PICK p : p = ShownFailed(l)
      OBVIOUS
    <2>1. p.routers.boxes \subseteq indexed /\ p \in PageStates
      BY <1>0, <2>3 DEF ShownFailed, Nothing, PageStates
    <2>2. /\ Renders(connected[Here], p, card, form, sent)
          /\ UNCHANGED <<deviceKey, indexed, keys, unheard>>
      BY <1>5, <2>3 DEF FetchFails
    <2> QED
      BY <2>1, <2>2, RerenderStep
  <1> QED
    BY <1>1, <1>2, <1>3, <1>4, <1>5 DEF ReloadHere, OpenPageHere

\* A new transaction, with a new key if it has one, disturbs none of the keys.
LEMMA SendStep ==
  ASSUME KeysInv, NEW n \in Txs, ~n.executed, n.key = 0 <=> n.kind \notin KeyKinds,
         sent' = sent \cup {n},
         keys' \in Nat, keys' >= keys, n.key <= keys', n.kind = "rotate" => n.key > keys,
         UNCHANGED <<page, deviceKey, indexed, unheard>>,
         card' \in [busy : SUBSET (Deeds \cup KeyKinds), rotated : {card.rotated}],
         form' \in [busy : BOOLEAN, device : {form.device}],
         "rotate" \in card.busy => "rotate" \in card'.busy,
         n.kind = "rotate" => /\ deviceKey[n.box] # 0
                              /\ "rotate" \notin card.busy /\ "rotate" \in card'.busy
  PROVE  KeysInv'
PROOF
  <1>0. PageType /\ card'.rotated = card.rotated /\ form'.device = form.device
    BY DEF KeysInv
  <1>1. PageType'
    BY <1>0 DEF PageType
  <1>2. Registered'
    BY <1>0 DEF KeysInv, Registered
  <1>3. FirstKeyLowest'
    <2>1. \A t \in sent' : t.key <= keys'
      BY <1>0 DEF KeysInv, FirstKeyLowest, PageType, Txs
    <2>2. form'.device.key <= keys'
      <3>1. form.device.key \in Nat /\ form.device.key <= keys
        BY <1>0 DEF KeysInv, FirstKeyLowest, PageType, KeysShown, NoKeyShown
      <3> QED
        BY <1>0, <3>1 DEF PageType
    <2>3. ASSUME NEW t \in sent', t.kind = "register", t.executed
          PROVE  /\ deviceKey'[t.box] >= t.key
                 /\ \A u \in sent' : u.kind = "rotate" /\ u.box = t.box =>
                      u.key > t.key /\ (u.executed => deviceKey'[t.box] > t.key)
                 /\ card'.rotated.box = t.box => deviceKey'[t.box] > t.key
      <3>1. t \in sent
        BY <2>3
      <3>2. t.key \in Nat /\ t.key <= keys /\ n.key \in Nat /\ keys \in Nat
        BY <1>0, <3>1 DEF KeysInv, FirstKeyLowest, PageType, Txs
      <3> QED
        BY <1>0, <2>3, <3>1, <3>2 DEF KeysInv, FirstKeyLowest
    <2>4. form'.device # NoKeyShown =>
            /\ deviceKey'[form'.device.box] >= form'.device.key
            /\ \A u \in sent' : u.kind = "rotate" /\ u.box = form'.device.box =>
                 u.key > form'.device.key
      <3>1. form.device.key \in Nat /\ form.device.key <= keys /\ n.key \in Nat
        BY <1>0 DEF KeysInv, FirstKeyLowest, PageType, KeysShown, NoKeyShown, Txs
      <3>2. keys \in Nat
        BY <1>0 DEF PageType
      <3> QED
        BY <1>0, <3>1, <3>2 DEF KeysInv, FirstKeyLowest
    <2> QED
      BY <2>1, <2>2, <2>3, <2>4 DEF FirstKeyLowest
  <1>4. OneRotation'
    BY DEF KeysInv, OneRotation
  <1>5. \A b, k : Accounted(b, k) => Accounted(b, k)'
    BY DEF Accounted
  <1>6. CardAccounted'
    BY <1>0, <1>5 DEF KeysInv, CardAccounted
  <1> QED
    BY <1>1, <1>2, <1>3, <1>4, <1>6 DEF KeysInv

\* What the card and the form send.
LEMMA ClickStep ==
  ASSUME KeysInv, SessionInv,
         Rotate \/ (\E deed \in Deeds : Act(deed)) \/ \E b \in Boxes : Submit(b)
  PROVE  KeysInv'
PROOF
  <1>0. /\ PageType /\ keys \in Nat /\ keys + 1 \in Nat /\ Deeds \cap KeyKinds = {}
        /\ connected[Here] # NoWallet => connected[Here] \in Holders
    BY OperatorPageAssumption DEF KeysInv, PageType, SessionInv, KeyKinds
  <1>1. CASE Rotate
    <2>1. /\ connected[Here] # NoWallet /\ page.selected \in page.routers.boxes
          /\ "rotate" \notin card.busy
      BY <1>1 DEF Rotate, MayRotate, CardShown
    <2>2. page.selected \in Boxes /\ deviceKey[page.selected] # 0
      BY <1>0, <2>1 DEF KeysInv, Registered
    <2>3. PICK n : n = [kind |-> "rotate", box |-> page.selected, by |-> connected[Here],
                        key |-> keys + 1, awaited |-> TRUE, executed |-> FALSE]
      OBVIOUS
    <2>4. /\ n \in Txs /\ ~n.executed /\ n.kind = "rotate" /\ n.box = page.selected
          /\ n.key = keys + 1
      BY <1>0, <2>1, <2>2, <2>3 DEF Txs, KeyKinds
    <2>5. /\ keys' = keys + 1 /\ sent' = sent \cup {n}
          /\ UNCHANGED <<page, deviceKey, indexed, unheard>>
      BY <1>1, <2>3 DEF Rotate, Sends
    <2>6. /\ card' \in [busy : SUBSET (Deeds \cup KeyKinds), rotated : {card.rotated}]
          /\ "rotate" \in card'.busy
      BY <1>0, <1>1 DEF Rotate, PageType, KeyKinds
    <2>7. form' \in [busy : BOOLEAN, device : {form.device}]
      <3>1. form' = form
        BY <1>1 DEF Rotate
      <3> QED
        BY <1>0, <3>1, Zenon DEF PageType
    <2>8. /\ n.key = 0 <=> n.kind \notin KeyKinds
          /\ keys' \in Nat /\ keys' >= keys /\ n.key <= keys' /\ n.key > keys
      BY <1>0, <2>4, <2>5 DEF KeyKinds
    <2> QED
      BY <2>1, <2>2, <2>4, <2>5, <2>6, <2>7, <2>8, SendStep
  <1>2. ASSUME NEW deed \in Deeds, Act(deed) PROVE KeysInv'
    <2>1. /\ connected[Here] # NoWallet /\ page.selected \in page.routers.boxes
      BY <1>2 DEF Act, CardShown
    <2>2. page.selected \in Boxes
      BY <1>0, <2>1 DEF KeysInv, Registered
    <2>3. PICK n : n = [kind |-> deed, box |-> page.selected, by |-> connected[Here],
                        key |-> 0, awaited |-> TRUE, executed |-> FALSE]
      OBVIOUS
    <2>4. /\ n \in Txs /\ ~n.executed /\ n.kind = deed /\ n.key = 0
      BY <1>0, <2>1, <2>2, <2>3 DEF Txs
    <2>5. /\ keys' = keys /\ sent' = sent \cup {n}
          /\ UNCHANGED <<page, deviceKey, indexed, unheard>>
      BY <1>2, <2>3 DEF Act, Sends
    <2>6. /\ card' \in [busy : SUBSET (Deeds \cup KeyKinds), rotated : {card.rotated}]
          /\ "rotate" \in card.busy => "rotate" \in card'.busy
      BY <1>0, <1>2 DEF Act, PageType
    <2>7. form' \in [busy : BOOLEAN, device : {form.device}]
      <3>1. form' = form
        BY <1>2 DEF Act
      <3> QED
        BY <1>0, <3>1, Zenon DEF PageType
    <2>8. /\ n.key = 0 <=> n.kind \notin KeyKinds
          /\ n.kind # "rotate" /\ keys' \in Nat /\ keys' >= keys /\ n.key <= keys'
      BY <1>0, <2>4, <2>5 DEF KeyKinds
    <2> QED
      BY <2>4, <2>5, <2>6, <2>7, <2>8, SendStep
  <1>3. ASSUME NEW b \in Boxes, Submit(b) PROVE KeysInv'
    <2>3. PICK n : n = [kind |-> "register", box |-> b, by |-> connected[Here],
                        key |-> keys + 1, awaited |-> TRUE, executed |-> FALSE]
      OBVIOUS
    <2>4. /\ n \in Txs /\ ~n.executed /\ n.kind = "register" /\ n.key = keys + 1
      BY <1>0, <1>3, <2>3 DEF Txs, KeyKinds, Submit
    <2>5. /\ keys' = keys + 1 /\ sent' = sent \cup {n}
          /\ UNCHANGED <<page, deviceKey, indexed, unheard>>
      BY <1>3, <2>3 DEF Submit, Sends
    <2>6. /\ card' \in [busy : SUBSET (Deeds \cup KeyKinds), rotated : {card.rotated}]
          /\ "rotate" \in card.busy => "rotate" \in card'.busy
      <3>1. card' = card
        BY <1>3 DEF Submit
      <3> QED
        BY <1>0, <3>1, Zenon DEF PageType
    <2>7. form' \in [busy : BOOLEAN, device : {form.device}]
      BY <1>0, <1>3 DEF PageType, Submit
    <2>8. /\ n.key = 0 <=> n.kind \notin KeyKinds
          /\ n.kind # "rotate" /\ keys' \in Nat /\ keys' >= keys /\ n.key <= keys'
      BY <1>0, <2>4, <2>5 DEF KeyKinds
    <2> QED
      BY <2>4, <2>5, <2>6, <2>7, <2>8, SendStep
  <1> QED
    BY <1>1, <1>2, <1>3

\* The program accepts a registration of a router only once and a rotation only
\* after it; nobody else hears of a key whose transaction is no longer waited for.
LEMMA ExecuteStep ==
  ASSUME KeysInv, NEW t \in sent, Executes(t)
  PROVE  KeysInv'
PROOF
  <1>0. /\ PageType /\ t \in Txs /\ t.box \in Boxes /\ t.key \in Nat /\ ~t.executed
        /\ t.kind = "register" <=> deviceKey[t.box] = 0
        /\ t.key = 0 <=> t.kind \notin KeyKinds
        /\ UNCHANGED <<page, card, form, indexed, keys>>
    BY DEF KeysInv, PageType, Txs, Executes, Accepts
  <1>1. PICK n : n = [t EXCEPT !.executed = TRUE]
    OBVIOUS
  <1>2. /\ n \in Txs /\ n.kind = t.kind /\ n.box = t.box /\ n.key = t.key
        /\ n.awaited = t.awaited /\ n.executed
    BY <1>0, <1>1 DEF Txs
  <1>3. /\ \A u \in sent' : u \in sent \/ (u = n /\ t.awaited)
        /\ \A u \in sent : u # t => u \in sent'
        /\ t.awaited => n \in sent'
    BY <1>1 DEF Executes
  <1>4. /\ deviceKey' \in [Boxes -> Nat]
        /\ \A b \in Boxes : b # t.box => deviceKey'[b] = deviceKey[b]
        /\ deviceKey'[t.box] = IF t.key # 0 THEN t.key ELSE deviceKey[t.box]
        /\ unheard \subseteq unheard'
        /\ t.awaited \/ t.key = 0 \/ t.box \in unheard'
    BY <1>0 DEF Executes, PageType
  <1>5. \A b \in Boxes : deviceKey[b] # 0 => deviceKey'[b] # 0
    BY <1>4
  <1>6. \A u \in sent' : u.box \in Boxes /\ u.key \in Nat
    BY <1>0, <1>2, <1>3 DEF PageType, Txs
  <1>7. PageType'
    <2>1. sent' \subseteq Txs /\ \A u \in sent' : u.key = 0 <=> u.kind \notin KeyKinds
      BY <1>0, <1>2, <1>3 DEF PageType
    <2> QED
      BY <1>0, <1>4, <2>1 DEF PageType
  <1>8. Registered'
    <2>1. card.rotated # NoKeyShown => card.rotated.box \in Boxes
      BY <1>0 DEF PageType, KeysShown
    <2>2. \A u \in sent' : u.kind = "rotate" => deviceKey'[u.box] # 0
      BY <1>0, <1>2, <1>3, <1>5, <1>6 DEF KeysInv, Registered, KeyKinds
    <2> QED
      BY <1>0, <1>5, <2>1, <2>2 DEF KeysInv, Registered
  <1>9. FirstKeyLowest'
    <2>1. \A u \in sent' : u.key <= keys'
      BY <1>0, <1>2, <1>3 DEF KeysInv, FirstKeyLowest
    <2>2. form'.device.key <= keys'
      BY <1>0 DEF KeysInv, FirstKeyLowest
    <2>3. ASSUME NEW v \in sent', v.kind = "register", v.executed
          PROVE  /\ deviceKey'[v.box] >= v.key
                 /\ \A u \in sent' : u.kind = "rotate" /\ u.box = v.box =>
                      u.key > v.key /\ (u.executed => deviceKey'[v.box] > v.key)
                 /\ card'.rotated.box = v.box => deviceKey'[v.box] > v.key
      <3>1. CASE t.kind = "register" /\ v.box = t.box
        <4>1. v \notin sent
          <5> SUFFICES ASSUME v \in sent PROVE FALSE
            OBVIOUS
          <5>1. deviceKey[v.box] >= v.key /\ v.key # 0 /\ v.key \in Nat
            BY <2>3, <1>6 DEF KeysInv, FirstKeyLowest, PageType, KeyKinds
          <5> QED
            BY <3>1, <5>1, <1>0
        <4>2. v = n
          BY <4>1, <1>3
        <4>3. deviceKey'[v.box] = v.key
          BY <3>1, <4>2, <1>0, <1>2, <1>4 DEF KeyKinds
        <4>4. \A u \in sent' : u.kind = "rotate" => u.box # v.box
          BY <3>1, <1>0, <1>2, <1>3 DEF KeysInv, Registered
        <4>5. card.rotated.box # v.box
          BY <3>1, <1>0, <1>6, OperatorPageAssumption
          DEF KeysInv, Registered, PageType, NoKeyShown
        <4> QED
          BY <4>3, <4>4, <4>5, <1>0, <1>6
      <3>2. CASE ~(t.kind = "register" /\ v.box = t.box)
        <4>1. v \in sent /\ v.box \in Boxes /\ v.key \in Nat
          BY <3>2, <2>3, <1>2, <1>3, <1>6
        <4>2. /\ deviceKey[v.box] >= v.key
              /\ \A u \in sent : u.kind = "rotate" /\ u.box = v.box =>
                   u.key > v.key /\ (u.executed => deviceKey[v.box] > v.key)
              /\ card.rotated.box = v.box => deviceKey[v.box] > v.key
          BY <4>1, <2>3 DEF KeysInv, FirstKeyLowest
        <4>3. v.box = t.box /\ t.key # 0 => t.kind = "rotate" /\ t.key > v.key
          BY <4>2, <3>2, <1>0 DEF KeyKinds
        <4>4. deviceKey'[v.box] = deviceKey[v.box] \/ deviceKey'[v.box] > v.key
          BY <4>1, <4>3, <1>4
        <4>5. v.box = t.box /\ t.kind = "rotate" => deviceKey'[v.box] > v.key
          BY <4>3, <1>0, <1>4 DEF KeyKinds
        <4>6. deviceKey'[v.box] \in Nat /\ deviceKey[v.box] \in Nat
          BY <4>1, <1>0, <1>4 DEF PageType
        <4>7. \A u \in sent' : u.kind = "rotate" /\ u.box = v.box =>
                u.key > v.key /\ (u.executed => deviceKey'[v.box] > v.key)
          BY <4>2, <4>4, <4>5, <1>2, <1>3
        <4> QED
          BY <4>1, <4>2, <4>4, <4>6, <4>7, <1>0
      <3> QED
        BY <3>1, <3>2
    <2>4. form'.device # NoKeyShown =>
            /\ deviceKey'[form'.device.box] >= form'.device.key
            /\ \A u \in sent' : u.kind = "rotate" /\ u.box = form'.device.box =>
                 u.key > form'.device.key
      <3> SUFFICES ASSUME form.device # NoKeyShown
                   PROVE  /\ deviceKey'[form.device.box] >= form.device.key
                          /\ \A u \in sent' : u.kind = "rotate" /\ u.box = form.device.box =>
                               u.key > form.device.key
        BY <1>0
      <3>1. form.device.box \in Boxes /\ form.device.key \in Nat /\ form.device.key # 0
        BY <1>0 DEF PageType, KeysShown
      <3>2. /\ deviceKey[form.device.box] >= form.device.key
            /\ \A u \in sent : u.kind = "rotate" /\ u.box = form.device.box =>
                 u.key > form.device.key
        BY DEF KeysInv, FirstKeyLowest
      <3>3. \A u \in sent' : u.kind = "rotate" /\ u.box = form.device.box =>
              u.key > form.device.key
        BY <3>2, <1>2, <1>3
      <3>4. deviceKey[form.device.box] # 0
        BY <3>1, <3>2
      <3>5. t.box = form.device.box /\ t.key # 0 => t.key > form.device.key
        BY <3>2, <3>4, <1>0 DEF KeyKinds
      <3>6. deviceKey'[form.device.box] >= form.device.key
        BY <3>1, <3>2, <3>5, <1>0, <1>4
      <3> QED
        BY <3>3, <3>6
    <2> QED
      BY <2>1, <2>2, <2>3, <2>4 DEF FirstKeyLowest
  <1>10. OneRotation'
    <2> SUFFICES ASSUME NEW v \in sent', v.kind = "rotate", v.awaited
                 PROVE  /\ "rotate" \in card.busy
                        /\ \A u \in sent' : u.kind = "rotate" /\ u.awaited => u = v
      BY <1>0 DEF OneRotation
    <2>1. \A u, w \in sent :
            /\ u.kind = "rotate" /\ u.awaited => "rotate" \in card.busy
            /\ u.kind = "rotate" /\ u.awaited /\ w.kind = "rotate" /\ w.awaited => u = w
      BY DEF KeysInv, OneRotation
    <2>2. t \notin sent' \/ t = n
      BY <1>1 DEF Executes
    <2>3. t # n
      BY <1>0, <1>2
    <2>4. \A u \in sent' : u.kind = "rotate" /\ u.awaited =>
            (u \in sent /\ u # t) \/ (u = n /\ t.kind = "rotate" /\ t.awaited)
      BY <2>2, <2>3, <1>2, <1>3
    <2> QED
      BY <2>1, <2>4
  <1>11. ASSUME NEW b \in Boxes, NEW k, Accounted(b, k) PROVE Accounted(b, k)'
    <2>1. CASE b = t.box /\ t.key # 0
      BY <2>1, <1>2, <1>3, <1>4 DEF Accounted
    <2>2. CASE ~(b = t.box /\ t.key # 0)
      <3>1. deviceKey'[b] = deviceKey[b]
        BY <2>2, <1>4
      <3> QED
        BY <3>1, <1>11, <1>0, <1>3, <1>4 DEF Accounted
    <2> QED
      BY <2>1, <2>2
  <1>12. CardAccounted'
    <2>1. card.rotated # NoKeyShown => Accounted(card.rotated.box, card.rotated.key)'
      <3>1. card.rotated # NoKeyShown => card.rotated.box \in Boxes
        BY <1>0 DEF PageType, KeysShown
      <3> QED
        BY <3>1, <1>0, <1>11 DEF KeysInv, CardAccounted
    <2>2. ASSUME NEW v \in sent', v.kind = "rotate", v.executed, v.awaited
          PROVE  Accounted(v.box, v.key)'
      <3>1. CASE v = n
        BY <3>1, <2>2, <1>0, <1>2, <1>4 DEF Accounted, KeyKinds
      <3>2. CASE v \in sent
        BY <3>2, <2>2, <1>6, <1>11 DEF KeysInv, CardAccounted
      <3> QED
        BY <3>1, <3>2, <1>3
    <2> QED
      BY <2>1, <2>2, <1>0 DEF CardAccounted
  <1> QED
    BY <1>7, <1>8, <1>9, <1>10, <1>12 DEF KeysInv

\* A router whose key is another's than k has been given it unheard, or a transaction
\* that is no longer there was not what gave it.
LEMMA StillAccounted ==
  ASSUME NEW b, NEW k, Accounted(b, k), NEW t \in sent,
         UNCHANGED deviceKey, sent' = sent \ {t}, unheard \subseteq unheard',
         \/ b \in unheard'
         \/ deviceKey[b] = k
         \/ ~(t.executed /\ t.box = b /\ t.key = deviceKey[b])
  PROVE  Accounted(b, k)'
PROOF
  BY DEF Accounted

\* What is given up without having been heard of is remembered.
LEMMA ExpireStep ==
  ASSUME KeysInv, NEW t \in sent, Expires(t)
  PROVE  KeysInv'
PROOF
  <1>0. /\ PageType /\ t \in Txs /\ ~t.awaited
        /\ UNCHANGED <<page, card, form, deviceKey, indexed, keys>>
        /\ sent' = sent \ {t} /\ unheard \subseteq unheard'
        /\ t.executed /\ t.key # 0 => t.box \in unheard'
    BY DEF KeysInv, PageType, Expires
  <1>1. PageType'
    BY <1>0 DEF PageType
  <1>2. Registered' /\ FirstKeyLowest' /\ OneRotation'
    BY <1>0 DEF KeysInv, Registered, FirstKeyLowest, OneRotation
  <1>3. ASSUME NEW b, NEW k, deviceKey[b] # 0, Accounted(b, k) PROVE Accounted(b, k)'
    <2>1. b \in unheard' \/ ~(t.executed /\ t.box = b /\ t.key = deviceKey[b])
      BY <1>0, <1>3
    <2> QED
      BY <2>1, <1>0, <1>3, StillAccounted
  <1>4. CardAccounted'
    BY <1>0, <1>3 DEF KeysInv, CardAccounted, Registered
  <1> QED
    BY <1>1, <1>2, <1>4 DEF KeysInv

\* What the page hears of, it shows.
LEMMA ConfirmStep ==
  ASSUME KeysInv, NEW t \in sent, Confirmed(t)
  PROVE  KeysInv'
PROOF
  <1>0. /\ PageType /\ t \in Txs /\ t.box \in Boxes /\ t.key \in Nat
        /\ t.executed /\ t.awaited
        /\ t.key = 0 <=> t.kind \notin KeyKinds
        /\ UNCHANGED <<deviceKey, indexed, keys, unheard>>
        /\ sent' = sent \ {t} /\ NoBox \notin Boxes
        /\ page' = [page EXCEPT !.timers = @ + 1]
    BY OperatorPageAssumption DEF KeysInv, PageType, Txs, Confirmed
  <1>1. PICK shown : shown = [box |-> t.box, key |-> t.key]
    OBVIOUS
  <1>2. /\ t.kind = "register" => form'.device = shown /\ card' = card
        /\ t.kind = "rotate" => card'.rotated = shown
        /\ t.kind # "register" => form' = form
        /\ t.kind # "rotate" => card'.rotated = card.rotated
        /\ t.kind # "rotate" /\ "rotate" \in card.busy => "rotate" \in card'.busy
    BY <1>1 DEF Confirmed
  <1>3. t.kind \in KeyKinds => shown \in KeysShown
    BY <1>0, <1>1 DEF KeysShown
  <1>4. PageType'
    <2>1. page' \in PageStates
      BY <1>0 DEF PageType, PageStates
    <2>2. card' \in [busy : SUBSET (Deeds \cup KeyKinds), rotated : KeysShown]
      BY <1>0, <1>1, <1>3 DEF PageType, Confirmed, KeyKinds
    <2>3. form' \in [busy : BOOLEAN, device : KeysShown]
      <3>1. CASE t.kind = "register"
        <4>1. form' = [busy |-> FALSE, device |-> shown] /\ shown \in KeysShown
          BY <3>1, <1>1, <1>3 DEF Confirmed, KeyKinds
        <4> QED
          BY <4>1
      <3>2. CASE t.kind # "register"
        BY <3>2, <1>0, <1>2, Zenon DEF PageType
      <3> QED
        BY <3>1, <3>2
    <2> QED
      BY <2>1, <2>2, <2>3, <1>0 DEF PageType
  <1>5. Registered'
    <2>1. page'.routers.boxes = page.routers.boxes
      BY <1>0 DEF PageType, PageStates
    <2>2. card'.rotated # NoKeyShown => deviceKey[card'.rotated.box] # 0
      BY <1>0, <1>1, <1>2 DEF KeysInv, Registered
    <2> QED
      BY <2>1, <2>2, <1>0 DEF KeysInv, Registered
  <1>6. \A u \in sent : u.box \in Boxes /\ u.key \in Nat /\ u.key <= keys
    BY <1>0 DEF PageType, Txs, KeysInv, FirstKeyLowest
  <1>7. FirstKeyLowest'
    <2>1. \A u \in sent' : u.key <= keys
      BY <1>0, <1>6
    <2>2. form'.device.key <= keys
      BY <1>0, <1>1, <1>2, <1>6 DEF KeysInv, FirstKeyLowest
    <2>3. ASSUME NEW v \in sent', v.kind = "register", v.executed
          PROVE  /\ deviceKey[v.box] >= v.key
                 /\ \A u \in sent' : u.kind = "rotate" /\ u.box = v.box =>
                      u.key > v.key /\ (u.executed => deviceKey[v.box] > v.key)
                 /\ card'.rotated.box = v.box => deviceKey[v.box] > v.key
      <3>1. v \in sent
        BY <1>0
      <3>2. /\ deviceKey[v.box] >= v.key
            /\ \A u \in sent : u.kind = "rotate" /\ u.box = v.box =>
                 u.key > v.key /\ (u.executed => deviceKey[v.box] > v.key)
            /\ card.rotated.box = v.box => deviceKey[v.box] > v.key
        BY <3>1, <2>3 DEF KeysInv, FirstKeyLowest
      <3>3. card'.rotated.box = v.box => deviceKey[v.box] > v.key
        <4>1. CASE t.kind = "rotate"
          BY <4>1, <3>2, <1>0, <1>1, <1>2
        <4>2. CASE t.kind # "rotate"
          BY <4>2, <3>2, <1>2
        <4> QED
          BY <4>1, <4>2
      <3> QED
        BY <3>2, <3>3, <1>0
    <2>4. form'.device # NoKeyShown =>
            /\ deviceKey[form'.device.box] >= form'.device.key
            /\ \A u \in sent' : u.kind = "rotate" /\ u.box = form'.device.box =>
                 u.key > form'.device.key
      <3>1. CASE t.kind = "register"
        BY <3>1, <1>0, <1>1, <1>2 DEF KeysInv, FirstKeyLowest
      <3>2. CASE t.kind # "register"
        BY <3>2, <1>0, <1>2 DEF KeysInv, FirstKeyLowest
      <3> QED
        BY <3>1, <3>2
    <2> QED
      BY <2>1, <2>2, <2>3, <2>4, <1>0 DEF FirstKeyLowest
  <1>8. OneRotation'
    <2>1. CASE t.kind = "rotate"
      <3>1. \A u \in sent' : u.kind = "rotate" => ~u.awaited
        BY <2>1, <1>0 DEF KeysInv, OneRotation
      <3> QED
        BY <3>1 DEF OneRotation
    <2>2. CASE t.kind # "rotate"
      BY <2>2, <1>0, <1>2 DEF KeysInv, OneRotation
    <2> QED
      BY <2>1, <2>2
  <1>9. CardAccounted'
    <2>1. CASE t.kind = "rotate"
      <3>1. \A u \in sent' : u.kind = "rotate" => ~u.awaited
        BY <2>1, <1>0 DEF KeysInv, OneRotation
      <3>2. Accounted(t.box, t.key)
        BY <2>1, <1>0 DEF KeysInv, CardAccounted
      <3>3. Accounted(t.box, t.key)'
        <4>1. deviceKey[t.box] = t.key \/ ~(t.executed /\ t.box = t.box /\ t.key = deviceKey[t.box])
          OBVIOUS
        <4> QED
          BY <3>2, <4>1, <1>0, StillAccounted
      <3>4. card'.rotated.box = t.box /\ card'.rotated.key = t.key
        BY <2>1, <1>1, <1>2
      <3> QED
        BY <3>1, <3>3, <3>4 DEF CardAccounted
    <2>2. CASE t.kind # "rotate"
      <3>1. ASSUME NEW b, NEW k, Accounted(b, k), deviceKey[b] # 0,
                   t.kind = "register" /\ t.box = b => deviceKey[b] > t.key
            PROVE  Accounted(b, k)'
        <4>1. ~(t.executed /\ t.box = b /\ t.key = deviceKey[b])
          BY <3>1, <2>2, <1>0 DEF KeyKinds, PageType
        <4> QED
          BY <3>1, <4>1, <1>0, StillAccounted
      <3>2. card.rotated # NoKeyShown => Accounted(card.rotated.box, card.rotated.key)'
        <4> SUFFICES ASSUME card.rotated # NoKeyShown
                     PROVE  Accounted(card.rotated.box, card.rotated.key)'
          OBVIOUS
        <4>1. PICK b, k : b = card.rotated.box /\ k = card.rotated.key
          OBVIOUS
        <4>2. Accounted(b, k) /\ deviceKey[b] # 0
          BY <4>1 DEF KeysInv, CardAccounted, Registered
        <4>3. t.kind = "register" /\ t.box = b => deviceKey[b] > t.key
          BY <4>1, <1>0 DEF KeysInv, FirstKeyLowest
        <4>4. Accounted(b, k)'
          BY <4>2, <4>3, <3>1
        <4>5. b = card'.rotated.box /\ k = card'.rotated.key
          BY <4>1, <2>2, <1>2
        <4> QED
          BY <4>4, <4>5
      <3>3. ASSUME NEW u \in sent', u.kind = "rotate", u.executed, u.awaited
            PROVE  Accounted(u.box, u.key)'
        <4>1. u \in sent /\ Accounted(u.box, u.key) /\ deviceKey[u.box] # 0
          BY <3>3, <1>0 DEF KeysInv, CardAccounted, Registered
        <4>2. t.kind = "register" /\ t.box = u.box => deviceKey[u.box] > t.key
          BY <3>3, <4>1, <1>0 DEF KeysInv, FirstKeyLowest
        <4> QED
          BY <4>1, <4>2, <3>1
      <3> QED
        BY <3>2, <3>3, <2>2, <1>2 DEF CardAccounted
    <2> QED
      BY <2>1, <2>2
  <1> QED
    BY <1>4, <1>5, <1>7, <1>8, <1>9 DEF KeysInv

\* Giving up waiting, the timer, dismissing a key and a new document of the indexer
\* leave the transactions and the keys what they were.
LEMMA QuietStep ==
  ASSUME KeysInv,
         TimerFires \/ Dismiss \/ (\E b \in Boxes : Projects(b)) \/ \E t \in sent : TxThrows(t)
  PROVE  KeysInv'
PROOF
  <1>0. /\ PageType /\ sent \subseteq Txs
        /\ card \in [busy : SUBSET (Deeds \cup KeyKinds), rotated : {card.rotated, NoKeyShown}]
        /\ form \in [busy : BOOLEAN, device : {form.device, NoKeyShown}]
        /\ page \in PageStates /\ page.routers.boxes \subseteq indexed
        /\ NoForm \in [busy : BOOLEAN, device : {form.device, NoKeyShown}]
    <2>1. /\ card \in [busy : SUBSET (Deeds \cup KeyKinds), rotated : {card.rotated, NoKeyShown}]
          /\ form \in [busy : BOOLEAN, device : {form.device, NoKeyShown}]
      BY Zenon DEF KeysInv, PageType
    <2> QED
      BY <2>1 DEF KeysInv, PageType, Registered, NoForm
  <1>1. sent' = sent => Mirrored
    BY DEF Mirrored, SameTx
  <1>2. CASE TimerFires
    <2>1. page' \in PageStates /\ page'.routers.boxes = page.routers.boxes
      BY <1>0, <1>2 DEF TimerFires, PageStates
    <2>2. UNCHANGED <<card, form, sent, deviceKey, indexed, keys, unheard>>
      BY <1>2 DEF TimerFires, chainVars
    <2> QED
      BY <2>1, <2>2, <1>0, <1>1, MirrorStep
  <1>3. CASE Dismiss
    <2>1. /\ form' = NoForm
          /\ UNCHANGED <<page, card, sent, deviceKey, indexed, keys, unheard>>
      BY <1>3 DEF Dismiss, chainVars
    <2> QED
      BY <2>1, <1>0, <1>1, MirrorStep
  <1>4. ASSUME NEW b \in Boxes, Projects(b) PROVE KeysInv'
    <2>1. /\ deviceKey[b] # 0 /\ indexed' = indexed \cup {b}
          /\ UNCHANGED <<page, card, form, sent, deviceKey, keys, unheard>>
      BY <1>4 DEF Projects
    <2>2. PageType' /\ Registered'
      BY <2>1 DEF KeysInv, PageType, Registered
    <2>3. FirstKeyLowest' /\ OneRotation' /\ CardAccounted'
      BY <2>1 DEF KeysInv, FirstKeyLowest, OneRotation, CardAccounted, Accounted
    <2> QED
      BY <2>2, <2>3 DEF KeysInv
  <1>5. ASSUME NEW t \in sent, TxThrows(t) PROVE KeysInv'
    <2>1. PICK n : n = [t EXCEPT !.awaited = FALSE]
      OBVIOUS
    <2>2. n \in Txs /\ SameTx(t, n) /\ ~n.awaited
      BY <2>1, <1>0 DEF Txs, SameTx
    <2>3. /\ t.awaited /\ sent' = (sent \ {t}) \cup {n}
          /\ UNCHANGED <<page, deviceKey, indexed, keys, unheard>>
      BY <1>5, <2>1 DEF TxThrows
    <2>4. Mirrored /\ sent' \subseteq Txs
      <3>1. \A u \in sent' : \E v \in sent : SameTx(v, u) /\ (u.awaited => v.awaited)
        BY <2>2, <2>3 DEF SameTx
      <3>2. \A v \in sent : \E u \in sent' : SameTx(v, u)
        BY <2>2, <2>3 DEF SameTx
      <3> QED
        BY <3>1, <3>2, <2>2, <2>3, <1>0 DEF Mirrored
    <2>5. \/ form' = NoForm /\ card' = card
          \/ form' = form /\ card' = [card EXCEPT !.busy = @ \ {t.kind}]
      BY <1>5 DEF TxThrows
    <2>6. /\ card' \in [busy : SUBSET (Deeds \cup KeyKinds), rotated : {card.rotated, NoKeyShown}]
          /\ "rotate" \in card.busy /\ t.kind # "rotate" => "rotate" \in card'.busy
      BY <2>5, <1>0
    <2>7. form' \in [busy : BOOLEAN, device : {form.device, NoKeyShown}]
      BY <2>5, <1>0
    <2>8. t.kind = "rotate" => \A u \in sent' : u.kind = "rotate" => ~u.awaited
      BY <2>2, <2>3 DEF KeysInv, OneRotation
    <2> QED
      BY <2>3, <2>4, <2>6, <2>7, <2>8, <1>0, MirrorStep
  <1> QED
    BY <1>2, <1>3, <1>4, <1>5

\* The steps elsewhere keep what the page holds.
LEMMA KeysStep ==
  ASSUME SessionInv, KeysInv, FetchType, [PageNext]_<<sessionVars, pageVars>>
  PROVE  KeysInv'
PROOF
  <1>1. CASE UNCHANGED pageVars
    BY <1>1 DEF pageVars, chainVars, KeysInv, PageType, Registered, FirstKeyLowest,
                OneRotation, CardAccounted, Accounted
  <1>2. CASE PageNext
    <2>1. ASSUME NEW t \in sent, Executes(t) \/ Expires(t) \/ Confirmed(t)
          PROVE  KeysInv'
      BY <2>1, ExecuteStep, ExpireStep, ConfirmStep
    <2>2. CASE \/ TimerFires \/ Dismiss \/ \E b \in Boxes : Projects(b)
               \/ \E t \in sent : TxThrows(t)
      BY <2>2, QuietStep
    <2>3. CASE Rotate \/ (\E deed \in Deeds : Act(deed)) \/ \E b \in Boxes : Submit(b)
      BY <2>3, ClickStep
    <2>4. CASE \/ \E w \in Holders \cup {NoWallet} : SwitchWalletHere(w)
               \/ ReloadHere \/ OpenPageHere \/ \E b \in Boxes : Select(b)
               \/ \E l \in Lists : \E i \in 1 .. Waiting(l) :
                    FetchAnswered(l, i) \/ FetchFails(l, i)
      BY <2>4, RenderingStep
    <2> QED
      BY <1>1, <1>2, <2>1, <2>2, <2>3, <2>4, Zenon DEF PageNext
  <1> QED
    BY <1>1, <1>2

\* The page's steps are steps of the session.
LEMMA PageStepsSession ==
  ASSUME SessionInv, [PageNext]_<<sessionVars, pageVars>>
  PROVE  [SessionNext]_sessionVars
PROOF
  <1>1. CASE Elsewhere
    BY <1>1 DEF Elsewhere, SessionNext
  <1>2. CASE ReloadHere \/ OpenPageHere \/ \E w \in Holders \cup {NoWallet} : SwitchWalletHere(w)
    BY <1>2, OperatorPageAssumption
    DEF ReloadHere, OpenPageHere, SwitchWalletHere, SessionNext
  <1>3. CASE TimerFires \/ Rotate \/ Dismiss \/ \E deed \in Deeds : Act(deed)
    BY <1>3 DEF TimerFires, Rotate, Dismiss, Act
  <1>4. CASE \E b \in Boxes : Select(b) \/ Submit(b) \/ Projects(b)
    BY <1>4 DEF Select, Submit, Projects
  <1>5. CASE \E l \in Lists : \E i \in 1 .. Waiting(l) : FetchAnswered(l, i) \/ FetchFails(l, i)
    BY <1>5 DEF FetchAnswered, FetchFails
  <1>6. CASE \E t \in sent : Executes(t) \/ Expires(t) \/ Confirmed(t) \/ TxThrows(t)
    BY <1>6 DEF Executes, Expires, Confirmed, TxThrows
  <1>7. CASE UNCHANGED <<sessionVars, pageVars>>
    BY <1>7
  <1> QED
    BY <1>1, <1>2, <1>3, <1>4, <1>5, <1>6, <1>7, Zenon DEF PageNext

----------------------------------------------------------------------------
(* The lists on screen. *)

\* One fetch fewer: the newest stays the newest, unless it is the one.
LEMMA RemoveFetch ==
  ASSUME NEW S, NEW q \in Seq(S), NEW i \in 1 .. Len(q)
  PROVE  /\ RemoveAt(q, i) \in Seq(S) /\ Len(RemoveAt(q, i)) = Len(q) - 1
         /\ i < Len(q) => RemoveAt(q, i)[Len(q) - 1] = q[Len(q)]
PROOF
  <1>0. Len(q) \in Nat /\ i \in Nat /\ 1 <= i /\ i <= Len(q) /\ \A j \in 1 .. Len(q) : q[j] \in S
    OBVIOUS
  <1>8. SubSeq(q, 1, i - 1) \in Seq(S) /\ Len(SubSeq(q, 1, i - 1)) = i - 1
    <2>1. \A j \in 1 .. i - 1 : q[j] \in S
      BY <1>0
    <2> QED
      BY <1>0, <2>1, SubSeqProperties
  <1>9. /\ SubSeq(q, i + 1, Len(q)) \in Seq(S)
        /\ Len(SubSeq(q, i + 1, Len(q))) = Len(q) - i
        /\ i < Len(q) => SubSeq(q, i + 1, Len(q))[Len(q) - i] = q[Len(q)]
    <2>1. \A j \in i + 1 .. Len(q) : q[j] \in S
      BY <1>0
    <2> DEFINE b == SubSeq(q, i + 1, Len(q))
    <2>2. i + 1 \in Int /\ Len(q) \in Int
      BY <1>0
    <2>3. /\ b \in Seq(S)
          /\ Len(b) = IF i + 1 <= Len(q) THEN Len(q) - (i + 1) + 1 ELSE 0
          /\ \A j \in 1 .. Len(q) - (i + 1) + 1 : b[j] = q[i + 1 + j - 1]
      BY <2>1, <2>2, SubSeqProperties
    <2> HIDE DEF b
    <2>4. Len(b) = Len(q) - i
      BY <1>0, <2>3
    <2>5. ASSUME i < Len(q) PROVE b[Len(q) - i] = q[Len(q)]
      <3>1. /\ Len(q) - i \in 1 .. Len(q) - (i + 1) + 1
            /\ i + 1 + (Len(q) - i) - 1 = Len(q)
        BY <1>0, <2>5
      <3> QED
        BY <2>3, <3>1
    <2> QED
      BY <2>3, <2>4, <2>5 DEF b
  <1>1. /\ SubSeq(q, 1, i - 1) \in Seq(S) /\ Len(SubSeq(q, 1, i - 1)) = i - 1
        /\ SubSeq(q, i + 1, Len(q)) \in Seq(S)
        /\ Len(SubSeq(q, i + 1, Len(q))) = Len(q) - i
        /\ i < Len(q) => SubSeq(q, i + 1, Len(q))[Len(q) - i] = q[Len(q)]
    BY <1>8, <1>9
  <1> DEFINE a == SubSeq(q, 1, i - 1)
             b == SubSeq(q, i + 1, Len(q))
  <1> HIDE DEF a, b
  <1>2. /\ a \o b \in Seq(S) /\ Len(a \o b) = Len(a) + Len(b)
        /\ \A j \in 1 .. Len(a) + Len(b) :
             (a \o b)[j] = IF j <= Len(a) THEN a[j] ELSE b[j - Len(a)]
    BY <1>1, ConcatProperties DEF a, b
  <1>3. Len(q) \in Nat /\ i \in Nat /\ 1 <= i /\ i <= Len(q)
    OBVIOUS
  <1>4. /\ Len(a) = i - 1 /\ Len(b) = Len(q) - i
        /\ i < Len(q) => b[Len(q) - i] = q[Len(q)]
    BY <1>1 DEF a, b
  <1>5. Len(a \o b) = Len(q) - 1
    BY <1>2, <1>3, <1>4
  <1>6. ASSUME i < Len(q) PROVE (a \o b)[Len(q) - 1] = q[Len(q)]
    <2>1. Len(q) - 1 \in 1 .. Len(a) + Len(b) /\ ~(Len(q) - 1 <= Len(a))
      BY <1>3, <1>4, <1>6
    <2>2. (a \o b)[Len(q) - 1] = b[Len(q) - 1 - Len(a)]
      BY <1>2, <2>1
    <2>3. Len(q) - 1 - Len(a) = Len(q) - i
      BY <1>3, <1>4
    <2> QED
      BY <2>2, <2>3, <1>4, <1>6
  <1>7. RemoveAt(q, i) = a \o b
    BY DEF RemoveAt, a, b
  <1> QED
    BY <1>2, <1>5, <1>6, <1>7

\* A list asked for afresh is asked for what is wanted; one that is not stays as it
\* was, being wanted for the same.
LEMMA AskedList ==
  ASSUME FetchInv, NEW l \in Lists, NEW a \in Seq(Subjects),
         flights'[l] = flights[l] \o a, behind'[l] = behind[l], stale' = stale,
         Wanted(l)' => IF a = <<>>
                       THEN Wanted(l) /\ Subject(l)' = Subject(l) /\ (Current(l) => Current(l)')
                       ELSE Len(a) = 1 /\ a[1] = Subject(l)'
  PROVE  NewestWanted(l)'
PROOF
  <1>1. /\ flights[l] \in Seq(Subjects) /\ behind[l] \in Nat /\ behind[l] <= Len(flights[l])
        /\ Wanted(l) => IF behind[l] < Len(flights[l]) THEN flights[l][Len(flights[l])] = Subject(l)
                        ELSE l \in stale \/ Current(l)
    BY DEF FetchInv, FetchType, NewestWanted, Waiting
  <1>2. CASE a = <<>>
    <2>1. flights'[l] = flights[l]
      BY <1>1, <1>2
    <2> QED
      BY <1>1, <1>2, <2>1 DEF NewestWanted, Waiting
  <1>3. CASE a # <<>>
    <2>1. Len(flights'[l]) = Len(flights[l]) + Len(a) /\ Len(a) \in Nat /\ Len(flights[l]) \in Nat
      BY <1>1
    <2>2. Wanted(l)' => /\ Len(flights'[l]) = Len(flights[l]) + 1
                        /\ flights'[l][Len(flights[l]) + 1] = Subject(l)'
      <3>1. \A j \in 1 .. Len(flights[l]) + Len(a) :
              (flights[l] \o a)[j] = IF j <= Len(flights[l]) THEN flights[l][j]
                                     ELSE a[j - Len(flights[l])]
        BY <1>1, ConcatProperties
      <3>2. Len(a) = 1 => (flights[l] \o a)[Len(flights[l]) + 1] = a[1]
        BY <2>1, <3>1
      <3> QED
        BY <1>3, <2>1, <3>2
    <2> QED
      BY <1>1, <2>1, <2>2 DEF NewestWanted, Waiting
  <1> QED
    BY <1>2, <1>3

\* An answer that is not overtaken is shown, and the newest is for what is wanted;
\* one that is, or a failure, is remembered as stale.
LEMMA LandedList ==
  ASSUME FetchInv, NEW m \in Lists, NEW i \in 1 .. Waiting(m), Lands(m, i), NEW l \in Lists,
         Wanted(l)' => Wanted(l), Subject(l)' = Subject(l),
         l # m => (Current(l) => Current(l)') /\ (l \in stale => l \in stale'),
         l = m => \/ l \in stale'
                  \/ i > behind[l] /\ (Wanted(l) /\ flights[l][i] = Subject(l) => Current(l)')
  PROVE  NewestWanted(l)'
PROOF
  <1>1. /\ flights[l] \in Seq(Subjects) /\ behind[l] \in Nat /\ behind[l] <= Len(flights[l])
        /\ Wanted(l) => IF behind[l] < Len(flights[l]) THEN flights[l][Len(flights[l])] = Subject(l)
                        ELSE l \in stale \/ Current(l)
    BY DEF FetchInv, FetchType, NewestWanted, Waiting
  <1>2. CASE l # m
    <2>1. flights'[l] = flights[l] /\ behind'[l] = behind[l]
      BY <1>2 DEF Lands, FetchInv, FetchType
    <2> QED
      BY <1>1, <1>2, <2>1 DEF NewestWanted, Waiting
  <1>3. CASE l = m
    <2>0. i \in 1 .. Len(flights[l]) /\ Len(flights[l]) \in Nat
      BY <1>1, <1>3 DEF Waiting
    <2>1. /\ flights'[l] = RemoveAt(flights[l], i)
          /\ behind'[l] = IF i > behind[l] THEN i - 1 ELSE behind[l] - 1
      BY <1>3 DEF Lands, FetchInv, FetchType
    <2>2. /\ Len(flights'[l]) = Len(flights[l]) - 1
          /\ i < Len(flights[l]) =>
               flights'[l][Len(flights[l]) - 1] = flights[l][Len(flights[l])]
      BY <1>1, <2>0, <2>1, RemoveFetch
    <2>3. behind'[l] <= Len(flights'[l])
      BY <1>1, <2>0, <2>1, <2>2
    <2>4. ASSUME Wanted(l)', behind'[l] < Len(flights'[l])
          PROVE  flights'[l][Len(flights'[l])] = Subject(l)
      <3>1. i < Len(flights[l]) /\ behind[l] < Len(flights[l])
        BY <1>1, <2>0, <2>1, <2>2, <2>4
      <3> QED
        BY <3>1, <1>1, <2>2, <2>4
    <2>5. ASSUME Wanted(l)', ~(behind'[l] < Len(flights'[l])), l \notin stale'
          PROVE  Current(l)'
      <3>1. i > behind[l] /\ i = Len(flights[l])
        BY <1>1, <1>3, <2>0, <2>1, <2>2, <2>5
      <3>2. flights[l][i] = Subject(l)
        BY <3>1, <1>1, <2>5
      <3> QED
        BY <3>1, <3>2, <1>3, <2>5
    <2> QED
      BY <2>3, <2>4, <2>5 DEF NewestWanted, Waiting
  <1> QED
    BY <1>2, <1>3

\* A list that is not asked for stays wanted for the same, and shows it if it did.
Lasting(l) ==
  Wanted(l)' => Wanted(l) /\ Subject(l)' = Subject(l) /\ (Current(l) => Current(l)')

\* Asking for lists.
LEMMA FetchesStep ==
  ASSUME FetchInv, NEW asks \in [Lists -> Seq(Subjects)], Fetches(asks),
         \A l \in Lists : IF asks[l] = <<>> THEN Lasting(l)
                          ELSE Wanted(l)' => Len(asks[l]) = 1 /\ asks[l][1] = Subject(l)'
  PROVE  FetchInv'
PROOF
  <1>1. /\ flights' = [l \in Lists |-> flights[l] \o asks[l]]
        /\ behind' = behind /\ stale' = stale
    BY DEF Fetches
  <1>2. \A l \in Lists : flights[l] \o asks[l] \in Seq(Subjects)
    BY DEF FetchInv, FetchType
  <1>3. FetchType'
    BY <1>1, <1>2 DEF FetchInv, FetchType
  <1>4. ASSUME NEW l \in Lists PROVE NewestWanted(l)'
    <2>1. PICK q \in Seq(Subjects) : q = asks[l]
      OBVIOUS
    <2>2. flights'[l] = flights[l] \o q /\ behind'[l] = behind[l]
      BY <1>1, <2>1
    <2> QED
      BY <2>1, <2>2, <1>1, AskedList DEF Lasting
  <1> QED
    BY <1>3, <1>4 DEF FetchInv

\* Asking for nothing.
LEMMA NoFetchStep ==
  ASSUME FetchInv, UNCHANGED fetchVars, \A l \in Lists : Lasting(l)
  PROVE  FetchInv'
PROOF
  <1>1. FetchType'
    BY DEF FetchInv, FetchType, fetchVars
  <1>2. ASSUME NEW l \in Lists PROVE NewestWanted(l)'
    BY DEF FetchInv, NewestWanted, Waiting, Lasting, fetchVars
  <1> QED
    BY <1>1, <1>2 DEF FetchInv

\* What the lists are wanted for depends on the wallet, the page's session and the
\* selected router.
LEMMA SameSubjects ==
  ASSUME PageType, UNCHANGED <<connected[Here], session[Here].page>>,
         page' = page \/ \E n \in Nat : page' = [page EXCEPT !.timers = n]
  PROVE  \A l \in Lists : Lasting(l)
PROOF
  <1>1. /\ page'.routers = page.routers /\ page'.selected = page.selected
        /\ page'.epochs = page.epochs /\ page'.admin = page.admin
    BY DEF PageType, PageStates
  <1> QED
    BY <1>1 DEF Lasting, Wanted, Subject, Current, Authenticated, Lists

\* What is asked of each list.
LEMMA AskedOfEach ==
  ASSUME NEW S, NEW a \in S, NEW b \in S, NEW c \in S
  PROVE  [routers |-> a, epochs |-> b, admin |-> c] \in [Lists -> S]
PROOF
  BY DEF Lists

\* A wallet that is switched, or a page mounted anew, asks for the new wallet's
\* lists, and for the admin's when the session is the wallet's.
LEMMA WalletFetches ==
  ASSUME SessionInv, PageType, FetchInv,
         \/ \E w \in Holders \cup {NoWallet} : SwitchWalletHere(w)
         \/ ReloadHere \/ OpenPageHere
  PROVE  FetchInv'
PROOF
  <1>0. /\ Here \in Tabs /\ NoWallet \notin Holders
        /\ \A w \in Holders : <<w>> \in Seq(Subjects) /\ Len(<<w>>) = 1 /\ <<w>>[1] = w
        /\ <<>> \in Seq(Subjects)
    BY OperatorPageAssumption, SessionAssumption DEF Subjects
  <1>1. ASSUME NEW w \in Holders \cup {NoWallet}, SwitchWalletHere(w) PROVE FetchInv'
    <2>1. /\ connected'[Here] = w /\ connected[Here] # w
          /\ SessionInv'
      <3>1. SwitchWallet(Here, w)
        BY <1>1 DEF SwitchWalletHere
      <3>2. SessionInv'
        BY <3>1, <1>0, SessionStep DEF SessionNext
      <3> QED
        BY <3>1, <3>2, <1>0 DEF SwitchWallet, SessionInv
    <2>2. PICK asks : asks = [routers |-> OnWallet(w), epochs |-> <<>>, admin |-> Probes]
      OBVIOUS
    <2>3. Probes = IF SignedInAfter THEN <<w>> ELSE <<>>
      <3>1. SignedInAfter => SessionMoved
        BY <2>1 DEF SignedInAfter, SessionMoved, Authenticated
      <3> QED
        BY <3>1, <2>1 DEF Probes
    <2>4. /\ Wanted("admin")' <=> SignedInAfter
          /\ Wanted("routers")' <=> w # NoWallet
          /\ SignedInAfter => w \in Holders
      BY <2>1 DEF Wanted, SignedInAfter, Authenticated
    <2>5. asks \in [Lists -> Seq(Subjects)]
      <3>1. OnWallet(w) \in Seq(Subjects)
        BY <1>0 DEF OnWallet, AsksRouters
      <3>2. Probes \in Seq(Subjects)
        BY <2>3, <2>4, <1>0
      <3> QED
        BY <2>2, <3>1, <3>2, <1>0, AskedOfEach
    <2>6. Fetches(asks)
      BY <1>1, <2>2 DEF SwitchWalletHere
    <2>7. Lasting("epochs")
      BY <1>1 DEF SwitchWalletHere, Renders, Lasting, Wanted, Subject, Current, PageType,
                  PageStates
    <2>8. Wanted("routers")' => Len(asks["routers"]) = 1 /\ asks["routers"][1] = Subject("routers")'
      BY <2>1, <2>2, <2>4, <1>0 DEF Subject, OnWallet, AsksRouters
    <2>9. Wanted("admin")' => Len(asks["admin"]) = 1 /\ asks["admin"][1] = Subject("admin")'
      BY <2>1, <2>2, <2>3, <2>4, <1>0 DEF Subject
    <2>10. /\ asks["routers"] = <<>> => ~Wanted("routers")'
           /\ asks["admin"] = <<>> => ~Wanted("admin")'
      BY <2>8, <2>9
    <2>11. asks["epochs"] = <<>>
      BY <2>2
    <2>12. ASSUME NEW l \in Lists
           PROVE  IF asks[l] = <<>> THEN Lasting(l)
                  ELSE Wanted(l)' => Len(asks[l]) = 1 /\ asks[l][1] = Subject(l)'
      <3>1. CASE l = "routers"
        BY <3>1, <2>8, <2>10 DEF Lasting
      <3>2. CASE l = "epochs"
        BY <3>2, <2>7, <2>11
      <3>3. CASE l = "admin"
        BY <3>3, <2>9, <2>10 DEF Lasting
      <3> QED
        BY <3>1, <3>2, <3>3 DEF Lists
    <2> QED
      BY <2>5, <2>6, <2>12, FetchesStep
  <1>2. ASSUME Mounts, connected'[Here] \in Holders \cup {NoWallet} PROVE FetchInv'
    <2> DEFINE w == connected'[Here]
    <2>1. /\ flights' = [routers |-> AsksRouters(w), epochs |-> <<>>,
                         admin |-> IF SignedInAfter THEN <<w>> ELSE <<>>]
          /\ behind' = [l \in Lists |-> 0] /\ page' = NoPage
      BY <1>2 DEF Mounts, Renders
    <2>2. /\ Wanted("admin")' <=> SignedInAfter
          /\ Wanted("routers")' <=> w # NoWallet
          /\ ~Wanted("epochs")'
          /\ SignedInAfter => w \in Holders
      BY <1>2, <2>1 DEF Wanted, SignedInAfter, Authenticated, NoPage
    <2>3. FetchType'
      <3>1. AsksRouters(w) \in Seq(Subjects)
        BY <1>0, <1>2 DEF AsksRouters
      <3>2. (IF SignedInAfter THEN <<w>> ELSE <<>>) \in Seq(Subjects)
        BY <1>0, <2>2
      <3>3. flights' \in [Lists -> Seq(Subjects)]
        BY <2>1, <3>1, <3>2, <1>0, AskedOfEach
      <3> QED
        BY <2>1, <3>3 DEF FetchType
    <2>4. \A l \in Lists : behind'[l] = 0 /\ Len(flights'[l]) \in Nat
      BY <2>1, <2>3 DEF FetchType
    <2>5. Wanted("routers")' => Len(flights'["routers"]) = 1
                                /\ flights'["routers"][1] = Subject("routers")'
      BY <1>0, <1>2, <2>1, <2>2 DEF AsksRouters, Subject
    <2>6. Wanted("admin")' => Len(flights'["admin"]) = 1
                              /\ flights'["admin"][1] = Subject("admin")'
      BY <1>0, <1>2, <2>1, <2>2 DEF Subject
    <2>7. \A l \in Lists : NewestWanted(l)'
      BY <2>2, <2>4, <2>5, <2>6 DEF NewestWanted, Waiting, Lists
    <2> QED
      BY <2>3, <2>7 DEF FetchInv
  <1>3. ASSUME ReloadHere \/ OpenPageHere PROVE FetchInv'
    <2>1. connected'[Here] \in Holders \cup {NoWallet}
      BY <1>0, <1>3 DEF ReloadHere, OpenPageHere, Reload, OpenPage, SessionInv
    <2> QED
      BY <1>2, <1>3, <2>1 DEF ReloadHere, OpenPageHere
  <1> QED
    BY <1>1, <1>3

\* A click on a router asks for its epochs; the timer asks for both lists again.
LEMMA PageFetches ==
  ASSUME SessionInv, PageType, FetchInv, TimerFires \/ \E b \in Boxes : Select(b)
  PROVE  FetchInv'
PROOF
  <1>0. /\ connected[Here] \in Holders \cup {NoWallet} /\ NoBox \notin Boxes
        /\ \A s \in Subjects : <<s>> \in Seq(Subjects) /\ Len(<<s>>) = 1 /\ <<s>>[1] = s
        /\ <<>> \in Seq(Subjects) /\ Holders \subseteq Subjects /\ Boxes \subseteq Subjects
    BY OperatorPageAssumption DEF Subjects, SessionInv
  <1>1. \A w \in Holders \cup {NoWallet} : AsksRouters(w) \in Seq(Subjects)
    BY <1>0 DEF AsksRouters
  <1>2. \A b \in Boxes \cup {NoBox} : AsksEpochs(b) \in Seq(Subjects)
    BY <1>0 DEF AsksEpochs
  <1>3. CASE TimerFires
    <2>1. PICK asks : asks = [routers |-> AsksRouters(connected[Here]),
                              epochs |-> AsksEpochs(page.selected), admin |-> <<>>]
      OBVIOUS
    <2>2. page.selected \in Boxes \cup {NoBox}
      BY DEF PageType, PageStates
    <2>3. asks \in [Lists -> Seq(Subjects)]
      BY <2>1, <2>2, <1>0, <1>1, <1>2, AskedOfEach
    <2>4. Fetches(asks) /\ UNCHANGED <<connected[Here], session[Here].page>>
      BY <1>3, <2>1 DEF TimerFires, sessionVars
    <2>5. \A l \in Lists : Lasting(l)
      <3>1. \E n \in Nat : page' = [page EXCEPT !.timers = n]
        <4>1. page.timers \in Nat /\ page.timers > 0
          BY <1>3 DEF TimerFires, PageType, PageStates
        <4>2. page.timers - 1 \in Nat
          BY <4>1
        <4>3. page' = [page EXCEPT !.timers = page.timers - 1]
          BY <1>3 DEF TimerFires
        <4> QED
          BY <4>2, <4>3, Zenon
      <3> QED
        BY <3>1, <2>4, SameSubjects
    <2>6. page'.selected = page.selected
      BY <1>3 DEF TimerFires, PageType, PageStates
    <2>7. asks["routers"] # <<>> => Len(asks["routers"]) = 1
                                    /\ asks["routers"][1] = Subject("routers")'
      BY <2>1, <2>4, <1>0 DEF AsksRouters, Subject
    <2>8. asks["epochs"] # <<>> => Len(asks["epochs"]) = 1
                                   /\ asks["epochs"][1] = Subject("epochs")'
      BY <2>1, <2>2, <2>6, <1>0 DEF AsksEpochs, Subject
    <2>9. asks["admin"] = <<>>
      BY <2>1
    <2>10. \A l \in Lists : asks[l] # <<>> => Len(asks[l]) = 1 /\ asks[l][1] = Subject(l)'
      BY <2>7, <2>8, <2>9 DEF Lists
    <2> QED
      BY <2>3, <2>4, <2>5, <2>10, FetchesStep
  <1>4. ASSUME NEW b \in Boxes, Select(b) PROVE FetchInv'
    <2>0. PICK chosen \in Boxes \cup {NoBox} :
            /\ Fetches([routers |-> <<>>, epochs |-> AsksEpochs(chosen), admin |-> <<>>])
            /\ page' = [page EXCEPT !.selected = chosen,
                                    !.epochs = IF chosen = NoBox THEN NoBox ELSE @]
      BY <1>4 DEF Select, Renders
    <2>1. PICK asks : asks = [routers |-> <<>>, epochs |-> AsksEpochs(chosen), admin |-> <<>>]
      OBVIOUS
    <2>3. asks \in [Lists -> Seq(Subjects)]
      BY <2>1, <1>0, <1>2, AskedOfEach
    <2>4. Fetches(asks) /\ UNCHANGED <<connected, session>>
      BY <1>4, <2>0, <2>1 DEF Select, sessionVars
    <2>5. /\ page'.selected = chosen /\ page'.routers = page.routers
          /\ page'.admin = page.admin
      BY <2>0 DEF PageType, PageStates
    <2>6. Lasting("routers") /\ Lasting("admin") /\ (chosen = NoBox => Lasting("epochs"))
      BY <2>4, <2>5 DEF Lasting, Wanted, Subject, Current, Authenticated
    <2>7. chosen # NoBox => Len(asks["epochs"]) = 1 /\ asks["epochs"][1] = Subject("epochs")'
      BY <2>1, <2>5, <1>0 DEF AsksEpochs, Subject
    <2>8. /\ asks["routers"] = <<>> /\ asks["admin"] = <<>>
          /\ chosen = NoBox <=> asks["epochs"] = <<>>
      BY <2>1, <2>7 DEF AsksEpochs
    <2>9. ASSUME NEW l \in Lists
          PROVE  IF asks[l] = <<>> THEN Lasting(l)
                 ELSE Wanted(l)' => Len(asks[l]) = 1 /\ asks[l][1] = Subject(l)'
      <3>1. CASE l = "epochs"
        BY <3>1, <2>6, <2>7, <2>8
      <3>2. CASE l # "epochs"
        BY <3>2, <2>6, <2>8 DEF Lists
      <3> QED
        BY <3>1, <3>2
    <2> QED
      BY <2>3, <2>4, <2>9, FetchesStep
  <1> QED
    BY <1>3, <1>4

\* An answer, or a failure.
LEMMA FetchEnds ==
  ASSUME PageType, FetchInv, NEW m \in Lists, NEW i \in 1 .. Waiting(m),
         FetchAnswered(m, i) \/ FetchFails(m, i)
  PROVE  FetchInv'
PROOF
  <1>1. /\ Lands(m, i) /\ UNCHANGED <<connected, session>>
        /\ page' = Shown(m, flights[m][i]) \/ page' = ShownFailed(m)
    BY DEF FetchAnswered, FetchFails, Renders, sessionVars
  <1>2. /\ flights[m] \in Seq(Subjects) /\ i \in 1 .. Len(flights[m]) /\ behind[m] \in Nat
        /\ behind[m] <= Len(flights[m])
    BY DEF FetchInv, FetchType, NewestWanted, Waiting
  <1>3. FetchType'
    <2>1. RemoveAt(flights[m], i) \in Seq(Subjects)
      BY <1>2, RemoveFetch
    <2>2. flights' \in [Lists -> Seq(Subjects)]
      BY <1>1, <2>1 DEF Lands, FetchInv, FetchType
    <2>3. (IF i > behind[m] THEN i - 1 ELSE behind[m] - 1) \in Nat
      BY <1>2
    <2>4. behind' \in [Lists -> Nat]
      BY <1>1, <2>3 DEF Lands, FetchInv, FetchType
    <2> QED
      BY <2>2, <2>4 DEF FetchType
  <1>4. page'.selected = page.selected
    BY <1>1 DEF Shown, ShownFailed, PageType, PageStates
  <1>5. \A l \in Lists : /\ Wanted(l)' <=> Wanted(l)
                         /\ Subject(l)' = Subject(l)
    BY <1>1, <1>4 DEF Wanted, Subject, Authenticated
  <1>6. ASSUME NEW l \in Lists, l # m
        PROVE  (Current(l) => Current(l)') /\ (l \in stale => l \in stale')
    <2>1. l \in stale => l \in stale'
      BY <1>6 DEF FetchAnswered, FetchFails
    <2>2. CASE m = "routers"
      <3>1. page'.epochs = page.epochs /\ page'.admin = page.admin
        BY <1>1, <2>2 DEF Shown, ShownFailed, PageType, PageStates
      <3> QED
        BY <1>1, <1>4, <1>6, <2>1, <2>2, <3>1 DEF Current, Lists
    <2>3. CASE m = "epochs"
      <3>1. page'.routers = page.routers /\ page'.admin = page.admin
        BY <1>1, <2>3 DEF Shown, ShownFailed, PageType, PageStates
      <3> QED
        BY <1>1, <1>4, <1>6, <2>1, <2>3, <3>1 DEF Current, Lists
    <2>4. CASE m = "admin"
      <3>1. page'.routers = page.routers /\ page'.epochs = page.epochs
        BY <1>1, <2>4 DEF Shown, ShownFailed, PageType, PageStates
      <3> QED
        BY <1>1, <1>4, <1>6, <2>1, <2>4, <3>1 DEF Current, Lists
    <2> QED
      BY <2>2, <2>3, <2>4 DEF Lists
  <1>7. \/ m \in stale'
        \/ i > behind[m] /\ (flights[m][i] = Subject(m) => Current(m)')
    <2>1. CASE FetchFails(m, i) \/ ~(i > behind[m])
      BY <2>1 DEF FetchFails, FetchAnswered
    <2>2. CASE FetchAnswered(m, i)
      <3>1. page' = Shown(m, flights[m][i])
        BY <2>2 DEF FetchAnswered, Renders
      <3>2. flights[m][i] = Subject(m) => Current(m)'
        <4>1. CASE m = "routers"
          BY <3>1, <4>1, <1>1 DEF Shown, Current, Subject, PageType, PageStates
        <4>2. CASE m = "epochs"
          BY <3>1, <4>2, <1>4 DEF Shown, Current, Subject, PageType, PageStates
        <4>3. CASE m = "admin"
          BY <3>1, <4>3, <1>1 DEF Shown, Current, Subject, PageType, PageStates
        <4> QED
          BY <4>1, <4>2, <4>3 DEF Lists
      <3> QED
        BY <2>1, <3>2
    <2> QED
      BY <2>1, <2>2
  <1>8. \A l \in Lists : NewestWanted(l)'
    BY <1>1, <1>5, <1>6, <1>7, LandedList
  <1> QED
    BY <1>3, <1>8 DEF FetchInv

\* Transactions ask for nothing, and neither does what happens elsewhere.
LEMMA FetchlessStep ==
  ASSUME SessionInv, PageType, FetchInv,
         \/ Elsewhere /\ UNCHANGED pageVars
         \/ Rotate \/ Dismiss \/ (\E deed \in Deeds : Act(deed))
         \/ (\E b \in Boxes : Submit(b) \/ Projects(b))
         \/ \E t \in sent : Executes(t) \/ Expires(t) \/ Confirmed(t) \/ TxThrows(t)
  PROVE  FetchInv'
PROOF
  <1>0. page.timers \in Nat /\ Here \in Tabs
    BY OperatorPageAssumption DEF PageType, PageStates
  <1>1. UNCHANGED fetchVars
    BY DEF pageVars, Rotate, Dismiss, Act, Submit, Projects, Executes, Expires, Confirmed, TxThrows
  <1>2. UNCHANGED <<connected[Here], session[Here].page>>
    <2>1. CASE Elsewhere
      <3>1. ASSUME NEW t \in Tabs \ {Here},
                   Reload(t) \/ OpenPage(t) \/ \E w \in Holders \cup {NoWallet} : SwitchWallet(t, w)
            PROVE  UNCHANGED <<connected[Here], session[Here].page>>
        BY <3>1, <1>0 DEF Reload, OpenPage, SwitchWallet, SessionInv
      <3>2. ASSUME NEW t \in Tabs, BarStep(t)
            PROVE  UNCHANGED <<connected[Here], session[Here].page>>
        BY <3>2, <1>0 DEF BarStep, Challenge, Sign, SignInFails, VerifyReads, SignInDone,
                          SignOut, SessionInv
      <3>3. ASSUME NEW v \in burning, VerifyBurns(v)
            PROVE  UNCHANGED <<connected[Here], session[Here].page>>
        BY <3>3 DEF VerifyBurns
      <3> QED
        BY <2>1, <3>1, <3>2, <3>3 DEF Elsewhere
    <2>2. CASE UNCHANGED sessionVars
      BY <2>2 DEF sessionVars
    <2> QED
      BY <2>1, <2>2 DEF Rotate, Dismiss, Act, Submit, Projects, Executes, Expires, Confirmed, TxThrows
  <1>3. page' = page \/ \E n \in Nat : page' = [page EXCEPT !.timers = n]
    <2>1. ASSUME NEW t \in sent, Confirmed(t)
          PROVE  \E n \in Nat : page' = [page EXCEPT !.timers = n]
      <3>1. page.timers + 1 \in Nat /\ page' = [page EXCEPT !.timers = page.timers + 1]
        BY <1>0, <2>1 DEF Confirmed
      <3> QED
        BY <3>1, Zenon
    <2> QED
      BY <2>1 DEF pageVars, Rotate, Dismiss, Act, Submit, Projects, Executes, Expires, TxThrows
  <1> QED
    BY <1>1, <1>2, <1>3, SameSubjects, NoFetchStep

\* The session, the keys and the lists, together inductive.
PageInv == SessionInv /\ KeysInv /\ FetchInv

LEMMA PageStep ==
  ASSUME PageInv, [PageNext]_<<sessionVars, pageVars>>
  PROVE  PageInv'
PROOF
  <1>0. SessionInv /\ KeysInv /\ PageType /\ FetchInv /\ FetchType
    BY DEF PageInv, KeysInv, FetchInv
  <1>1. SessionInv'
    BY <1>0, PageStepsSession, SessionStep
  <1>2. KeysInv'
    BY <1>0, KeysStep
  <1>3. FetchInv'
    <2>1. CASE UNCHANGED <<sessionVars, pageVars>>
      <3>1. UNCHANGED fetchVars /\ UNCHANGED <<connected[Here], session[Here].page>> /\ page' = page
        BY <2>1 DEF sessionVars, pageVars
      <3> QED
        BY <3>1, <1>0, SameSubjects, NoFetchStep
    <2>2. CASE \/ \E w \in Holders \cup {NoWallet} : SwitchWalletHere(w)
               \/ ReloadHere \/ OpenPageHere
      BY <2>2, <1>0, WalletFetches
    <2>3. CASE TimerFires \/ \E b \in Boxes : Select(b)
      BY <2>3, <1>0, PageFetches
    <2>4. ASSUME NEW l \in Lists, NEW i \in 1 .. Waiting(l),
                 FetchAnswered(l, i) \/ FetchFails(l, i)
          PROVE  FetchInv'
      BY <2>4, <1>0, FetchEnds
    <2>5. CASE \/ Elsewhere /\ UNCHANGED pageVars
               \/ Rotate \/ Dismiss \/ (\E deed \in Deeds : Act(deed))
               \/ (\E b \in Boxes : Submit(b) \/ Projects(b))
               \/ \E t \in sent : Executes(t) \/ Expires(t) \/ Confirmed(t) \/ TxThrows(t)
      BY <2>5, <1>0, FetchlessStep
    <2> QED
      BY <2>1, <2>2, <2>3, <2>4, <2>5, Zenon DEF PageNext
  <1> QED
    BY <1>1, <1>2, <1>3 DEF PageInv

LEMMA PageStarts == PageInit => PageInv
PROOF
  <1> SUFFICES ASSUME PageInit PROVE PageInv
    OBVIOUS
  <1>1. SessionInv
    BY DEF PageInit, SessionInit, SessionInv, Sessions, SignedOut
  <1>2. PageType
    <2>1. NoPage \in PageStates
      BY DEF NoPage, Nothing, PageStates
    <2>2. NoKeyShown \in KeysShown
      BY DEF KeysShown
    <2>3. card \in [busy : SUBSET (Deeds \cup KeyKinds), rotated : KeysShown]
      BY <2>2 DEF PageInit, NoCard
    <2>4. form \in [busy : BOOLEAN, device : KeysShown]
      BY <2>2 DEF PageInit, NoForm
    <2> QED
      BY <2>1, <2>3, <2>4 DEF PageInit, PageType
  <1>3. KeysInv
    BY <1>2 DEF PageInit, KeysInv, Registered, FirstKeyLowest, OneRotation, CardAccounted,
                NoPage, Nothing, NoCard, NoForm, NoKeyShown
  <1>4. FetchType /\ \A l \in Lists : behind[l] = 0 /\ flights[l] = <<>>
    BY DEF PageInit, FetchType
  <1>5. \A l \in Lists : ~Wanted(l)
    BY OperatorPageAssumption DEF PageInit, SessionInit, Wanted, NoPage, Authenticated
  <1>6. FetchInv
    BY <1>4, <1>5 DEF FetchInv, NewestWanted, Waiting
  <1> QED
    BY <1>1, <1>3, <1>6 DEF PageInv

\* The page's invariant holds in every state, with any number of tabs, wallets,
\* routers, keys, fetches and transactions.
THEOREM PageInductive == PageSpec => []PageInv
PROOF
  <1> QED
    BY PageStarts, PageStep, PTL DEF PageSpec

\* operator/page.tsx:13: once its fetches are answered, the page shows what is the
\* connected wallet's, the selected router's and the session's, unless the answer
\* that came last was overtaken or a failure.
THEOREM QuietPage == PageSpec => []QuietPageIsCurrent
PROOF
  <1>1. ASSUME PageInv PROVE QuietPageIsCurrent
    <2>1. ASSUME NEW l \in Lists, Settled(l), Wanted(l) PROVE Current(l)
      <3>1. Len(flights[l]) = 0 /\ l \notin stale
        BY <2>1 DEF Settled
      <3> QED
        BY <1>1, <2>1, <3>1 DEF PageInv, FetchInv, FetchType, NewestWanted, Waiting
    <2> QED
      BY <2>1 DEF QuietPageIsCurrent, Wanted, Current, Lists
  <1> QED
    BY <1>1, PageInductive, PTL

\* RouterActions.tsx:150-154, RegisterRouter.tsx:14-19: whatever is rotated, given up,
\* reloaded or executed late, a key on screen is the router's as long as nothing is
\* under way and nothing was executed unheard.
THEOREM LiveKeys == PageSpec => []ShownKeysAreLive
PROOF
  <1>1. ASSUME KeysInv PROVE ShownKeysAreLive
    <2>1. ASSUME card.rotated # NoKeyShown, card.rotated.box \notin unheard,
                 \A t \in sent : t.box = card.rotated.box => t.key = 0
          PROVE  deviceKey[card.rotated.box] = card.rotated.key
      <3>1. /\ Accounted(card.rotated.box, card.rotated.key)
            /\ deviceKey[card.rotated.box] # 0
        BY <1>1, <2>1 DEF KeysInv, CardAccounted, Registered
      <3> QED
        BY <2>1, <3>1 DEF Accounted
    <2>2. form.device # NoKeyShown => deviceKey[form.device.box] >= form.device.key
      BY <1>1 DEF KeysInv, FirstKeyLowest
    <2> QED
      BY <2>1, <2>2 DEF ShownKeysAreLive
  <1>2. PageInv => KeysInv
    BY DEF PageInv
  <1> QED
    BY <1>1, <1>2, PageInductive, PTL

\* What the page does to the session is what the browser's hook and the API do: the
\* page with its tab is an implementation of the sign-in.
THEOREM PageSignsIn == PageSpec => SessionSpec
PROOF
  <1>1. PageInit => SessionInit
    BY DEF PageInit
  <1>2. PageInv /\ [PageNext]_<<sessionVars, pageVars>> => [SessionNext]_sessionVars
    BY PageStepsSession DEF PageInv
  <1> QED
    BY <1>1, <1>2, PageInductive, PTL DEF PageSpec, SessionSpec

----------------------------------------------------------------------------
(* The live feed. *)

\* The rows of the feed, over the events inserted so far.
Row == [event : log, id : Events \cup {NoId}]

\* What waits to be published was inserted before, so what arrives live was, too.
FeedInv ==
  /\ log \subseteq Events /\ IsFiniteSet(log)
  /\ unpublished \in Seq(log)
  /\ feed \in Seq(Row)

\* As the log only grows, rows and unpublished events stay what they were.
LEMMA LogGrows ==
  ASSUME FeedInv, log \subseteq log', log' \subseteq Events, IsFiniteSet(log'),
         UNCHANGED <<unpublished, feed>>
  PROVE  FeedInv'
PROOF
  <1>1. Seq(log) \subseteq Seq(log')
    BY DEF FeedInv
  <1>2. Row \subseteq Row'
    BY DEF Row
  <1>3. Seq(Row) \subseteq Seq(Row')
    BY <1>2
  <1> QED
    BY <1>1, <1>3 DEF FeedInv

\* The socket's handler keeps the rows there are and adds one for the event.
LEMMA PrependedRows ==
  ASSUME FeedInv, NEW e \in log
  PROVE  Prepended(e) \in Seq(Row)
PROOF
  <1>1. CASE \E i \in DOMAIN feed : feed[i].id = NoId
    BY <1>1 DEF Prepended, FeedInv
  <1>2. CASE ~\E i \in DOMAIN feed : feed[i].id = NoId
    <2> DEFINE all == <<[event |-> e, id |-> NoId]>> \o feed
    <2> DEFINE n == IF Len(feed) < FeedSize THEN Len(feed) + 1 ELSE FeedSize
    <2>1. [event |-> e, id |-> NoId] \in Row
      BY DEF Row
    <2>2. all \in Seq(Row) /\ Len(all) = Len(feed) + 1
      BY <2>1 DEF FeedInv
    <2>3. n \in Nat /\ n <= Len(all)
      BY <2>2, QueriesAssumption DEF FeedInv
    <2> HIDE DEF all, n
    <2>4. SubSeq(all, 1, n) \in Seq(Row)
      BY <2>2, <2>3
    <2> QED
      BY <1>2, <2>4 DEF Prepended, all, n
  <1> QED
    BY <1>1, <1>2

\* A page of events, in whatever order, makes rows.
LEMMA RenderedRows ==
  ASSUME FeedInv, NEW p \in Pages("events", log), NEW rows \in Sorted(p)
  PROVE  Rendered(rows) \in Seq(Row)
PROOF
  <1>1. p \subseteq log /\ Cardinality(p) \in Nat
    <2>1. Cardinality(log) \in Nat /\ Limit \in Nat
      BY FS_CardinalityType, QueriesAssumption DEF FeedInv
    <2>2. p \in kSubset(IF Cardinality(log) < Limit THEN Cardinality(log) ELSE Limit, log)
      BY DEF Pages
    <2> QED
      BY <2>1, <2>2 DEF kSubset
  <1>2. rows \in [1 .. Cardinality(p) -> p]
    BY DEF Sorted
  <1>3. \A i \in DOMAIN rows : [event |-> rows[i], id |-> rows[i]] \in Row
    BY <1>1, <1>2 DEF Row, FeedInv
  <1> QED
    BY <1>1, <1>2, <1>3 DEF Rendered

\* Each step keeps the feed within the log.
LEMMA FeedStep ==
  ASSUME FeedInv, [QueryNext]_queryVars
  PROVE  FeedInv'
PROOF
  <1>1. ASSUME NEW l \in Listings, ReadPage(l) PROVE FeedInv'
    BY <1>1, LogGrows DEF ReadPage, readVars, feedVars, FeedInv
  <1>2. ASSUME NEW r \in RouterDocs, RouterIndexed(r) PROVE FeedInv'
    BY <1>2, LogGrows DEF RouterIndexed, feedVars, FeedInv
  <1>3. ASSUME NEW e \in EpochDocs, EpochIndexed(e) PROVE FeedInv'
    BY <1>3, LogGrows DEF EpochIndexed, feedVars, FeedInv
  <1>4. ASSUME NEW e \in Events, EventIndexed(e) PROVE FeedInv'
    <2>1. IsFiniteSet(log')
      BY <1>4, FS_AddElement DEF EventIndexed, FeedInv
    <2>2. Row \subseteq Row'
      BY <1>4 DEF EventIndexed, Row
    <2>3. unpublished' \in Seq(log')
      <3>1. unpublished \in Seq(log') /\ e \in log'
        BY <1>4 DEF EventIndexed, FeedInv
      <3> QED
        BY <3>1, <1>4 DEF EventIndexed
    <2>4. feed' \in Seq(Row')
      BY <1>4, <2>2 DEF EventIndexed, FeedInv
    <2> QED
      BY <1>4, <2>1, <2>3, <2>4 DEF EventIndexed, FeedInv
  <1>5. CASE Publish
    <2>1. Head(unpublished) \in log /\ Tail(unpublished) \in Seq(log)
      BY <1>5 DEF Publish, FeedInv
    <2>2. Prepended(Head(unpublished)) \in Seq(Row)
      BY <2>1, PrependedRows
    <2>3. feed' \in Seq(Row)
      BY <1>5, <2>2 DEF Publish, FeedInv
    <2> QED
      BY <1>5, <2>1, <2>3 DEF Publish, FeedInv, readVars, Row
  <1>6. CASE IndexerDies
    BY <1>6 DEF IndexerDies, FeedInv, readVars, Row
  <1>7. CASE LoadFeed
    <2>1. feed' \in Seq(Row)
      BY <1>7, RenderedRows DEF LoadFeed
    <2> QED
      BY <1>7, <2>1 DEF LoadFeed, FeedInv, readVars, Row
  <1>8. CASE SocketTurns
    BY <1>8, LogGrows DEF SocketTurns, readVars, FeedInv
  <1>9. CASE GatewayTurns
    BY <1>9, LogGrows DEF GatewayTurns, readVars, FeedInv
  <1>10. CASE UNCHANGED queryVars
    BY <1>10, LogGrows DEF queryVars, readVars, feedVars, FeedInv
  <1> QED
    BY <1>1, <1>2, <1>3, <1>4, <1>5, <1>6, <1>7, <1>8, <1>9, <1>10 DEF QueryNext

\* ingest.ts:92-102: with any number of events and readers, whatever the indexer,
\* the gateway and the sockets do, no row of the feed is missing from the database.
THEOREM DurableFeed == QuerySpec => []FeedIsDurable
PROOF
  <1>1. QueryInit => FeedInv
    BY FS_EmptySet DEF QueryInit, FeedInv
  <1>2. FeedInv /\ [QueryNext]_queryVars => FeedInv'
    BY FeedStep
  <1>3. ASSUME FeedInv PROVE FeedIsDurable
    <2> SUFFICES ASSUME NEW i \in DOMAIN feed PROVE feed[i].event \in log
      BY DEF FeedIsDurable
    <2>1. feed \in Seq(Row)
      BY <1>3 DEF FeedInv
    <2>2. feed[i] \in Row
      BY <2>1, ElementOfSeq, LenProperties
    <2> QED
      BY <2>2 DEF Row
  <1> QED
    BY <1>1, <1>2, <1>3, PTL DEF QuerySpec

----------------------------------------------------------------------------
(* Walks through the lists. *)

\* The rows a list may have.
Docs(l) == CASE l = "routers" -> RouterDocs [] l = "epochs" -> EpochDocs [] OTHER -> Events

\* The place of a row in the order a list is read in: lower comes first.
Place(l, row) ==
  CASE l = "routers" -> row
    [] l = "epochs"  -> -Lexical[row]
    [] OTHER         -> -TimeOf[row]

\* Rows that come before others are those with a lower place.
LEMMA AheadIsPlace ==
  ASSUME NEW l \in Listings, NEW a \in Docs(l), NEW b \in Docs(l)
  PROVE  /\ Place(l, a) \in Int /\ Place(l, b) \in Int
         /\ Ahead(l, a, b) <=> Place(l, a) < Place(l, b)
         /\ l = "epochs" /\ a # b => Ahead(l, a, b) \/ Ahead(l, b, a)
PROOF
  <1>1. CASE l = "routers"
    BY <1>1, QueriesAssumption DEF Docs, Place, Ahead
  <1>2. CASE l = "epochs"
    <2>1. Lexical[a] \in Nat /\ Lexical[b] \in Nat /\ (a # b => Lexical[a] # Lexical[b])
      BY <1>2, QueriesAssumption DEF Docs, IsInjective
    <2> QED
      BY <1>2, <2>1 DEF Place, Ahead
  <1>3. CASE l = "events"
    <2>1. TimeOf[a] \in Nat /\ TimeOf[b] \in Nat
      BY <1>3, QueriesAssumption DEF Docs
    <2> QED
      BY <1>3, <2>1 DEF Place, Ahead
  <1> QED
    BY <1>1, <1>2, <1>3 DEF Listings

\* Of finitely many rows one comes last.
LEMMA SomeRowIsLast ==
  ASSUME NEW l \in Listings, NEW p, p \subseteq Docs(l), IsFiniteSet(p), p # {}
  PROVE  LastRows(l, p) # {}
PROOF
  <1> DEFINE Lastless == {q \in SUBSET p : q # {} /\ LastRows(l, q) = {}}
             R == StrictSubsetOrdering(p)
  <1> SUFFICES ASSUME LastRows(l, p) = {} PROVE FALSE
    OBVIOUS
  <1>1. IsWellFoundedOn(R, SUBSET p)
    BY FS_StrictSubsetOrderingWellFounded, FS_FiniteSubsetsOfFinite
  <1>2. Lastless \subseteq SUBSET p /\ Lastless # {}
    OBVIOUS
  <1> HIDE DEF Lastless, R
  <1>3. PICK q \in Lastless : \A s \in Lastless : ~(<<s, q>> \in R)
    BY <1>1, <1>2, WFMin
  <1>4. q \subseteq p /\ q # {} /\ LastRows(l, q) = {}
    BY <1>3 DEF Lastless
  <1>5. PICK x \in q : TRUE
    BY <1>4
  <1>6. q \ {x} \notin Lastless
    <2>1. <<q \ {x}, q>> \in R
      BY <1>4, <1>5 DEF R, StrictSubsetOrdering
    <2> QED
      BY <1>3, <2>1
  <1>7. \A a, b \in p : /\ Place(l, a) \in Int /\ Place(l, b) \in Int
                        /\ Ahead(l, a, b) <=> Place(l, a) < Place(l, b)
    BY AheadIsPlace
  <1>8. CASE q \ {x} = {}
    <2>1. x \in LastRows(l, q)
      BY <1>4, <1>5, <1>7, <1>8 DEF LastRows
    <2> QED
      BY <1>4, <2>1
  <1>9. CASE q \ {x} # {}
    <2>1. PICK a : a \in LastRows(l, q \ {x})
      BY <1>4, <1>6, <1>9 DEF Lastless
    <2>2. a \in q /\ \A b \in q \ {x} : ~Ahead(l, a, b)
      BY <2>1 DEF LastRows
    <2>3. CASE Ahead(l, a, x)
      <3>1. \A b \in q : ~Ahead(l, x, b)
        BY <1>4, <1>5, <1>7, <2>2, <2>3
      <3> QED
        BY <1>4, <1>5, <3>1 DEF LastRows
    <2>4. CASE ~Ahead(l, a, x)
      BY <1>4, <2>2, <2>4 DEF LastRows
    <2> QED
      BY <2>3, <2>4
  <1> QED
    BY <1>8, <1>9

\* What a client has read, and what it will.
Walks == [cursor : Int, seen : SUBSET Nat, twice : BOOLEAN, there : SUBSET Nat,
          cuts : SUBSET Int, step : {"new", "more", "done"}]

\* What a client on its way w may miss for good.
Missable(l, w, row) ==
  \/ /\ l = "epochs" /\ Cardinality(w.seen) = Limit
     /\ \A a \in w.seen : Ahead(l, a, row)
  \/ l = "events" /\ TimeOf[row] \in w.cuts

\* What was read is behind the cursor; what was there and was not, is beyond it.
OnTheWay(l) ==
  LET w == walk[l] IN
  /\ w \in Walks /\ ~w.twice
  /\ w.seen \subseteq Holds(l) /\ w.there \subseteq Holds(l)
  /\ w.step = "new" => w.cursor = Start /\ w.seen = {} /\ w.there = {}
  /\ w.step = "more" =>
       /\ w.cursor # Start
       /\ \A row \in w.seen : ~Beyond(l, row, w.cursor)
       /\ \A row \in w.there \ w.seen : Beyond(l, row, w.cursor) \/ Missable(l, w, row)
  /\ w.step = "done" => \A row \in w.there \ w.seen : Missable(l, w, row)

WalkInv ==
  /\ walk = [l \in Listings |-> walk[l]]
  /\ \A l \in Listings : /\ Holds(l) \subseteq Docs(l) /\ IsFiniteSet(Holds(l))
                         /\ OnTheWay(l)

\* A page: all that matches, or the first of it.
LEMMA PageRows ==
  ASSUME NEW l \in Listings, NEW m, m \subseteq Docs(l), IsFiniteSet(m), NEW p \in Pages(l, m)
  PROVE  /\ p \subseteq m /\ IsFiniteSet(p)
         /\ \A a \in p, b \in m \ p : ~Ahead(l, b, a)
         /\ Cardinality(m) > Limit => p # {} /\ Cardinality(p) = Limit
         /\ ~(Cardinality(m) > Limit) => p = m
PROOF
  <1>1. Cardinality(m) \in Nat /\ Limit \in Nat \ {0}
    BY FS_CardinalityType, QueriesAssumption
  <1>2. /\ p \subseteq m
        /\ Cardinality(p) = IF Cardinality(m) < Limit THEN Cardinality(m) ELSE Limit
        /\ \A a \in p, b \in m \ p : ~Ahead(l, b, a)
    BY DEF Pages, kSubset
  <1>3. IsFiniteSet(p)
    BY <1>2, FS_Subset
  <1>4. Cardinality(m) > Limit => Cardinality(p) = Limit /\ Cardinality(p) # 0
    BY <1>1, <1>2
  <1>5. p # {} \/ Cardinality(p) = 0
    BY FS_EmptySet
  <1>6. ASSUME ~(Cardinality(m) > Limit) PROVE p = m
    <2>1. Cardinality(m) = Cardinality(p)
      BY <1>1, <1>2, <1>6
    <2> QED
      BY <1>2, <2>1, FS_Subset
  <1> QED
    BY <1>2, <1>3, <1>4, <1>5, <1>6

\* A page that leaves more behind ends with a row the rest of what matches is
\* beyond, but for events of its blockTime.
LEMMA CutBehind ==
  ASSUME NEW l \in Listings, NEW m, m \subseteq Docs(l), IsFiniteSet(m), NEW p \in Pages(l, m),
         p # {}, NEW last, last = CursorOf(l, CHOOSE a \in LastRows(l, p) : TRUE)
  PROVE  /\ last \in Int /\ last # Start
         /\ \A row \in p : ~Beyond(l, row, last)
         /\ \A row \in m \ p : \/ Beyond(l, row, last)
                              \/ l = "epochs" \/ (l = "events" /\ TimeOf[row] = last)
         /\ \A cursor \in Int, row \in Docs(l) :
              (\A b \in m : Beyond(l, b, cursor)) /\ ~Beyond(l, row, cursor) => ~Beyond(l, row, last)
PROOF
  <1>1. p \subseteq m /\ IsFiniteSet(p) /\ \A a \in p, b \in m \ p : ~Ahead(l, b, a)
    BY PageRows
  <1>2. PICK a \in LastRows(l, p) : last = CursorOf(l, a)
    <2>1. LastRows(l, p) # {}
      BY <1>1, SomeRowIsLast
    <2> QED
      BY <2>1
  <1>3. a \in p /\ a \in m /\ a \in Docs(l) /\ \A b \in p : ~Ahead(l, a, b)
    BY <1>1, <1>2 DEF LastRows
  <1>4. CASE l = "routers"
    <2>1. last = a /\ m \subseteq Nat \ {0} /\ Docs(l) \subseteq Nat
      BY <1>2, <1>4, QueriesAssumption DEF CursorOf, Docs
    <2>2. \A row \in p : row <= last
      BY <1>1, <1>3, <1>4, <2>1 DEF Ahead
    <2>3. \A row \in m \ p : row > last
      BY <1>1, <1>3, <1>4, <2>1 DEF Ahead
    <2>4. \A row \in Docs(l) : \A cursor : Beyond(l, row, cursor) <=> row > cursor
      BY <1>4 DEF Beyond
    <2>5. \A row \in p : ~Beyond(l, row, last)
      <3>1. \A row \in p : row \in Int /\ row \in Docs(l) /\ last \in Int
        BY <1>1, <1>3, <2>1
      <3> QED
        BY <3>1, <2>2, <2>4
    <2>6. \A row \in m \ p : Beyond(l, row, last)
      BY <2>3, <2>4
    <2>7. ASSUME NEW cursor \in Int, NEW row \in Docs(l), a > cursor, ~(row > cursor)
          PROVE  ~(row > last)
      BY <1>3, <2>1, <2>7
    <2>8. last \in Int /\ last # Start
      BY <1>3, <2>1 DEF Start
    <2> QED
      BY <1>3, <2>4, <2>5, <2>6, <2>7, <2>8
  <1>5. CASE l = "epochs"
    <2>1. last = a /\ m \subseteq Nat
      BY <1>2, <1>5, QueriesAssumption DEF CursorOf, Docs
    <2> QED
      BY <1>3, <1>5, <2>1 DEF Beyond, Start
  <1>6. CASE l = "events"
    <2>1. last = TimeOf[a] /\ \A row \in Docs(l) : TimeOf[row] \in Nat \ {0}
      BY <1>2, <1>6, QueriesAssumption DEF CursorOf, Docs
    <2>2. \A row \in p : TimeOf[row] >= last
      BY <1>1, <1>3, <1>6, <2>1 DEF Ahead
    <2>3. \A row \in m \ p : TimeOf[row] <= last
      BY <1>1, <1>3, <1>6, <2>1 DEF Ahead
    <2>4. \A row \in Docs(l) : \A cursor : Beyond(l, row, cursor) <=> TimeOf[row] < cursor
      BY <1>6 DEF Beyond
    <2>5. \A row \in p : ~Beyond(l, row, last)
      BY <1>1, <1>3, <2>1, <2>2, <2>4
    <2>6. \A row \in m \ p : Beyond(l, row, last) \/ (l = "events" /\ TimeOf[row] = last)
      BY <1>3, <1>6, <2>1, <2>3, <2>4
    <2>7. ASSUME NEW cursor \in Int, NEW row \in Docs(l), TimeOf[a] < cursor,
                 ~(TimeOf[row] < cursor)
          PROVE  ~(TimeOf[row] < last)
      BY <1>3, <2>1, <2>7
    <2>8. last \in Int /\ last # Start
      BY <1>3, <2>1 DEF Start
    <2> QED
      BY <1>3, <2>4, <2>5, <2>6, <2>7, <2>8
  <1> QED
    BY <1>4, <1>5, <1>6 DEF Listings

\* The cursor a page is answered with.
CursorAfter(l, p) ==
  IF p = {} THEN Start ELSE CursorOf(l, CHOOSE a \in LastRows(l, p) : TRUE)

\* Reading a page goes on the way.
LEMMA ReadStep ==
  ASSUME WalkInv, NEW l \in Listings, ReadPage(l)
  PROVE  WalkInv'
PROOF
  <1> DEFINE w == walk[l]
             m == Matching(l, w.cursor)
  <1>1. /\ Holds(l) \subseteq Docs(l) /\ IsFiniteSet(Holds(l)) /\ OnTheWay(l)
        /\ \A k \in Listings : Holds(k)' = Holds(k)
    BY DEF WalkInv, ReadPage, readVars, Holds
  <1>2. PICK p \in Pages(l, m) :
          walk' = [walk EXCEPT ![l] =
            [cursor |-> IF p = {} THEN Start ELSE CursorOf(l, CHOOSE a \in LastRows(l, p) : TRUE),
             seen   |-> w.seen \cup p,
             twice  |-> w.twice \/ w.seen \cap p # {},
             there  |-> IF w.step = "new" THEN Holds(l) ELSE w.there,
             cuts   |-> IF Cardinality(m) > Limit
                        THEN w.cuts \cup {IF p = {} THEN Start
                                          ELSE CursorOf(l, CHOOSE a \in LastRows(l, p) : TRUE)}
                        ELSE w.cuts,
             step   |-> IF Cardinality(m) > Limit THEN "more" ELSE "done"]]
    BY DEF ReadPage
  <1>11. PICK last : last = CursorAfter(l, p)
    OBVIOUS
  <1>12. w.step # "done"
    BY DEF ReadPage
  <1>3. w \in Walks /\ w.step \in {"new", "more"} /\ ~w.twice
    BY <1>1, <1>12 DEF OnTheWay, Walks
  <1>4. m \subseteq Holds(l) /\ m \subseteq Docs(l) /\ IsFiniteSet(m)
    <2>1. m \subseteq Holds(l)
      BY DEF Matching
    <2> QED
      BY <1>1, <2>1, FS_Subset
  <1>5. /\ p \subseteq m /\ IsFiniteSet(p)
        /\ Cardinality(m) > Limit => p # {} /\ Cardinality(p) = Limit
        /\ ~(Cardinality(m) > Limit) => p = m
        /\ \A a \in p, b \in m \ p : ~Ahead(l, b, a)
    BY <1>4, PageRows
  <1>6. /\ w.step = "new" => m = Holds(l) /\ w.seen = {} /\ w.there = {}
        /\ w.step = "more" => /\ \A row \in m : Beyond(l, row, w.cursor)
                              /\ \A row \in w.seen : ~Beyond(l, row, w.cursor)
                              /\ \A row \in w.there \ w.seen : row \in m \/ Missable(l, w, row)
    BY <1>1 DEF OnTheWay, Matching
  <1>7. w.seen \cap p = {}
    BY <1>3, <1>5, <1>6
  <1>23. l = "epochs" /\ w.step = "more" => m = {} /\ p = {} /\ ~(Cardinality(m) > Limit)
    <2>1. ASSUME l = "epochs", w.step = "more" PROVE m = {} /\ p = {}
      BY <1>5, <1>6, <2>1 DEF Beyond
    <2>2. ~(0 > Limit)
      BY QueriesAssumption
    <2> QED
      BY <2>1, <2>2, FS_EmptySet
  <1>8. walk = [k \in Listings |-> walk[k]]
    BY DEF WalkInv
  <1> HIDE DEF w, m
  <1>9. PICK v : v = [cursor |-> last, seen |-> w.seen \cup p,
                      twice  |-> w.twice \/ w.seen \cap p # {},
                      there  |-> IF w.step = "new" THEN Holds(l) ELSE w.there,
                      cuts   |-> IF Cardinality(m) > Limit THEN w.cuts \cup {last} ELSE w.cuts,
                      step   |-> IF Cardinality(m) > Limit THEN "more" ELSE "done"]
    OBVIOUS
  <1>10. /\ v.cursor = last /\ v.seen = w.seen \cup p /\ ~v.twice
         /\ v.there = IF w.step = "new" THEN Holds(l) ELSE w.there
         /\ v.cuts = IF Cardinality(m) > Limit THEN w.cuts \cup {last} ELSE w.cuts
         /\ v.step = IF Cardinality(m) > Limit THEN "more" ELSE "done"
    BY <1>3, <1>7, <1>9
  <1>13. last \in Int
    <2>1. p # {} => CursorOf(l, CHOOSE a \in LastRows(l, p) : TRUE) \in Int
      BY <1>4, <1>5, CutBehind
    <2> QED
      BY <1>11, <2>1 DEF Start, CursorAfter
  <1>14. v \in Walks
    <2>1. Holds(l) \subseteq Nat
      BY <1>1, QueriesAssumption DEF Docs, Listings
    <2>2. p \subseteq Nat
      BY <2>1, <1>4, <1>5
    <2>3. v.twice = FALSE
      BY <1>10, <1>9
    <2>4. /\ v.cursor \in Int /\ v.seen \subseteq Nat /\ v.there \subseteq Nat
          /\ v.cuts \subseteq Int /\ v.step \in {"new", "more", "done"}
      BY <1>3, <1>10, <1>13, <2>1, <2>2 DEF Walks
    <2>5. v = [cursor |-> v.cursor, seen |-> v.seen, twice |-> v.twice, there |-> v.there,
               cuts |-> v.cuts, step |-> v.step]
      BY <1>9
    <2> QED
      BY <2>3, <2>4, <2>5 DEF Walks
  <1>15. walk' = [walk EXCEPT ![l] = v]
    BY <1>2, <1>9, <1>11 DEF w, m, CursorAfter
  <1>16. walk' = [k \in Listings |-> walk'[k]] /\ walk'[l] = v
         /\ \A k \in Listings : k # l => walk'[k] = walk[k]
    BY <1>8, <1>15
  <1>17. v.seen \subseteq Holds(l) /\ v.there \subseteq Holds(l)
    BY <1>1, <1>4, <1>5, <1>10 DEF OnTheWay, w
  <1>18. w.step = "more" => \A row : Missable(l, w, row) => Missable(l, v, row)
    BY <1>10, <1>23 DEF Missable
  <1>19. ASSUME Cardinality(m) > Limit
         PROVE  /\ v.cursor # Start
                /\ \A row \in v.seen : ~Beyond(l, row, v.cursor)
                /\ \A row \in v.there \ v.seen :
                     Beyond(l, row, v.cursor) \/ Missable(l, v, row)
    <2>1. /\ last # Start
          /\ \A row \in p : ~Beyond(l, row, last)
          /\ \A row \in m \ p : \/ Beyond(l, row, last)
                               \/ l = "epochs" \/ (l = "events" /\ TimeOf[row] = last)
          /\ \A cursor \in Int, row \in Docs(l) :
               (\A b \in m : Beyond(l, b, cursor)) /\ ~Beyond(l, row, cursor)
                 => ~Beyond(l, row, last)
      <3>1. p # {} /\ last = CursorOf(l, CHOOSE a \in LastRows(l, p) : TRUE)
        BY <1>5, <1>11, <1>19 DEF CursorAfter
      <3> QED
        BY <3>1, <1>4, CutBehind
    <2>2. \A row \in w.seen : ~Beyond(l, row, last)
      <3>1. w.cursor \in Int /\ w.seen \subseteq Docs(l)
        BY <1>1, <1>3 DEF Walks, OnTheWay, w
      <3> QED
        BY <3>1, <2>1, <1>3, <1>6
    <2>3. \A row \in v.seen : ~Beyond(l, row, last)
      BY <2>1, <2>2, <1>10
    <2>4. last \in v.cuts
      BY <1>10, <1>19
    <2>5. ASSUME NEW row \in v.there \ v.seen
          PROVE  Beyond(l, row, last) \/ Missable(l, v, row)
      <3>1. row \in m \ p \/ (w.step = "more" /\ Missable(l, w, row))
        BY <2>5, <1>3, <1>6, <1>10
      <3>2. CASE l = "epochs"
        <4>1. row \in m \ p /\ v.seen = p /\ Cardinality(p) = Limit
          BY <1>3, <1>5, <1>6, <1>10, <1>19, <1>23, <2>5, <3>2
        <4>2. \A a \in p : Ahead(l, a, row)
          BY <1>4, <1>5, <3>2, <4>1, AheadIsPlace
        <4> QED
          BY <3>2, <4>1, <4>2 DEF Missable
      <3>3. CASE l # "epochs"
        BY <3>1, <3>3, <2>1, <2>4, <1>18 DEF Missable
      <3> QED
        BY <3>2, <3>3
    <2> QED
      BY <2>1, <2>3, <2>5, <1>10
  <1>20. ASSUME ~(Cardinality(m) > Limit), NEW row \in v.there \ v.seen
         PROVE  Missable(l, v, row)
    <2>1. row \in m \/ (w.step = "more" /\ Missable(l, w, row))
      BY <1>20, <1>3, <1>6, <1>10
    <2>2. row \notin m
      BY <1>5, <1>10, <1>20
    <2> QED
      BY <2>1, <2>2, <1>18
  <1>21. ASSUME NEW k \in Listings PROVE OnTheWay(k)'
    <2>1. CASE k = l
      <3>2. /\ v.step = "more" => Cardinality(m) > Limit
            /\ v.step = "done" => ~(Cardinality(m) > Limit)
            /\ v.step # "new"
        BY <1>10
      <3> QED
        BY <2>1, <3>2, <1>1, <1>10, <1>14, <1>16, <1>17, <1>19, <1>20 DEF OnTheWay
    <2>2. CASE k # l
      <3>1. walk'[k] = walk[k] /\ OnTheWay(k)
        BY <2>2, <1>16 DEF WalkInv
      <3> QED
        BY <3>1, <1>1 DEF OnTheWay
    <2> QED
      BY <2>1, <2>2
  <1>22. \A k \in Listings : (Holds(k) \subseteq Docs(k) /\ IsFiniteSet(Holds(k)))'
    BY <1>1 DEF WalkInv
  <1> QED
    BY <1>16, <1>21, <1>22 DEF WalkInv

\* What is written meanwhile only adds to the lists.
LEMMA WriteStep ==
  ASSUME WalkInv, UNCHANGED walk,
         \A l \in Listings : /\ Holds(l) \subseteq Holds(l)' /\ Holds(l)' \subseteq Docs(l)
                            /\ IsFiniteSet(Holds(l)')
  PROVE  WalkInv'
PROOF
  <1>1. ASSUME NEW l \in Listings PROVE OnTheWay(l)'
    BY DEF WalkInv, OnTheWay
  <1> QED
    BY <1>1 DEF WalkInv

\* Each step keeps every client on its way.
LEMMA WalkStep ==
  ASSUME WalkInv, [QueryNext]_queryVars
  PROVE  WalkInv'
PROOF
  <1>0. /\ fleet \subseteq RouterDocs /\ opened \subseteq EpochDocs /\ log \subseteq Events
        /\ IsFiniteSet(fleet) /\ IsFiniteSet(opened) /\ IsFiniteSet(log)
    BY DEF WalkInv, Listings, Holds, Docs
  <1>1. ASSUME NEW l \in Listings, ReadPage(l) PROVE WalkInv'
    BY <1>1, ReadStep
  <1>2. ASSUME /\ fleet \subseteq fleet' /\ opened \subseteq opened' /\ log \subseteq log'
               /\ fleet' \subseteq RouterDocs /\ opened' \subseteq EpochDocs /\ log' \subseteq Events
               /\ IsFiniteSet(fleet') /\ IsFiniteSet(opened') /\ IsFiniteSet(log')
               /\ UNCHANGED walk
        PROVE  WalkInv'
    <2>1. \A l \in Listings : /\ Holds(l) \subseteq Holds(l)' /\ Holds(l)' \subseteq Docs(l)
                             /\ IsFiniteSet(Holds(l)')
      BY <1>2 DEF Listings, Holds, Docs
    <2> QED
      BY <1>2, <2>1, WriteStep
  <1>3. ASSUME NEW r \in RouterDocs, RouterIndexed(r) PROVE WalkInv'
    <2>1. IsFiniteSet(fleet')
      BY <1>0, <1>3, FS_AddElement DEF RouterIndexed
    <2> QED
      BY <1>0, <1>2, <1>3, <2>1 DEF RouterIndexed
  <1>4. ASSUME NEW e \in EpochDocs, EpochIndexed(e) PROVE WalkInv'
    <2>1. IsFiniteSet(opened')
      BY <1>0, <1>4, FS_AddElement DEF EpochIndexed
    <2> QED
      BY <1>0, <1>2, <1>4, <2>1 DEF EpochIndexed
  <1>5. ASSUME NEW e \in Events, EventIndexed(e) PROVE WalkInv'
    <2>1. IsFiniteSet(log')
      BY <1>0, <1>5, FS_AddElement DEF EventIndexed
    <2> QED
      BY <1>0, <1>2, <1>5, <2>1 DEF EventIndexed
  <1>6. CASE Publish \/ IndexerDies \/ LoadFeed \/ SocketTurns \/ GatewayTurns \/ UNCHANGED queryVars
    BY <1>0, <1>2, <1>6
    DEF Publish, IndexerDies, LoadFeed, SocketTurns, GatewayTurns, readVars, queryVars
  <1> QED
    BY <1>1, <1>3, <1>4, <1>5, <1>6 DEF QueryNext

\* pagination.ts:1-4: of lists of any length, read in pages of any size while they
\* grow, no client is shown a row twice; to the end of the routers it misses none that
\* was there, of the events only some of a blockTime a page was cut at, and of the
\* epochs only what comes behind one full page.
THEOREM WalksComplete == QuerySpec => []WalksMissOnlyAtCuts
PROOF
  <1>1. QueryInit => WalkInv
    <2> SUFFICES ASSUME QueryInit PROVE WalkInv
      OBVIOUS
    <2>1. NewWalk \in Walks
      BY DEF NewWalk, Walks, Start
    <2>2. \A l \in Listings : Holds(l) = {} /\ walk[l] = NewWalk
      BY DEF QueryInit, Holds
    <2>3. IsFiniteSet({})
      BY FS_EmptySet
    <2>4. /\ ~NewWalk.twice /\ NewWalk.seen = {} /\ NewWalk.there = {}
          /\ NewWalk.cursor = Start /\ NewWalk.step = "new"
      BY DEF NewWalk
    <2>5. \A l \in Listings : OnTheWay(l)
      BY <2>1, <2>2, <2>4 DEF OnTheWay
    <2>6. walk = [l \in Listings |-> walk[l]]
      BY DEF QueryInit
    <2> QED
      BY <2>2, <2>3, <2>5, <2>6 DEF WalkInv
  <1>2. WalkInv /\ [QueryNext]_queryVars => WalkInv'
    BY WalkStep
  <1>3. ASSUME WalkInv PROVE WalksMissOnlyAtCuts
    BY <1>3 DEF WalkInv, OnTheWay, WalksMissOnlyAtCuts, Missable
  <1> QED
    BY <1>1, <1>2, <1>3, PTL DEF QuerySpec
=============================================================================
