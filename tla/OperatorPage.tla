---------------------------- MODULE OperatorPage ----------------------------
(***************************************************************************)
(* The operator page of one tab (web/src/app/operator and the components   *)
(* RouterActions and RegisterRouter), with the API, the indexer and the    *)
(* program as far as the page can tell.                                    *)
(*                                                                         *)
(* A fetch is answered, or fails, whenever it likes: the page never        *)
(* cancels one, and applies whatever arrives last.  What a component holds *)
(* in memory is lost when it is no longer rendered.                        *)
(*                                                                         *)
(* Abstracted: a list is known by the wallet or router it was fetched for, *)
(* a key pair is a number, amounts and epoch numbers are left out.  Left   *)
(* out, too: the refresh after a success whose card is gone (useTx.ts:37), *)
(* one more fetch of what the page wants; and a second click while a       *)
(* button awaits the token account, before run() sets busy                 *)
(* (RouterActions.tsx:64-66, 105-107, 127-129), one more transaction that  *)
(* involves no key.                                                        *)
(***************************************************************************)
EXTENDS Session, Sequences, FiniteSets, SequencesExt

CONSTANTS
  Here,        \* the tab
  Boxes,       \* routers, by the address the owner and the id give them
  HolderOf,    \* [Boxes -> Holders]
  NoBox,
  Admin,   \* the protocol's authority, as the API reads it
  Deeds,       \* transactions of a card that involve no key
  MaxKeys,     \* key pairs generated (bound)
  MaxFlights,  \* unanswered fetches of a kind (bound)
  MaxLost      \* confirmations that never come (bound)

ASSUME OperatorPageAssumption ==
  /\ Here \in Tabs /\ HolderOf \in [Boxes -> Holders] /\ NoBox \notin Boxes
  /\ Deeds \subseteq {"stake", "claim", "vest", "unstake"}

VARIABLES
  page,       \* [routers, selected, epochs, admin, timers]
  flights,    \* [Lists -> sequence of unanswered fetches, oldest first]
  behind,     \* [Lists -> how many of them a newer answer has overtaken]
  stale,      \* lists whose last answer was an overtaken one, or a failure
  card,       \* RouterActions: [busy, rotated]
  form,       \* RegisterRouter: [busy, device]
  sent,       \* transactions neither executed and answered nor expired
  deviceKey,  \* [Boxes -> key]: the Router accounts, 0 before registration
  indexed,    \* routers the indexer has projected
  keys,       \* key pairs generated so far
  lost,       \* confirmations that have not come so far
  unheard     \* routers given a key whose transaction nobody was waiting for

chainVars == <<sent, deviceKey, indexed, keys, lost, unheard>>
fetchVars == <<flights, behind, stale>>
pageVars  == <<page, fetchVars, card, form, chainVars>>

Lists == {"routers", "epochs", "admin"}

Nothing == [of |-> NoWallet, boxes |-> {}]
NoKeyShown == [box |-> NoBox, key |-> 0]
NoCard == [busy |-> {}, rotated |-> NoKeyShown]
NoForm == [busy |-> FALSE, device |-> NoKeyShown]
NoPage == [routers |-> Nothing, selected |-> NoBox, epochs |-> NoBox,
           admin |-> "none", timers |-> 0]

PageInit ==
  /\ SessionInit
  /\ page = NoPage
  /\ flights = [l \in Lists |-> <<>>] /\ behind = [l \in Lists |-> 0] /\ stale = {}
  /\ card = NoCard /\ form = NoForm
  /\ sent = {} /\ keys = 0 /\ lost = 0 /\ unheard = {}
  /\ deviceKey = [b \in Boxes |-> 0] /\ indexed = {}

----------------------------------------------------------------------------
(* Rendering: a component is there, or it is gone with all it held.        *)

CardShown(w, p) == w # NoWallet /\ p.selected \in p.routers.boxes

\* The page is p now, under wallet w; the components hold c and f where they are
\* rendered, and await the transactions txs.
Renders(w, p, c, f, txs) ==
  /\ page' = p
  /\ card' = IF CardShown(w, p) THEN c ELSE NoCard
  /\ form' = IF w # NoWallet THEN f ELSE NoForm
  /\ sent' = {[t EXCEPT !.awaited = @ /\ IF t.kind = "register" THEN w # NoWallet
                                         ELSE CardShown(w, p)] : t \in txs}

----------------------------------------------------------------------------
(* Effects and their fetches.                                              *)

Waiting(l) == Len(flights[l])

\* Fetches asks the lists of which asks is not empty for what they name.
Fetches(asks) ==
  /\ \A l \in Lists : Waiting(l) + Len(asks[l]) <= MaxFlights
  /\ flights' = [l \in Lists |-> flights[l] \o asks[l]]
  /\ UNCHANGED <<behind, stale>>

AsksRouters(w) == IF w = NoWallet THEN <<>> ELSE <<w>>
AsksEpochs(b)  == IF b = NoBox THEN <<>> ELSE <<b>>

\* Asks for routers on a refresh only (mutation).
OnWalletForgotten(w) == <<>>
OnWallet(w) == AsksRouters(w)

\* The probe follows isAuthenticated and the session object.
SignedInAfter == connected'[Here] # NoWallet
                   /\ session'[Here].page.wallet = connected'[Here]
SessionMoved  == \/ session'[Here].page # session[Here].page
                 \/ SignedInAfter # Authenticated(Here, "page")
Probes == IF SignedInAfter /\ SessionMoved THEN <<connected'[Here]>> ELSE <<>>

SwitchWalletHere(w) ==
  /\ SwitchWallet(Here, w)
  /\ Fetches([routers |-> OnWallet(w), epochs |-> <<>>, admin |-> Probes])
  /\ Renders(w, [page EXCEPT !.routers = IF w = NoWallet THEN Nothing ELSE @,
                             !.admin = IF SignedInAfter THEN @ ELSE "none"],
             card, form, sent)
  /\ UNCHANGED <<deviceKey, indexed, keys, lost, unheard>>

\* A page mounted anew hears no answer to its predecessor.
Mounts ==
  LET w == connected'[Here] IN
  /\ flights' = [routers |-> AsksRouters(w), epochs |-> <<>>,
                 admin |-> IF SignedInAfter THEN <<w>> ELSE <<>>]
  /\ behind' = [l \in Lists |-> 0] /\ stale' = {}
  /\ Renders(w, NoPage, NoCard, NoForm, {[t EXCEPT !.awaited = FALSE] : t \in sent})
  /\ UNCHANGED <<deviceKey, indexed, keys, lost, unheard>>

ReloadHere   == Reload(Here) /\ Mounts
OpenPageHere == OpenPage(Here) /\ Mounts

\* A click on manage or hide; the card is not keyed by its router.
Select(b) ==
  /\ connected[Here] # NoWallet /\ b \in page.routers.boxes
  /\ LET chosen == IF page.selected = b THEN NoBox ELSE b IN
     /\ Fetches([routers |-> <<>>, epochs |-> AsksEpochs(chosen), admin |-> <<>>])
     /\ Renders(connected[Here],
                [page EXCEPT !.selected = chosen,
                             !.epochs = IF chosen = NoBox THEN NoBox ELSE @],
                card, form, sent)
  /\ UNCHANGED <<sessionVars, deviceKey, indexed, keys, lost, unheard>>

\* 1500 ms after a success: refreshKey moves, and both lists are fetched again.
TimerFires ==
  /\ page.timers > 0
  /\ Fetches([routers |-> AsksRouters(connected[Here]),
              epochs |-> AsksEpochs(page.selected), admin |-> <<>>])
  /\ page' = [page EXCEPT !.timers = @ - 1]
  /\ UNCHANGED <<sessionVars, card, form, chainVars>>

----------------------------------------------------------------------------
(* Answers.                                                                *)

OwnedBy(w) == {b \in indexed : HolderOf[b] = w}

\* The guard of the admin routes compares the token's wallet with the authority.
Shown(l, for) ==
  CASE l = "routers" -> [page EXCEPT !.routers = [of |-> for, boxes |-> OwnedBy(for)]]
    [] l = "epochs"  -> [page EXCEPT !.epochs = for]
    [] OTHER         -> [page EXCEPT !.admin = IF for = Admin THEN "granted"
                                               ELSE "refused"]
ShownFailed(l) ==
  CASE l = "routers" -> [page EXCEPT !.routers = Nothing]
    [] l = "epochs"  -> [page EXCEPT !.epochs = NoBox]
    [] OTHER         -> [page EXCEPT !.admin = "unreachable"]

\* The i-th oldest fetch is over; what was older has been overtaken.
Lands(l, i) ==
  /\ i \in 1 .. Waiting(l)
  /\ flights' = [flights EXCEPT ![l] = RemoveAt(@, i)]
  /\ behind' = [behind EXCEPT ![l] = IF i > @ THEN i - 1 ELSE @ - 1]

FetchAnswered(l, i) ==
  /\ Lands(l, i)
  /\ stale' = IF i > behind[l] THEN stale \ {l} ELSE stale \cup {l}
  /\ Renders(connected[Here], Shown(l, flights[l][i]), card, form, sent)
  /\ UNCHANGED <<sessionVars, deviceKey, indexed, keys, lost, unheard>>

FetchFails(l, i) ==
  /\ Lands(l, i)
  /\ stale' = stale \cup {l}
  /\ Renders(connected[Here], ShownFailed(l), card, form, sent)
  /\ UNCHANGED <<sessionVars, deviceKey, indexed, keys, lost, unheard>>

----------------------------------------------------------------------------
(* Transactions: useTx, the buttons of the card and the form.              *)

Sends(kind, b, key) ==
  sent' = sent \cup {[kind |-> kind, box |-> b, by |-> connected[Here], key |-> key,
                      awaited |-> TRUE, executed |-> FALSE]}

\* The card of whichever router is selected; its rows of epochs are those listed.
Act(deed) ==
  /\ CardShown(connected[Here], page) /\ deed \notin card.busy
  /\ deed \in {"claim", "vest"} => page.epochs # NoBox
  /\ Sends(deed, page.selected, 0)
  /\ card' = [card EXCEPT !.busy = @ \cup {deed}]
  /\ UNCHANGED <<sessionVars, page, fetchVars, form, deviceKey, indexed, keys, lost, unheard>>

\* Another rotation may start before the first is answered (mutation).
MayRotateAlways == CardShown(connected[Here], page)
MayRotate       == CardShown(connected[Here], page) /\ "rotate" \notin card.busy

Rotate ==
  /\ MayRotate /\ keys < MaxKeys
  /\ keys' = keys + 1
  /\ Sends("rotate", page.selected, keys')
  /\ card' = [card EXCEPT !.busy = @ \cup {"rotate"}]
  /\ UNCHANGED <<sessionVars, page, fetchVars, form, deviceKey, indexed, lost, unheard>>

\* Until the key it has shown is dismissed there is no form to submit.
Submit(b) ==
  /\ connected[Here] # NoWallet /\ HolderOf[b] = connected[Here]
  /\ ~form.busy /\ form.device = NoKeyShown /\ keys < MaxKeys
  /\ keys' = keys + 1
  /\ Sends("register", b, keys')
  /\ form' = [form EXCEPT !.busy = TRUE]
  /\ UNCHANGED <<sessionVars, page, fetchVars, card, deviceKey, indexed, lost, unheard>>

Dismiss ==
  /\ form.device # NoKeyShown
  /\ form' = NoForm
  /\ UNCHANGED <<sessionVars, page, fetchVars, card, chainVars>>

\* What the program accepts of a transaction.
Accepts(t) ==
  /\ t.by = HolderOf[t.box]
  /\ t.kind = "register" <=> deviceKey[t.box] = 0

\* It may be executed long after the page has given up on it.
Executes(t) ==
  /\ t \in sent /\ ~t.executed /\ Accepts(t)
  /\ sent' = (sent \ {t}) \cup IF t.awaited THEN {[t EXCEPT !.executed = TRUE]} ELSE {}
  /\ deviceKey' = [deviceKey EXCEPT ![t.box] = IF t.key # 0 THEN t.key ELSE @]
  /\ unheard' = IF t.awaited \/ t.key = 0 THEN unheard ELSE unheard \cup {t.box}
  /\ UNCHANGED <<sessionVars, page, fetchVars, card, form, indexed, keys, lost>>

Expires(t) ==
  /\ t \in sent /\ ~t.awaited
  /\ sent' = sent \ {t}
  /\ unheard' = IF t.executed /\ t.key # 0 THEN unheard \cup {t.box} ELSE unheard
  /\ UNCHANGED <<sessionVars, page, fetchVars, card, form, deviceKey, indexed, keys, lost>>

\* The key is shown only once rpc() has returned a signature.
Confirmed(t) ==
  LET shown == [box |-> t.box, key |-> t.key] IN
  /\ t \in sent /\ t.awaited /\ t.executed
  /\ sent' = sent \ {t}
  /\ page' = [page EXCEPT !.timers = @ + 1]
  /\ IF t.kind = "register"
     THEN form' = [busy |-> FALSE, device |-> shown] /\ UNCHANGED card
     ELSE /\ card' = [busy |-> card.busy \ {t.kind},
                      rotated |-> IF t.kind = "rotate" THEN shown ELSE card.rotated]
          /\ UNCHANGED form
  /\ UNCHANGED <<sessionVars, fetchVars, deviceKey, indexed, keys, lost, unheard>>

\* rpc() throws: refused, or not confirmed in time, executed or not.
TxThrows(t) ==
  /\ t \in sent /\ t.awaited
  /\ \/ ~t.executed /\ ~Accepts(t) /\ UNCHANGED lost
     \/ lost < MaxLost /\ lost' = lost + 1
  /\ sent' = (sent \ {t}) \cup {[t EXCEPT !.awaited = FALSE]}
  /\ IF t.kind = "register" THEN form' = NoForm /\ UNCHANGED card
     ELSE card' = [card EXCEPT !.busy = @ \ {t.kind}] /\ UNCHANGED form
  /\ UNCHANGED <<sessionVars, page, fetchVars, deviceKey, indexed, keys, unheard>>

Projects(b) ==
  /\ deviceKey[b] # 0 /\ b \notin indexed
  /\ indexed' = indexed \cup {b}
  /\ UNCHANGED <<sessionVars, page, fetchVars, card, form, sent, deviceKey, keys, lost,
                 unheard>>

----------------------------------------------------------------------------
Elsewhere ==
  \/ \E t \in Tabs : BarStep(t)
  \/ \E t \in Tabs \ {Here} :
       Reload(t) \/ OpenPage(t) \/ \E w \in Holders \cup {NoWallet} : SwitchWallet(t, w)
  \/ \E v \in burning : VerifyBurns(v)

PageNext ==
  \/ Elsewhere /\ UNCHANGED pageVars
  \/ ReloadHere \/ OpenPageHere \/ \E w \in Holders \cup {NoWallet} : SwitchWalletHere(w)
  \/ TimerFires \/ Rotate \/ Dismiss \/ \E deed \in Deeds : Act(deed)
  \/ \E b \in Boxes : Select(b) \/ Submit(b) \/ Projects(b)
  \/ \E l \in Lists : \E i \in 1 .. Waiting(l) : FetchAnswered(l, i) \/ FetchFails(l, i)
  \/ \E t \in sent : Executes(t) \/ Expires(t) \/ Confirmed(t) \/ TxThrows(t)

PageSpec == PageInit /\ [][PageNext]_<<sessionVars, pageVars>>

----------------------------------------------------------------------------
Settled(l) == flights[l] = <<>> /\ l \notin stale

\* operator/page.tsx:13: what is shown is what the connected wallet owns, the epochs
\* those of the selected router and the admin panel that of the session, once every
\* fetch is answered; only an answer overtaken by a newer one, or a failed fetch,
\* leaves another wallet's or router's behind.
QuietPageIsCurrent ==
  connected[Here] # NoWallet =>
    /\ Settled("routers") => page.routers.of = connected[Here]
    /\ Settled("epochs") /\ page.selected # NoBox => page.epochs = page.selected
    /\ Settled("admin") /\ Authenticated(Here, "page") =>
         page.admin = IF connected[Here] = Admin THEN "granted" ELSE "refused"

\* RouterActions.tsx:150-154, RegisterRouter.tsx:14-19: the key on screen is the one
\* the router accepts (for a registration: or did, until a rotation), as long as no
\* rotation of it is under way or was executed unheard.
ShownKeysAreLive ==
  LET certain(b) == b \notin unheard /\ \A t \in sent : t.box = b => t.key = 0
      r == card.rotated
      d == form.device
  IN  /\ r # NoKeyShown /\ certain(r.box) => deviceKey[r.box] = r.key
      /\ d # NoKeyShown => deviceKey[d.box] >= d.key
=============================================================================
