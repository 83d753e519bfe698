------------------------------- MODULE Indexer -------------------------------
(***************************************************************************)
(* The indexer (indexer/src): backfill, live subscription and periodic     *)
(* reconciliation project the program's transactions into MongoDB.         *)
(*                                                                         *)
(* Every await is a point where other calls, passes and processes run, so  *)
(* each action below is the code between two awaits.  MongoDB outlives the *)
(* processes: claimed, stored and doc survive a crash, everything a        *)
(* process holds in memory does not.                                       *)
(*                                                                         *)
(* Abstracted data: documents of different routers and epochs never touch  *)
(* each other, so there is one of each.  A document keeps the fields two   *)
(* writers compete for; names, keys, scores and dates are left out, and a  *)
(* signature is its position in the chain.                                 *)
(***************************************************************************)
EXTENDS Naturals, Sequences, FiniteSets

CONSTANTS
  Procs,      \* "service" (npm start) and perhaps "job" (npm run backfill)
  Passes,     \* reconciliation passes that may overlap
  Kinds,      \* kinds of transaction that confirm afterwards
  Histories,  \* chains the indexer may find when it first starts
  MaxTx,      \* length of the chain (bound)
  MaxStaked,  \* highest collateral level (bound)
  MaxFaults   \* crashes, exhausted retries and failed writes (bound)

Sigs == 1 .. MaxTx

ASSUME IndexerAssumption ==
  /\ "service" \in Procs /\ Procs \subseteq {"service", "job"}
  /\ MaxTx \in Nat

VARIABLES
  chain,    \* sequence of [kind, after]: a transaction, the accounts after it
  served,   \* signatures getTransaction answers for
  proc,     \* [Procs -> [phase, listed, cursor]]
  call,     \* [Procs -> [Sigs -> [pc, next]]]: processSignature in flight
  claimed,  \* _ids of the transactions collection
  stored,   \* signatures whose events are in the events collection
  doc,      \* the routers, epochs and protocol documents
  pass,     \* [Passes -> [at, seen]]: reconcileOnce in flight
  faults

mongo == <<claimed, stored, doc>>
vars  == <<chain, served, proc, call, mongo, pass, faults>>

----------------------------------------------------------------------------
(* The chain, as far as the indexer can tell states apart. *)

NoAccount == [status |-> "none", heartbeatCount |-> 0, stakedAmount |-> 0,
              finalized |-> FALSE, claimed |-> FALSE, slashed |-> FALSE,
              vested |-> FALSE, isPaused |-> FALSE]

Account(n) == IF n = 0 THEN NoAccount ELSE chain[n].after

\* "late" is a heartbeat that suspends, "penalty" a penalty that suspends.
Executes(kind, a) ==
  \/ kind = "register" /\ a.status = "none" /\ ~a.isPaused
  \/ kind = "stake" /\ a.status # "none" /\ ~a.isPaused /\ a.stakedAmount < MaxStaked
  \/ kind = "unstake" /\ a.stakedAmount > 0 /\ ~a.isPaused
                      /\ (a.status = "active" => a.stakedAmount > 1)
  \/ kind = "heartbeat" /\ a.status = "active" /\ a.stakedAmount > 0 /\ ~a.isPaused
  \/ kind = "late" /\ a.status = "active" /\ a.stakedAmount > 0 /\ ~a.isPaused
                   /\ a.heartbeatCount > 0
  \/ kind = "finalize" /\ a.heartbeatCount > 0 /\ ~a.finalized
  \/ kind = "claim" /\ a.finalized /\ ~a.claimed /\ ~a.isPaused
                    /\ a.status # "decommissioned"
  \/ kind = "vest" /\ a.claimed /\ ~a.vested /\ ~a.isPaused
  \/ kind = "slash" /\ a.finalized /\ ~a.slashed /\ a.stakedAmount > 0
  \/ kind = "penalty" /\ a.status = "active"
  \/ kind = "reinstate" /\ a.status = "suspended"
  \/ kind = "decommission" /\ a.status \in {"active", "suspended"}
  \/ kind = "pause" /\ ~a.isPaused
  \/ kind = "resume" /\ a.isPaused
  \/ kind = "failed"

After(kind, a) ==
  CASE kind = "register"     -> [a EXCEPT !.status = "active"]
    [] kind = "stake"        -> [a EXCEPT !.stakedAmount = @ + 1]
    [] kind = "unstake"      -> [a EXCEPT !.stakedAmount = @ - 1]
    [] kind = "heartbeat"    -> [a EXCEPT !.heartbeatCount = @ + 1]
    [] kind = "late"         -> [a EXCEPT !.heartbeatCount = @ + 1, !.status = "suspended"]
    [] kind = "finalize"     -> [a EXCEPT !.finalized = TRUE]
    [] kind = "claim"        -> [a EXCEPT !.claimed = TRUE]
    [] kind = "vest"         -> [a EXCEPT !.vested = TRUE]
    [] kind = "slash"        -> [a EXCEPT !.slashed = TRUE, !.stakedAmount = @ - 1]
    [] kind = "penalty"      -> [a EXCEPT !.status = "suspended"]
    [] kind = "reinstate"    -> [a EXCEPT !.status = "active"]
    [] kind = "decommission" -> [a EXCEPT !.status = "decommissioned"]
    [] kind = "pause"        -> [a EXCEPT !.isPaused = TRUE]
    [] kind = "resume"       -> [a EXCEPT !.isPaused = FALSE]
    [] OTHER                 -> a

Accounts ==
  {a \in [status: {"none", "active", "suspended", "decommissioned"}, heartbeatCount: Nat,
          stakedAmount: Nat, finalized: BOOLEAN, claimed: BOOLEAN, slashed: BOOLEAN,
          vested: BOOLEAN, isPaused: BOOLEAN] :
     a.status = "none" => a.heartbeatCount = 0 /\ a.stakedAmount = 0}

TxKinds == {"register", "stake", "unstake", "heartbeat", "late", "finalize", "claim",
            "vest", "slash", "penalty", "reinstate", "decommission", "pause", "resume",
            "failed"}

\* What the program executed, from the deployment on.
Executed(h) ==
  /\ h \in Seq([kind: TxKinds, after: Accounts])
  /\ \A n \in 1 .. Len(h) :
       LET a == IF n = 1 THEN NoAccount ELSE h[n - 1].after
       IN  Executes(h[n].kind, a) /\ h[n].after = After(h[n].kind, a)

ASSUME HistoriesAssumption ==
  \A h \in Histories : Executed(h) /\ Len(h) \in 1 .. MaxTx

EventName ==
  [register |-> "RouterRegistered", stake |-> "CollateralStaked",
   unstake |-> "CollateralUnstaked", heartbeat |-> "HeartbeatReceived",
   finalize |-> "RouterEpochFinalized", claim |-> "RewardClaimed",
   vest |-> "VestedRewardClaimed", slash |-> "RouterSlashed",
   penalty |-> "PenaltyApplied", reinstate |-> "RouterReinstated",
   decommission |-> "RouterDecommissioned",
   pause |-> "ProtocolPaused", resume |-> "ProtocolResumed"]

\* In emission order: a suspending heartbeat reports the suspension first.
EventsOf(tx) ==
  CASE tx.kind = "failed" -> <<>>
    [] tx.kind = "late"   -> <<"RouterSuspended", "HeartbeatReceived">>
    [] OTHER              -> <<EventName[tx.kind]>>

----------------------------------------------------------------------------
(* The documents. *)

NoDoc == [routers  |-> [status |-> "none", heartbeatCount |-> 0, stakedAmount |-> 0],
          epochs   |-> [finalized |-> FALSE, claimed |-> FALSE, slashed |-> FALSE,
                        vested |-> FALSE],
          protocol |-> [isPaused |-> FALSE]]

\* applyEventToProjections: every case upserts, so none needs the document.
\* PenaltyApplied sets the score alone, whatever the penalty did to the status.
Projected(d, event, after) ==
  CASE event = "RouterRegistered" ->
         [d EXCEPT !.routers = [status |-> "inactive", heartbeatCount |-> 0,
                                stakedAmount |-> 0]]
    [] event = "HeartbeatReceived" ->
         [d EXCEPT !.routers.status = "active", !.routers.heartbeatCount = @ + 1]
    [] event = "RouterSuspended"      -> [d EXCEPT !.routers.status = "suspended"]
    [] event = "RouterReinstated"     -> [d EXCEPT !.routers.status = "active"]
    [] event = "RouterDecommissioned" -> [d EXCEPT !.routers.status = "decommissioned"]
    [] event \in {"CollateralStaked", "CollateralUnstaked"} ->
         [d EXCEPT !.routers.stakedAmount = after.stakedAmount]
    [] event = "RouterSlashed" ->
         [d EXCEPT !.routers.stakedAmount = after.stakedAmount, !.epochs.slashed = TRUE]
    [] event = "RouterEpochFinalized" -> [d EXCEPT !.epochs.finalized = TRUE]
    [] event = "RewardClaimed"        -> [d EXCEPT !.epochs.claimed = TRUE]
    [] event = "VestedRewardClaimed"  -> [d EXCEPT !.epochs.vested = TRUE]
    [] event \in {"ProtocolPaused", "ProtocolResumed"} ->
         [d EXCEPT !.protocol.isPaused = after.isPaused]
    [] OTHER -> d

\* reconcileOnce overwrites the collections in this order.
Collections == <<"protocol", "routers", "epochs">>

\* The counter is left to the events that increment it (mutation).
OverwrittenExceptCounter(d, collection, a) ==
  CASE collection = "protocol" -> [d EXCEPT !.protocol.isPaused = a.isPaused]
    [] collection = "routers" /\ a.status # "none" ->
         [d EXCEPT !.routers.status = a.status, !.routers.stakedAmount = a.stakedAmount]
    [] collection = "epochs" /\ a.heartbeatCount > 0 ->
         [d EXCEPT !.epochs.finalized = a.finalized, !.epochs.claimed = a.claimed,
                   !.epochs.slashed = a.slashed]
    [] OTHER -> d

\* Accounts that do not exist are not among those fetched.
Overwritten(d, collection, a) ==
  CASE collection = "protocol" -> [d EXCEPT !.protocol.isPaused = a.isPaused]
    [] collection = "routers" /\ a.status # "none" ->
         [d EXCEPT !.routers = [status |-> a.status, stakedAmount |-> a.stakedAmount,
                                heartbeatCount |-> a.heartbeatCount]]
    [] collection = "epochs" /\ a.heartbeatCount > 0 ->
         [d EXCEPT !.epochs.finalized = a.finalized, !.epochs.claimed = a.claimed,
                   !.epochs.slashed = a.slashed]
    [] OTHER -> d

----------------------------------------------------------------------------
NoCall   == [pc |-> "idle", next |-> 0]
NoCalls  == [s \in Sigs |-> NoCall]
Stopped  == [phase |-> "down", listed |-> 0, cursor |-> 0]
NoPass   == [at |-> 0, seen |-> 0]
NoPasses == [n \in Passes |-> NoPass]

Init ==
  /\ chain \in Histories
  /\ served = 1 .. Len(chain)
  /\ proc = [p \in Procs |-> Stopped]
  /\ call = [p \in Procs |-> NoCalls]
  /\ claimed = {} /\ stored = {}
  /\ doc = NoDoc
  /\ pass = NoPasses
  /\ faults = 0

Backfilling(p) == proc[p].phase = "backfill"
Live == proc["service"].phase = "live"

\* A transaction confirms.  A live service is notified of one that succeeded,
\* unless the websocket drops the notification.
Confirm(kind) ==
  LET n == Len(chain)
  IN  /\ n < MaxTx
      /\ Executes(kind, Account(n))
      /\ chain' = Append(chain, [kind |-> kind, after |-> After(kind, Account(n))])
      /\ \/ /\ Live /\ kind # "failed"
            /\ call' = [call EXCEPT !["service"][n + 1].pc = "fetch"]
         \/ UNCHANGED call
      /\ UNCHANGED <<served, proc, mongo, pass, faults>>

\* The RPC node can serve a transaction some time after it notified of it.
Serve(s) ==
  /\ s <= Len(chain) /\ s \notin served
  /\ served' = served \cup {s}
  /\ UNCHANGED <<chain, proc, call, mongo, pass, faults>>

----------------------------------------------------------------------------
(* Backfill. *)

\* The newest-first pages are listed before anything is indexed, so what
\* confirms meanwhile is not in the list.
Start(p) ==
  /\ proc[p].phase \in {"down", "done"}
  /\ proc' = [proc EXCEPT ![p] =
       [phase |-> "backfill", listed |-> Len(chain), cursor |-> 1]]
  /\ UNCHANGED <<chain, served, call, mongo, pass, faults>>

\* The list is not reversed (mutation).
ListedNewestFirst(p) == proc[p].listed + 1 - proc[p].cursor

\* The reversed list: oldest first.
Listed(p) == proc[p].cursor

\* The last signature of the list is left out (mutation).
AllButOneIndexed(p) == proc[p].cursor >= proc[p].listed

AllIndexed(p) == proc[p].cursor > proc[p].listed

BackfillNext(p) ==
  /\ Backfilling(p) /\ ~AllIndexed(p)
  /\ call[p][Listed(p)] = NoCall
  /\ call' = [call EXCEPT ![p][Listed(p)].pc = "fetch"]
  /\ UNCHANGED <<chain, served, proc, mongo, pass, faults>>

\* The service subscribes and starts reconciling; the job exits.
FinishBackfill(p) ==
  /\ Backfilling(p) /\ AllIndexed(p)
  /\ \A s \in Sigs : call[p][s] = NoCall
  /\ proc' = [proc EXCEPT ![p] =
       [Stopped EXCEPT !.phase = IF p = "service" THEN "live" ELSE "done"]]
  /\ UNCHANGED <<chain, served, call, mongo, pass, faults>>

----------------------------------------------------------------------------
(* processSignature. *)

\* Backfill awaits each call and goes on to the next signature.
Return(p, s) ==
  /\ call' = [call EXCEPT ![p][s] = NoCall]
  /\ proc' = IF Backfilling(p) THEN [proc EXCEPT ![p].cursor = @ + 1] ELSE proc

\* A null response claims the signature, as in the code's first version (mutation).
FetchNullClaims(p, s) ==
  /\ call[p][s].pc = "fetch" /\ s \notin served
  /\ claimed' = claimed \cup {s}
  /\ Return(p, s)
  /\ UNCHANGED <<chain, served, stored, doc, pass, faults>>

FetchNull(p, s) ==
  /\ call[p][s].pc = "fetch" /\ s \notin served
  /\ Return(p, s)
  /\ UNCHANGED <<chain, served, mongo, pass, faults>>

FetchFound(p, s) ==
  /\ call[p][s].pc = "fetch" /\ s \in served
  /\ call' = [call EXCEPT ![p][s].pc = "claim"]
  /\ UNCHANGED <<chain, served, proc, mongo, pass, faults>>

\* The insert is an upsert and never reports a duplicate (mutation).
ClaimedAnyway(s) == TRUE

\* The unique _id lets one insert of a signature succeed.
FirstClaim(s) == s \notin claimed

Claim(p, s) ==
  /\ call[p][s].pc = "claim"
  /\ claimed' = claimed \cup {s}
  /\ IF FirstClaim(s) /\ EventsOf(chain[s]) # <<>>
     THEN call' = [call EXCEPT ![p][s].pc = "write"] /\ UNCHANGED proc
     ELSE Return(p, s)
  /\ UNCHANGED <<chain, served, stored, doc, pass, faults>>

WriteEvents(p, s) ==
  /\ call[p][s].pc = "write"
  /\ stored' = stored \cup {s}
  /\ call' = [call EXCEPT ![p][s] = [pc |-> "project", next |-> 1]]
  /\ UNCHANGED <<chain, served, proc, claimed, doc, pass, faults>>

\* On to the next event of the transaction, or back to the caller.
NextEvent(p, s) ==
  IF call[p][s].next < Len(EventsOf(chain[s]))
  THEN call' = [call EXCEPT ![p][s].next = @ + 1] /\ UNCHANGED proc
  ELSE Return(p, s)

ProjectEvent(p, s) ==
  /\ call[p][s].pc = "project"
  /\ doc' = Projected(doc, EventsOf(chain[s])[call[p][s].next], chain[s].after)
  /\ NextEvent(p, s)
  /\ UNCHANGED <<chain, served, claimed, stored, pass, faults>>

----------------------------------------------------------------------------
(* Faults. *)

Fault == faults < MaxFaults /\ faults' = faults + 1

\* The process is gone, with its calls and, for the service, its passes.
Exit(p) ==
  /\ proc' = [proc EXCEPT ![p] = Stopped]
  /\ call' = [call EXCEPT ![p] = NoCalls]
  /\ pass' = IF p = "service" THEN NoPasses ELSE pass

\* A crash, or the shutdown handler, which waits for no call in flight.
Crash(p) ==
  /\ Fault
  /\ proc[p].phase \notin {"down", "done"}
  /\ Exit(p)
  /\ UNCHANGED <<chain, served, mongo>>

\* Retries are exhausted or a write fails: fatal in backfill, logged when live.
CallThrows(p, s) ==
  /\ Fault
  /\ call[p][s].pc \in {"fetch", "claim", "write"}
  /\ IF Backfilling(p) THEN Exit(p)
     ELSE call' = [call EXCEPT ![p][s] = NoCall] /\ UNCHANGED <<proc, pass>>
  /\ UNCHANGED <<chain, served, mongo>>

\* A projection that fails is logged and skipped.
ProjectionFails(p, s) ==
  /\ Fault
  /\ call[p][s].pc = "project"
  /\ NextEvent(p, s)
  /\ UNCHANGED <<chain, served, mongo, pass>>

PassFails(n) ==
  /\ Fault
  /\ pass[n].at > 0
  /\ pass' = [pass EXCEPT ![n] = NoPass]
  /\ UNCHANGED <<chain, served, proc, call, mongo>>

----------------------------------------------------------------------------
(* Reconciliation. *)

\* setInterval starts a pass whether or not the one before has ended.
StartPass(n) ==
  /\ Live /\ pass[n] = NoPass
  /\ pass' = [pass EXCEPT ![n].at = 1]
  /\ UNCHANGED <<chain, served, proc, call, mongo, faults>>

ReadAccounts(n) ==
  /\ pass[n].at > 0 /\ pass[n].seen = 0
  /\ pass' = [pass EXCEPT ![n].seen = Len(chain)]
  /\ UNCHANGED <<chain, served, proc, call, mongo, faults>>

\* What was read before the await is written after it.
WriteDocument(n) ==
  /\ pass[n].seen > 0
  /\ doc' = Overwritten(doc, Collections[pass[n].at], Account(pass[n].seen))
  /\ pass' = [pass EXCEPT ![n] =
       IF pass[n].at < Len(Collections) THEN [at |-> pass[n].at + 1, seen |-> 0]
                                        ELSE NoPass]
  /\ UNCHANGED <<chain, served, proc, call, claimed, stored, faults>>

----------------------------------------------------------------------------
CallStep(p, s) ==
  FetchNull(p, s) \/ FetchFound(p, s) \/ Claim(p, s) \/ WriteEvents(p, s)
    \/ ProjectEvent(p, s)
PassStep(n) == ReadAccounts(n) \/ WriteDocument(n)

Next ==
  \/ \E kind \in Kinds : Confirm(kind)
  \/ \E s \in Sigs : Serve(s)
  \/ \E p \in Procs : Start(p) \/ BackfillNext(p) \/ FinishBackfill(p) \/ Crash(p)
  \/ \E p \in Procs, s \in Sigs : CallStep(p, s) \/ CallThrows(p, s) \/ ProjectionFails(p, s)
  \/ \E n \in Passes : StartPass(n) \/ PassStep(n) \/ PassFails(n)

\* A supervisor restarts the service, awaited calls come back and the timer
\* fires.  Nothing makes anyone run the job.
Fairness ==
  /\ WF_vars(Start("service"))
  /\ \A p \in Procs : WF_vars(BackfillNext(p)) /\ WF_vars(FinishBackfill(p))
  /\ \A p \in Procs, s \in Sigs : WF_vars(CallStep(p, s))
  /\ \A n \in Passes : WF_vars(StartPass(n)) /\ WF_vars(PassStep(n))

Spec == Init /\ [][Next]_vars
FairSpec == Spec /\ Fairness

----------------------------------------------------------------------------
(* Safety. *)

Applying(p, s) == call[p][s].pc \in {"write", "project"}

\* live.ts:11: however many processes and calls meet on one signature, a single
\* one ever applies its events.
AppliedByOne ==
  \A s \in Sigs :
    /\ \A p, q \in Procs : Applying(p, s) /\ Applying(q, s) => p = q
    /\ s \in stored => \A p \in Procs : call[p][s].pc # "write"

\* ingest.ts:42-49: a signature the RPC has not served is never claimed, so a
\* later backfill can still index it.
ClaimedWereServed == claimed \subseteq served

Rebuilt(d, a) ==
  /\ d.routers.heartbeatCount = a.heartbeatCount
  /\ d.routers.stakedAmount = a.stakedAmount
  /\ d.epochs.finalized = a.finalized /\ d.epochs.claimed = a.claimed
  /\ d.epochs.slashed = a.slashed /\ d.epochs.vested = a.vested
  /\ d.protocol.isPaused = a.isPaused

\* A first backfill without faults or a job beside it rebuilds what the chain
\* holds, transaction by transaction: it applies them in causal order.  (The
\* status is excepted: see EventsOf and the status of RouterRegistered.)
BackfillRebuilds ==
  LET a == Account(proc["service"].cursor - 1)
  IN  /\ faults = 0 /\ Backfilling("service")
      /\ \A p \in Procs \ {"service"} : proc[p].phase = "down"
      /\ call["service"] = NoCalls
      /\ 1 .. (proc["service"].cursor - 1) \subseteq claimed
      => Rebuilt(doc, a)

----------------------------------------------------------------------------
(* The abstract specification. *)

\* The call that claimed a signature and still applies its events, if any.
Appliers(s) == {p \in Procs : Applying(p, s)}
Position(s) ==
  IF s \notin claimed THEN 0
  ELSE IF Appliers(s) = {} THEN Len(EventsOf(chain[s])) + 1
  ELSE LET c == call[CHOOSE p \in Appliers(s) : TRUE][s]
       IN  IF c.pc = "write" THEN 1 ELSE c.next

Delivery == INSTANCE EventDelivery WITH position <- [s \in Sigs |-> Position(s)]

\* However the service, the job, the notifications and the crashes interleave, a
\* transaction's events reach the documents in order, each at most once, and what
\* was abandoned half-way is never resumed (ingest.ts:42-113): the documents change
\* otherwise only by accounts read from the chain.
ImplementsDelivery == Delivery!Spec

----------------------------------------------------------------------------
(* Progress. *)

\* A backfill claims every signature of its list that the RPC serves by the time
\* it gets there, unless the process dies.
BackfillCatchesUp ==
  \A p \in Procs, s \in Sigs :
    (/\ Backfilling(p) /\ s \in served
     /\ s \in proc[p].cursor .. proc[p].listed)
      ~> s \in claimed \/ proc[p].phase = "down"

\* The reconciled part of a document agrees with the accounts.
InSync ==
  LET a == Account(Len(chain))
  IN  /\ doc.protocol.isPaused = a.isPaused
      /\ doc.routers = [status |-> a.status, stakedAmount |-> a.stakedAmount,
                        heartbeatCount |-> a.heartbeatCount]
      /\ doc.epochs.finalized = a.finalized
      /\ doc.epochs.claimed = a.claimed /\ doc.epochs.slashed = a.slashed

\* Whatever was lost, reordered or counted twice, once the chain is quiet the
\* documents reach the accounts' state and stay there, overlapping passes with
\* older snapshots included.
ProjectionConverges == <>[]InSync

----------------------------------------------------------------------------
(* What the documentation says and the indexer does not do. *)

\* indexer/README.md:47-48: $inc-based fields never double-count.
NeverOvercounts == doc.routers.heartbeatCount <= Account(Len(chain)).heartbeatCount

\* indexer/README.md:38: a partial failure cannot strand a signature.
NoSignatureStranded ==
  \A s \in claimed :
    EventsOf(chain[s]) # <<>> /\ (\A p \in Procs : ~Applying(p, s)) => s \in stored
=============================================================================
