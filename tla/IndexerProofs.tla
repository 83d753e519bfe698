---------------------------- MODULE IndexerProofs ----------------------------
(***************************************************************************)
(* However many processes, calls, crashes and failed writes: one call at   *)
(* most applies a signature, and only after the RPC served it.             *)
(***************************************************************************)
EXTENDS Indexer, SequenceTheorems, TLAPS

CallType == [pc: {"idle", "fetch", "claim", "write", "project"}, next: Nat]

\* A call past its fetch was served, a call past its claim claimed; of two calls
\* on one signature only one can have claimed it, and it has not written yet while
\* it is about to.
IngestInv ==
  /\ call \in [Procs -> [Sigs -> CallType]]
  /\ claimed \subseteq served /\ stored \subseteq claimed
  /\ \A p \in Procs, s \in Sigs :
       /\ call[p][s].pc \in {"claim", "write", "project"} => s \in served
       /\ Applying(p, s) => s \in claimed
  /\ AppliedByOne

\* What a step may do to the calls without the collections noticing: forget one,
\* or let it wait for its fetch.
Harmless ==
  \A p \in Procs, s \in Sigs :
    \/ call'[p][s] = call[p][s]
    \/ call'[p][s] \in CallType /\ call'[p][s].pc \in {"idle", "fetch"}

\* Steps that leave MongoDB's gate alone and only forget or start calls keep the
\* invariant (the timer, the chain, backfill's loop, crashes).
LEMMA HarmlessStep ==
  ASSUME IngestInv, Harmless,
         call' \in [Procs -> [Sigs -> CallType]],
         served \subseteq served', UNCHANGED <<claimed, stored>>
  PROVE  IngestInv'
PROOF
  <1>1. \A p \in Procs, s \in Sigs : Applying(p, s)' => Applying(p, s)
    BY DEF Harmless, Applying
  <1>2. \A p \in Procs, s \in Sigs : call'[p][s].pc = "write" => call[p][s].pc = "write"
    BY DEF Harmless
  <1>3. \A p \in Procs, s \in Sigs :
          call'[p][s].pc \in {"claim", "write", "project"} =>
            call[p][s].pc \in {"claim", "write", "project"}
    BY DEF Harmless
  <1>4. AppliedByOne'
    BY <1>1, <1>2 DEF AppliedByOne, IngestInv
  <1> QED
    BY <1>1, <1>3, <1>4 DEF IngestInv

\* Ending a call, whether by an answer or an error, forgets it and no other.
LEMMA ReturnForgets ==
  ASSUME IngestInv, NEW p \in Procs, NEW s \in Sigs,
         call' = [call EXCEPT ![p][s] = NoCall]
  PROVE  /\ Harmless
         /\ call' \in [Procs -> [Sigs -> CallType]]
PROOF
  <1>1. NoCall \in CallType /\ NoCall.pc = "idle"
    BY DEF NoCall, CallType
  <1> QED
    BY <1>1 DEF IngestInv, Harmless

\* A process that goes takes its calls along.
LEMMA ExitForgets ==
  ASSUME IngestInv, NEW p \in Procs, Exit(p)
  PROVE  /\ Harmless
         /\ call' \in [Procs -> [Sigs -> CallType]]
PROOF
  <1>1. NoCall \in CallType /\ NoCall.pc = "idle"
    BY DEF NoCall, CallType
  <1>2. NoCalls \in [Sigs -> CallType] /\ \A s \in Sigs : NoCalls[s] = NoCall
    BY <1>1 DEF NoCalls
  <1> QED
    BY <1>1, <1>2 DEF Exit, IngestInv, Harmless

\* Entering "fetch" is harmless too.
LEMMA FetchStarts ==
  ASSUME IngestInv, NEW p \in Procs, NEW s,
         call' = [call EXCEPT ![p][s].pc = "fetch"]
  PROVE  /\ Harmless
         /\ call' \in [Procs -> [Sigs -> CallType]]
PROOF
  <1>1. \A t \in Sigs : call[p][t] \in CallType
    BY DEF IngestInv
  <1>2. \A t \in Sigs : [call[p][t] EXCEPT !.pc = "fetch"] \in CallType
                        /\ [call[p][t] EXCEPT !.pc = "fetch"].pc = "fetch"
    BY <1>1 DEF CallType
  <1>3. \A q \in Procs, t \in Sigs :
          call'[q][t] = IF q = p /\ t = s THEN [call[p][t] EXCEPT !.pc = "fetch"]
                                          ELSE call[q][t]
    BY DEF IngestInv
  <1>4. call' \in [Procs -> [Sigs -> CallType]]
    BY <1>2 DEF IngestInv
  <1> QED
    BY <1>2, <1>3, <1>4 DEF Harmless

\* The gate: only the first claim of a signature lets its call go on to write.
LEMMA ClaimStep ==
  ASSUME IngestInv, NEW p \in Procs, NEW s \in Sigs, Claim(p, s)
  PROVE  IngestInv'
PROOF
  <1>1. s \in served /\ served' = served /\ stored' = stored
        /\ claimed' = claimed \cup {s}
    BY DEF Claim, IngestInv
  <1>2. CASE call' = [call EXCEPT ![p][s] = NoCall]
    <2>1. Harmless /\ call' \in [Procs -> [Sigs -> CallType]]
      BY <1>2, ReturnForgets
    <2>2. \A q \in Procs, t \in Sigs :
            /\ Applying(q, t)' => Applying(q, t)
            /\ call'[q][t].pc = "write" => call[q][t].pc = "write"
            /\ call'[q][t].pc \in {"claim", "write", "project"} =>
                 call[q][t].pc \in {"claim", "write", "project"}
      BY <2>1 DEF Harmless, Applying
    <2>3. AppliedByOne'
      BY <1>1, <2>2 DEF AppliedByOne, IngestInv
    <2> QED
      BY <1>1, <2>1, <2>2, <2>3 DEF IngestInv
  <1>3. CASE FirstClaim(s) /\ call' = [call EXCEPT ![p][s].pc = "write"]
    <2>1. s \notin claimed /\ s \notin stored /\ \A q \in Procs : ~Applying(q, s)
      BY <1>3 DEF FirstClaim, IngestInv
    <2>2. [call[p][s] EXCEPT !.pc = "write"] \in CallType
          /\ [call[p][s] EXCEPT !.pc = "write"].pc = "write"
      BY DEF IngestInv, CallType
    <2>3. call' \in [Procs -> [Sigs -> CallType]]
      BY <1>3, <2>2 DEF IngestInv
    <2>4. \A q \in Procs, t \in Sigs :
            call'[q][t].pc = IF q = p /\ t = s THEN "write" ELSE call[q][t].pc
      BY <1>3, <2>2 DEF IngestInv
    <2>5. \A q \in Procs, t \in Sigs :
            Applying(q, t)' <=> (q = p /\ t = s) \/ Applying(q, t)
      BY <2>4 DEF Applying
    <2>6. AppliedByOne'
      BY <1>1, <2>1, <2>4, <2>5 DEF AppliedByOne, IngestInv
    <2> QED
      BY <1>1, <2>3, <2>4, <2>5, <2>6 DEF IngestInv
  <1> QED
    BY <1>2, <1>3 DEF Claim, Return

\* The one call that claimed a signature writes its events and projects them.
LEMMA ApplyStep ==
  ASSUME IngestInv, NEW p \in Procs, NEW s \in Sigs,
         Applying(p, s), UNCHANGED <<served, claimed>>,
         \/ stored' = stored \cup {s} /\ call' = [call EXCEPT ![p][s] =
              [pc |-> "project", next |-> 1]]
         \/ stored' = stored /\ call[p][s].pc = "project"
            /\ call' = [call EXCEPT ![p][s].next = @ + 1]
  PROVE  IngestInv'
PROOF
  <1>1. s \in claimed /\ s \in served
    BY DEF IngestInv, Applying
  <1>2. PICK c \in CallType : c.pc = "project" /\ call' = [call EXCEPT ![p][s] = c]
    <2>1. [pc |-> "project", next |-> 1] \in CallType
      BY DEF CallType
    <2>2. [call[p][s] EXCEPT !.next = @ + 1] \in CallType
          /\ (call[p][s].pc = "project" =>
                [call[p][s] EXCEPT !.next = @ + 1].pc = "project")
      BY DEF IngestInv, CallType
    <2> QED
      BY <2>1, <2>2 DEF IngestInv
  <1>3. call' \in [Procs -> [Sigs -> CallType]]
    BY <1>2 DEF IngestInv
  <1>4. \A q \in Procs, t \in Sigs :
          call'[q][t].pc = IF q = p /\ t = s THEN "project" ELSE call[q][t].pc
    BY <1>2 DEF IngestInv
  <1>5. \A q \in Procs, t \in Sigs : Applying(q, t)' <=> Applying(q, t)
    BY <1>4 DEF Applying
  <1>6. \A q \in Procs : call'[q][s].pc # "write"
    BY <1>4 DEF AppliedByOne, IngestInv, Applying
  <1>7. stored' \subseteq stored \cup {s} /\ claimed' = claimed /\ served' = served
    OBVIOUS
  <1>8. AppliedByOne'
    BY <1>4, <1>5, <1>6, <1>7 DEF AppliedByOne, IngestInv
  <1> QED
    BY <1>1, <1>3, <1>4, <1>5, <1>7, <1>8 DEF IngestInv

\* The gate holds for every step of every process.
LEMMA IngestNext ==
  ASSUME IngestInv, Next
  PROVE  IngestInv'
PROOF
  <1>1. ASSUME NEW kind \in Kinds, Confirm(kind) PROVE IngestInv'
    <2>1. CASE UNCHANGED call
      BY <1>1, <2>1, HarmlessStep DEF Confirm, Harmless, IngestInv, mongo
    <2>2. CASE "service" \in Procs /\
               call' = [call EXCEPT !["service"][Len(chain) + 1].pc = "fetch"]
      BY <1>1, <2>2, FetchStarts, HarmlessStep DEF Confirm, mongo
    <2>3. CASE "service" \notin Procs /\
               call' = [call EXCEPT !["service"][Len(chain) + 1].pc = "fetch"]
      BY <1>1, <2>3, HarmlessStep DEF Confirm, Harmless, IngestInv, mongo
    <2> QED
      BY <1>1, <2>1, <2>2, <2>3 DEF Confirm
  <1>2. ASSUME NEW s \in Sigs, Serve(s) PROVE IngestInv'
    BY <1>2, HarmlessStep DEF Serve, Harmless, IngestInv, mongo
  <1>3. ASSUME NEW p \in Procs,
               Start(p) \/ FinishBackfill(p)
        PROVE  IngestInv'
    BY <1>3, HarmlessStep DEF Start, FinishBackfill, Harmless, IngestInv, mongo
  <1>4. ASSUME NEW p \in Procs, BackfillNext(p) PROVE IngestInv'
    BY <1>4, FetchStarts, HarmlessStep DEF BackfillNext, mongo
  <1>5. ASSUME NEW p \in Procs, Crash(p) PROVE IngestInv'
    BY <1>5, ExitForgets, HarmlessStep DEF Crash, mongo
  <1>6. ASSUME NEW p \in Procs, NEW s \in Sigs, FetchNull(p, s) PROVE IngestInv'
    BY <1>6, ReturnForgets, HarmlessStep DEF FetchNull, Return, mongo
  <1>7. ASSUME NEW p \in Procs, NEW s \in Sigs, FetchFound(p, s) PROVE IngestInv'
    <2>1. [call[p][s] EXCEPT !.pc = "claim"] \in CallType
          /\ [call[p][s] EXCEPT !.pc = "claim"].pc = "claim"
      BY DEF IngestInv, CallType
    <2>2. call' \in [Procs -> [Sigs -> CallType]]
      BY <1>7, <2>1 DEF FetchFound, IngestInv
    <2>3. \A q \in Procs, t \in Sigs :
            call'[q][t].pc = IF q = p /\ t = s THEN "claim" ELSE call[q][t].pc
      BY <1>7, <2>1 DEF FetchFound, IngestInv
    <2>4. \A q \in Procs, t \in Sigs : Applying(q, t)' => Applying(q, t)
      BY <2>3 DEF Applying
    <2>5. s \in served /\ UNCHANGED <<served, claimed, stored>>
      BY <1>7 DEF FetchFound, mongo
    <2>6. AppliedByOne'
      BY <2>3, <2>4, <2>5 DEF AppliedByOne, IngestInv
    <2> QED
      BY <2>2, <2>3, <2>4, <2>5, <2>6 DEF IngestInv
  <1>8. ASSUME NEW p \in Procs, NEW s \in Sigs, Claim(p, s) PROVE IngestInv'
    BY <1>8, ClaimStep
  <1>9. ASSUME NEW p \in Procs, NEW s \in Sigs, WriteEvents(p, s) PROVE IngestInv'
    BY <1>9, ApplyStep DEF WriteEvents, Applying
  <1>10. ASSUME NEW p \in Procs, NEW s \in Sigs,
                ProjectEvent(p, s) \/ ProjectionFails(p, s)
         PROVE  IngestInv'
    <2>1. call[p][s].pc = "project" /\ NextEvent(p, s) /\ UNCHANGED <<served, claimed, stored>>
      BY <1>10 DEF ProjectEvent, ProjectionFails, mongo
    <2>2. CASE call' = [call EXCEPT ![p][s] = NoCall]
      BY <2>1, <2>2, ReturnForgets, HarmlessStep
    <2>3. CASE call' = [call EXCEPT ![p][s].next = @ + 1]
      BY <2>1, <2>3, ApplyStep DEF Applying
    <2> QED
      BY <2>1, <2>2, <2>3 DEF NextEvent, Return
  <1>11. ASSUME NEW p \in Procs, NEW s \in Sigs, CallThrows(p, s) PROVE IngestInv'
    <2>1. UNCHANGED <<served, claimed, stored>>
      BY <1>11 DEF CallThrows, mongo
    <2>2. CASE Exit(p)
      BY <2>1, <2>2, ExitForgets, HarmlessStep
    <2>3. CASE call' = [call EXCEPT ![p][s] = NoCall]
      BY <2>1, <2>3, ReturnForgets, HarmlessStep
    <2> QED
      BY <1>11, <2>2, <2>3 DEF CallThrows
  <1>12. ASSUME NEW n \in Passes, StartPass(n) \/ PassStep(n) \/ PassFails(n)
         PROVE  IngestInv'
    BY <1>12, HarmlessStep
       DEF StartPass, PassStep, ReadAccounts, WriteDocument, PassFails, Harmless,
           IngestInv, mongo
  <1> QED
    BY <1>1, <1>2, <1>3, <1>4, <1>5, <1>6, <1>7, <1>8, <1>9, <1>10, <1>11, <1>12
       DEF Next, CallStep

\* Ingestion keeps its gate in every reachable state, for any number of
\* signatures, faults and overlapping passes.
THEOREM IngestCorrect == Spec => []IngestInv
PROOF
  <1>1. Init => IngestInv
    BY DEF Init, IngestInv, NoCalls, NoCall, CallType, AppliedByOne, Applying
  <1>2. IngestInv /\ [Next]_vars => IngestInv'
    <2>1. IngestInv /\ UNCHANGED vars => IngestInv'
      BY DEF IngestInv, vars, mongo, AppliedByOne, Applying
    <2> QED
      BY <2>1, IngestNext
  <1> QED
    BY <1>1, <1>2, PTL DEF Spec

\* live.ts:11: a signature seen by backfill, by the live subscription and by a
\* second process is applied by one of them.
THEOREM AppliedOnceSafe == Spec => []AppliedByOne
PROOF
  <1>1. IngestInv => AppliedByOne
    BY DEF IngestInv
  <1> QED
    BY <1>1, IngestCorrect, PTL

\* ingest.ts:42-49: nothing the RPC could not yet serve is marked as processed.
THEOREM ServedSafe == Spec => []ClaimedWereServed
PROOF
  <1>1. IngestInv => ClaimedWereServed
    BY DEF IngestInv, ClaimedWereServed
  <1> QED
    BY <1>1, IngestCorrect, PTL

----------------------------------------------------------------------------
(* The first backfill. *)

Phases == {"down", "backfill", "live", "done"}

\* The chain is what the program executed, and only that is served.
ChainInv ==
  /\ Executed(chain) /\ Len(chain) \in 1 .. MaxTx
  /\ served \subseteq 1 .. Len(chain)

\* A process that is not running has no call in flight, one that backfills has one
\* at most, for the signature at its cursor; only a live service reconciles.
ProcInv ==
  /\ proc \in [Procs -> [phase: Phases, listed: Nat, cursor: Nat]]
  /\ faults \in Nat
  /\ proc["service"].phase # "done"
  /\ \A p \in Procs :
       /\ proc[p].phase \in {"down", "done"} => call[p] = NoCalls
       /\ Backfilling(p) =>
            /\ proc[p].cursor \in 1 .. proc[p].listed + 1 /\ proc[p].listed <= Len(chain)
            /\ \A s \in Sigs : call[p][s] # NoCall =>
                                 s = proc[p].cursor /\ s <= proc[p].listed
  /\ \A n \in Passes : pass[n].at > 0 \/ pass[n].seen > 0 => Live

DocType ==
  [routers: [status: {"none", "inactive", "active", "suspended", "decommissioned"},
             heartbeatCount: Nat, stakedAmount: Nat],
   epochs: [finalized: BOOLEAN, claimed: BOOLEAN, slashed: BOOLEAN, vested: BOOLEAN],
   protocol: [isPaused: BOOLEAN]]

\* The call at the cursor has claimed its signature once it applies it, and is
\* at one of its events.
CursorInv ==
  LET c == proc["service"].cursor
  IN  /\ claimed \subseteq 1 .. c
      /\ c \in claimed => c \in Sigs /\ Applying("service", c)
      /\ c \in Sigs /\ Applying("service", c) =>
           /\ EventsOf(chain[c]) # <<>>
           /\ call["service"][c].pc = "project" =>
                call["service"][c].next \in 1 .. Len(EventsOf(chain[c]))

\* Nobody but the service has run and nothing has failed yet.
FirstRun ==
  faults = 0 /\ \A p \in Procs \ {"service"} : proc[p].phase = "down"

\* In the first run the documents are empty until the backfill, and then what the
\* transactions below the cursor make of them, unless one of those was not served.
FirstRunInv ==
  FirstRun =>
    /\ proc["service"].phase = "down" => claimed = {} /\ doc = NoDoc
    /\ Backfilling("service") =>
         /\ doc \in DocType /\ CursorInv
         /\ 1 .. (proc["service"].cursor - 1) \subseteq claimed =>
              Rebuilt(doc, Account(proc["service"].cursor - 1))

RebuildInv == IngestInv /\ ChainInv /\ ProcInv /\ FirstRunInv

----------------------------------------------------------------------------
(* What the events of a transaction make of the documents. *)

\* A router with collateral exists; two of the kinds change two fields of it.
LEMMA TwoFields ==
  ASSUME NEW a \in Accounts, a.stakedAmount > 0
  PROVE  /\ [a EXCEPT !.slashed = TRUE, !.stakedAmount = @ - 1] \in Accounts
         /\ [a EXCEPT !.heartbeatCount = @ + 1, !.status = "suspended"] \in Accounts
PROOF
  <1>1. PICK c \in Accounts : c = [a EXCEPT !.slashed = TRUE]
    BY DEF Accounts
  <1>2. c.stakedAmount > 0 /\ c.stakedAmount = a.stakedAmount
    BY <1>1 DEF Accounts
  <1>3. [c EXCEPT !.stakedAmount = @ - 1] \in Accounts
    BY <1>2 DEF Accounts
  <1>4. PICK b \in Accounts : b = [a EXCEPT !.status = "suspended"]
    BY DEF Accounts
  <1>5. b.status = "suspended" /\ b.heartbeatCount = a.heartbeatCount
    BY <1>4 DEF Accounts
  <1>6. [b EXCEPT !.heartbeatCount = @ + 1] \in Accounts
    BY <1>5 DEF Accounts
  <1>7. [a EXCEPT !.heartbeatCount = @ + 1, !.status = "suspended"] =
          [b EXCEPT !.heartbeatCount = @ + 1]
    BY <1>4, <1>5 DEF Accounts
  <1> QED
    BY <1>1, <1>3, <1>7, <1>6

LEMMA AfterAccount ==
  ASSUME NEW a \in Accounts, NEW kind, Executes(kind, a)
  PROVE  After(kind, a) \in Accounts /\ kind \in TxKinds
PROOF
  <1>0. kind \in TxKinds
    BY DEF Executes, TxKinds
  <1>1. CASE kind = "register"
    <2>1. After(kind, a) = [a EXCEPT !.status = "active"]
      BY <1>1 DEF After
    <2>3. [a EXCEPT !.status = "active"] \in Accounts
      BY <1>1 DEF Executes, Accounts
    <2> QED
      BY <1>0, <2>1, <2>3
  <1>2. CASE kind = "stake"
    <2>1. After(kind, a) = [a EXCEPT !.stakedAmount = @ + 1]
      BY <1>2 DEF After
    <2>3. [a EXCEPT !.stakedAmount = @ + 1] \in Accounts
      BY <1>2 DEF Executes, Accounts
    <2> QED
      BY <1>0, <2>1, <2>3
  <1>3. CASE kind = "unstake"
    <2>1. After(kind, a) = [a EXCEPT !.stakedAmount = @ - 1]
      BY <1>3 DEF After
    <2>3. [a EXCEPT !.stakedAmount = @ - 1] \in Accounts
      BY <1>3 DEF Executes, Accounts
    <2> QED
      BY <1>0, <2>1, <2>3
  <1>4. CASE kind = "heartbeat"
    <2>1. After(kind, a) = [a EXCEPT !.heartbeatCount = @ + 1]
      BY <1>4 DEF After
    <2>3. [a EXCEPT !.heartbeatCount = @ + 1] \in Accounts
      BY <1>4 DEF Executes, Accounts
    <2> QED
      BY <1>0, <2>1, <2>3
  <1>5. CASE kind = "late"
    <2>1. After(kind, a) = [a EXCEPT !.heartbeatCount = @ + 1, !.status = "suspended"]
      BY <1>5 DEF After
    <2>2. a.stakedAmount > 0
      BY <1>5 DEF Executes
    <2>3. [a EXCEPT !.heartbeatCount = @ + 1, !.status = "suspended"] \in Accounts
      BY <2>2, TwoFields
    <2> QED
      BY <1>0, <2>1, <2>3
  <1>6. CASE kind = "finalize"
    <2>1. After(kind, a) = [a EXCEPT !.finalized = TRUE]
      BY <1>6 DEF After
    <2>3. [a EXCEPT !.finalized = TRUE] \in Accounts
      BY <1>6 DEF Executes, Accounts
    <2> QED
      BY <1>0, <2>1, <2>3
  <1>7. CASE kind = "claim"
    <2>1. After(kind, a) = [a EXCEPT !.claimed = TRUE]
      BY <1>7 DEF After
    <2>3. [a EXCEPT !.claimed = TRUE] \in Accounts
      BY <1>7 DEF Executes, Accounts
    <2> QED
      BY <1>0, <2>1, <2>3
  <1>8. CASE kind = "vest"
    <2>1. After(kind, a) = [a EXCEPT !.vested = TRUE]
      BY <1>8 DEF After
    <2>3. [a EXCEPT !.vested = TRUE] \in Accounts
      BY <1>8 DEF Executes, Accounts
    <2> QED
      BY <1>0, <2>1, <2>3
  <1>9. CASE kind = "slash"
    <2>1. After(kind, a) = [a EXCEPT !.slashed = TRUE, !.stakedAmount = @ - 1]
      BY <1>9 DEF After
    <2>2. a.stakedAmount > 0
      BY <1>9 DEF Executes
    <2>3. [a EXCEPT !.slashed = TRUE, !.stakedAmount = @ - 1] \in Accounts
      BY <2>2, TwoFields
    <2> QED
      BY <1>0, <2>1, <2>3
  <1>10. CASE kind = "penalty"
    <2>1. After(kind, a) = [a EXCEPT !.status = "suspended"]
      BY <1>10 DEF After
    <2>3. [a EXCEPT !.status = "suspended"] \in Accounts
      BY <1>10 DEF Executes, Accounts
    <2> QED
      BY <1>0, <2>1, <2>3
  <1>11. CASE kind = "reinstate"
    <2>1. After(kind, a) = [a EXCEPT !.status = "active"]
      BY <1>11 DEF After
    <2>3. [a EXCEPT !.status = "active"] \in Accounts
      BY <1>11 DEF Executes, Accounts
    <2> QED
      BY <1>0, <2>1, <2>3
  <1>12. CASE kind = "decommission"
    <2>1. After(kind, a) = [a EXCEPT !.status = "decommissioned"]
      BY <1>12 DEF After
    <2>3. [a EXCEPT !.status = "decommissioned"] \in Accounts
      BY <1>12 DEF Executes, Accounts
    <2> QED
      BY <1>0, <2>1, <2>3
  <1>13. CASE kind = "pause"
    <2>1. After(kind, a) = [a EXCEPT !.isPaused = TRUE]
      BY <1>13 DEF After
    <2>3. [a EXCEPT !.isPaused = TRUE] \in Accounts
      BY <1>13 DEF Executes, Accounts
    <2> QED
      BY <1>0, <2>1, <2>3
  <1>14. CASE kind = "resume"
    <2>1. After(kind, a) = [a EXCEPT !.isPaused = FALSE]
      BY <1>14 DEF After
    <2>3. [a EXCEPT !.isPaused = FALSE] \in Accounts
      BY <1>14 DEF Executes, Accounts
    <2> QED
      BY <1>0, <2>1, <2>3
  <1>15. CASE kind = "failed"
    <2>1. After(kind, a) = a
      BY <1>15 DEF After
    <2> QED
      BY <1>0, <2>1
  <1> QED
    BY <1>0, <1>1, <1>2, <1>3, <1>4, <1>5, <1>6, <1>7, <1>8, <1>9, <1>10, <1>11, <1>12, <1>13, <1>14, <1>15 DEF TxKinds

LEMMA ProjectedType ==
  ASSUME NEW d \in DocType, NEW event, NEW b \in Accounts
  PROVE  Projected(d, event, b) \in DocType
PROOF
  <1>1. CASE event = "RouterRegistered"
    <2>1. [d EXCEPT !.routers = [status |-> "inactive", heartbeatCount |-> 0,
                                             stakedAmount |-> 0]] \in DocType
      BY DEF DocType, Accounts
    <2> QED
      BY <1>1, <2>1 DEF Projected
  <1>2. CASE event = "CollateralStaked"
    <2>1. [d EXCEPT !.routers.stakedAmount = b.stakedAmount] \in DocType
      BY DEF DocType, Accounts
    <2> QED
      BY <1>2, <2>1 DEF Projected
  <1>3. CASE event = "CollateralUnstaked"
    <2>1. [d EXCEPT !.routers.stakedAmount = b.stakedAmount] \in DocType
      BY DEF DocType, Accounts
    <2> QED
      BY <1>3, <2>1 DEF Projected
  <1>4. CASE event = "HeartbeatReceived"
    <2>1. \A c \in DocType : [c EXCEPT !.routers.heartbeatCount = @ + 1] \in DocType
      BY DEF DocType
    <2>2. [d EXCEPT !.routers.status = "active"] \in DocType
      BY DEF DocType
    <2>3. [d EXCEPT !.routers.status = "active", !.routers.heartbeatCount = @ + 1] =
            [[d EXCEPT !.routers.status = "active"] EXCEPT !.routers.heartbeatCount = @ + 1]
      BY DEF DocType
    <2> QED
      BY <1>4, <2>1, <2>2, <2>3 DEF Projected
  <1>5. CASE event = "RouterSuspended"
    <2>1. [d EXCEPT !.routers.status = "suspended"] \in DocType
      BY DEF DocType, Accounts
    <2> QED
      BY <1>5, <2>1 DEF Projected
  <1>6. CASE event = "RouterEpochFinalized"
    <2>1. [d EXCEPT !.epochs.finalized = TRUE] \in DocType
      BY DEF DocType, Accounts
    <2> QED
      BY <1>6, <2>1 DEF Projected
  <1>7. CASE event = "RewardClaimed"
    <2>1. [d EXCEPT !.epochs.claimed = TRUE] \in DocType
      BY DEF DocType, Accounts
    <2> QED
      BY <1>7, <2>1 DEF Projected
  <1>8. CASE event = "VestedRewardClaimed"
    <2>1. [d EXCEPT !.epochs.vested = TRUE] \in DocType
      BY DEF DocType, Accounts
    <2> QED
      BY <1>8, <2>1 DEF Projected
  <1>9. CASE event = "RouterSlashed"
    <2>1. [d EXCEPT !.routers.stakedAmount = b.stakedAmount,
                                !.epochs.slashed = TRUE] \in DocType
      BY DEF DocType, Accounts
    <2> QED
      BY <1>9, <2>1 DEF Projected
  <1>10. CASE event = "RouterReinstated"
    <2>1. [d EXCEPT !.routers.status = "active"] \in DocType
      BY DEF DocType, Accounts
    <2> QED
      BY <1>10, <2>1 DEF Projected
  <1>11. CASE event = "RouterDecommissioned"
    <2>1. [d EXCEPT !.routers.status = "decommissioned"] \in DocType
      BY DEF DocType, Accounts
    <2> QED
      BY <1>11, <2>1 DEF Projected
  <1>12. CASE event = "ProtocolPaused"
    <2>1. [d EXCEPT !.protocol.isPaused = b.isPaused] \in DocType
      BY DEF DocType, Accounts
    <2> QED
      BY <1>12, <2>1 DEF Projected
  <1>13. CASE event = "ProtocolResumed"
    <2>1. [d EXCEPT !.protocol.isPaused = b.isPaused] \in DocType
      BY DEF DocType, Accounts
    <2> QED
      BY <1>13, <2>1 DEF Projected
  <1>14. CASE event \notin {"RouterRegistered", "CollateralStaked", "CollateralUnstaked", "HeartbeatReceived", "RouterSuspended", "RouterEpochFinalized", "RewardClaimed", "VestedRewardClaimed", "RouterSlashed", "RouterReinstated", "RouterDecommissioned", "ProtocolPaused", "ProtocolResumed"}
    BY <1>14 DEF Projected
  <1> QED
    BY <1>1, <1>2, <1>3, <1>4, <1>5, <1>6, <1>7, <1>8, <1>9, <1>10, <1>11, <1>12, <1>13, <1>14

\* The last event brings the documents to the accounts after the transaction, the
\* suspension reported before a heartbeat leaves them at those before.
LEMMA ProjectedRebuilds ==
  ASSUME NEW d \in DocType, NEW a \in Accounts, NEW tx,
         Executes(tx.kind, a), tx.after = After(tx.kind, a), Rebuilt(d, a),
         NEW n \in 1 .. Len(EventsOf(tx))
  PROVE  Rebuilt(Projected(d, EventsOf(tx)[n], tx.after),
                 IF n = Len(EventsOf(tx)) THEN tx.after ELSE a)
PROOF
  <1> DEFINE b == tx.after
  <1>1. CASE tx.kind = "register"
    <2>1. EventsOf(tx) = <<"RouterRegistered">>
      BY <1>1 DEF EventsOf, EventName
    <2>2. b = [a EXCEPT !.status = "active"]
      BY <1>1 DEF After
    <2>3. Rebuilt([d EXCEPT !.routers = [status |-> "inactive", heartbeatCount |-> 0,
                                             stakedAmount |-> 0]], b)
      BY <1>1, <2>2 DEF Executes, DocType, Accounts, Rebuilt
    <2> QED
      BY <2>1, <2>3 DEF Projected
  <1>2. CASE tx.kind = "stake"
    <2>1. EventsOf(tx) = <<"CollateralStaked">>
      BY <1>2 DEF EventsOf, EventName
    <2>2. b = [a EXCEPT !.stakedAmount = @ + 1]
      BY <1>2 DEF After
    <2>3. Rebuilt([d EXCEPT !.routers.stakedAmount = b.stakedAmount], b)
      BY <1>2, <2>2 DEF Executes, DocType, Accounts, Rebuilt
    <2> QED
      BY <2>1, <2>3 DEF Projected
  <1>3. CASE tx.kind = "unstake"
    <2>1. EventsOf(tx) = <<"CollateralUnstaked">>
      BY <1>3 DEF EventsOf, EventName
    <2>2. b = [a EXCEPT !.stakedAmount = @ - 1]
      BY <1>3 DEF After
    <2>3. Rebuilt([d EXCEPT !.routers.stakedAmount = b.stakedAmount], b)
      BY <1>3, <2>2 DEF Executes, DocType, Accounts, Rebuilt
    <2> QED
      BY <2>1, <2>3 DEF Projected
  <1>4. CASE tx.kind = "heartbeat"
    <2>1. EventsOf(tx) = <<"HeartbeatReceived">>
      BY <1>4 DEF EventsOf, EventName
    <2>2. b = [a EXCEPT !.heartbeatCount = @ + 1]
      BY <1>4 DEF After
    <2>3. Rebuilt([d EXCEPT !.routers.status = "active",
                                !.routers.heartbeatCount = @ + 1], b)
      BY <1>4, <2>2 DEF Executes, DocType, Accounts, Rebuilt
    <2> QED
      BY <2>1, <2>3 DEF Projected
  <1>5. CASE tx.kind = "late"
    <2>1. EventsOf(tx) = <<"RouterSuspended", "HeartbeatReceived">>
      BY <1>5 DEF EventsOf
    <2>2. b = [a EXCEPT !.heartbeatCount = @ + 1, !.status = "suspended"]
      BY <1>5 DEF After
    <2>3. Rebuilt([d EXCEPT !.routers.status = "suspended"], a)
      BY DEF DocType, Accounts, Rebuilt
    <2>4. Rebuilt([d EXCEPT !.routers.status = "active",
                                !.routers.heartbeatCount = @ + 1], b)
      BY <2>2 DEF DocType, Accounts, Rebuilt
    <2> QED
      BY <2>1, <2>3, <2>4 DEF Projected
  <1>6. CASE tx.kind = "finalize"
    <2>1. EventsOf(tx) = <<"RouterEpochFinalized">>
      BY <1>6 DEF EventsOf, EventName
    <2>2. b = [a EXCEPT !.finalized = TRUE]
      BY <1>6 DEF After
    <2>3. Rebuilt([d EXCEPT !.epochs.finalized = TRUE], b)
      BY <1>6, <2>2 DEF Executes, DocType, Accounts, Rebuilt
    <2> QED
      BY <2>1, <2>3 DEF Projected
  <1>7. CASE tx.kind = "claim"
    <2>1. EventsOf(tx) = <<"RewardClaimed">>
      BY <1>7 DEF EventsOf, EventName
    <2>2. b = [a EXCEPT !.claimed = TRUE]
      BY <1>7 DEF After
    <2>3. Rebuilt([d EXCEPT !.epochs.claimed = TRUE], b)
      BY <1>7, <2>2 DEF Executes, DocType, Accounts, Rebuilt
    <2> QED
      BY <2>1, <2>3 DEF Projected
  <1>8. CASE tx.kind = "vest"
    <2>1. EventsOf(tx) = <<"VestedRewardClaimed">>
      BY <1>8 DEF EventsOf, EventName
    <2>2. b = [a EXCEPT !.vested = TRUE]
      BY <1>8 DEF After
    <2>3. Rebuilt([d EXCEPT !.epochs.vested = TRUE], b)
      BY <1>8, <2>2 DEF Executes, DocType, Accounts, Rebuilt
    <2> QED
      BY <2>1, <2>3 DEF Projected
  <1>9. CASE tx.kind = "slash"
    <2>1. EventsOf(tx) = <<"RouterSlashed">>
      BY <1>9 DEF EventsOf, EventName
    <2>2. b = [a EXCEPT !.slashed = TRUE, !.stakedAmount = @ - 1]
      BY <1>9 DEF After
    <2>3. Rebuilt([d EXCEPT !.routers.stakedAmount = b.stakedAmount,
                                !.epochs.slashed = TRUE], b)
      BY <1>9, <2>2 DEF Executes, DocType, Accounts, Rebuilt
    <2> QED
      BY <2>1, <2>3 DEF Projected
  <1>10. CASE tx.kind = "penalty"
    <2>1. EventsOf(tx) = <<"PenaltyApplied">>
      BY <1>10 DEF EventsOf, EventName
    <2>2. b = [a EXCEPT !.status = "suspended"]
      BY <1>10 DEF After
    <2>3. Rebuilt(d, b)
      BY <1>10, <2>2 DEF Executes, DocType, Accounts, Rebuilt
    <2> QED
      BY <2>1, <2>3 DEF Projected
  <1>11. CASE tx.kind = "reinstate"
    <2>1. EventsOf(tx) = <<"RouterReinstated">>
      BY <1>11 DEF EventsOf, EventName
    <2>2. b = [a EXCEPT !.status = "active"]
      BY <1>11 DEF After
    <2>3. Rebuilt([d EXCEPT !.routers.status = "active"], b)
      BY <1>11, <2>2 DEF Executes, DocType, Accounts, Rebuilt
    <2> QED
      BY <2>1, <2>3 DEF Projected
  <1>12. CASE tx.kind = "decommission"
    <2>1. EventsOf(tx) = <<"RouterDecommissioned">>
      BY <1>12 DEF EventsOf, EventName
    <2>2. b = [a EXCEPT !.status = "decommissioned"]
      BY <1>12 DEF After
    <2>3. Rebuilt([d EXCEPT !.routers.status = "decommissioned"], b)
      BY <1>12, <2>2 DEF Executes, DocType, Accounts, Rebuilt
    <2> QED
      BY <2>1, <2>3 DEF Projected
  <1>13. CASE tx.kind = "pause"
    <2>1. EventsOf(tx) = <<"ProtocolPaused">>
      BY <1>13 DEF EventsOf, EventName
    <2>2. b = [a EXCEPT !.isPaused = TRUE]
      BY <1>13 DEF After
    <2>3. Rebuilt([d EXCEPT !.protocol.isPaused = b.isPaused], b)
      BY <1>13, <2>2 DEF Executes, DocType, Accounts, Rebuilt
    <2> QED
      BY <2>1, <2>3 DEF Projected
  <1>14. CASE tx.kind = "resume"
    <2>1. EventsOf(tx) = <<"ProtocolResumed">>
      BY <1>14 DEF EventsOf, EventName
    <2>2. b = [a EXCEPT !.isPaused = FALSE]
      BY <1>14 DEF After
    <2>3. Rebuilt([d EXCEPT !.protocol.isPaused = b.isPaused], b)
      BY <1>14, <2>2 DEF Executes, DocType, Accounts, Rebuilt
    <2> QED
      BY <2>1, <2>3 DEF Projected
  <1>15. CASE tx.kind = "failed"
    BY <1>15 DEF EventsOf
  <1> QED
    BY <1>1, <1>2, <1>3, <1>4, <1>5, <1>6, <1>7, <1>8, <1>9, <1>10, <1>11, <1>12, <1>13, <1>14, <1>15 DEF Executes

\* Only a transaction that failed emits nothing, and it changes no account.
LEMMA Silent ==
  ASSUME NEW a \in Accounts, NEW tx, EventsOf(tx) = <<>>
  PROVE  tx.kind = "failed" /\ After(tx.kind, a) = a
PROOF
  <1>1. tx.kind = "failed"
    BY DEF EventsOf
  <1> QED
    BY <1>1 DEF After

----------------------------------------------------------------------------
(* The chain. *)

LEMMA ChainAccounts ==
  ASSUME ChainInv
  PROVE  /\ \A n \in 0 .. Len(chain) : Account(n) \in Accounts
         /\ \A n \in 1 .. Len(chain) :
              /\ chain[n].after = Account(n)
              /\ chain[n].after = After(chain[n].kind, Account(n - 1))
              /\ Executes(chain[n].kind, Account(n - 1))
PROOF
  <1>1. chain \in Seq([kind: TxKinds, after: Accounts])
    BY DEF ChainInv, Executed
  <1>2. \A n \in 1 .. Len(chain) : chain[n] \in [kind: TxKinds, after: Accounts]
    BY <1>1, ElementOfSeq
  <1>3. Account(0) = NoAccount /\ NoAccount \in Accounts
    BY DEF Account, NoAccount, Accounts
  <1>4. \A n \in 1 .. Len(chain) : Account(n) = chain[n].after
    BY DEF Account
  <1>5. \A n \in 0 .. Len(chain) : n = 0 \/ n \in 1 .. Len(chain)
    BY <1>1
  <1>6. \A n \in 0 .. Len(chain) : Account(n) \in Accounts
    BY <1>2, <1>3, <1>4, <1>5
  <1>7. \A n \in 1 .. Len(chain) :
          Account(n - 1) = IF n = 1 THEN NoAccount ELSE chain[n - 1].after
    BY <1>1 DEF Account
  <1> QED
    BY <1>4, <1>6, <1>7 DEF ChainInv, Executed

LEMMA ConfirmExtends ==
  ASSUME ChainInv, NEW kind, Confirm(kind)
  PROVE  /\ ChainInv' /\ Len(chain') = Len(chain) + 1
         /\ \A n \in 1 .. Len(chain) : chain'[n] = chain[n]
         /\ \A n \in 0 .. Len(chain) : Account(n)' = Account(n)
PROOF
  <1> DEFINE a == Account(Len(chain))
             tx == [kind |-> kind, after |-> After(kind, a)]
  <1>1. chain \in Seq([kind: TxKinds, after: Accounts]) /\ Len(chain) \in 1 .. MaxTx
        /\ MaxTx \in Nat
    BY IndexerAssumption DEF ChainInv, Executed
  <1>2. chain' = Append(chain, tx) /\ Len(chain) < MaxTx /\ Executes(kind, a)
        /\ served' = served
    BY DEF Confirm
  <1>3. a \in Accounts /\ a = chain[Len(chain)].after
    BY <1>1, ChainAccounts
  <1>4. tx \in [kind: TxKinds, after: Accounts]
    BY <1>2, <1>3, AfterAccount
  <1> HIDE DEF a, tx
  <1>5. /\ chain' \in Seq([kind: TxKinds, after: Accounts]) /\ Len(chain') = Len(chain) + 1
        /\ \A n \in 1 .. Len(chain) : chain'[n] = chain[n]
        /\ chain'[Len(chain) + 1] = tx
    BY <1>1, <1>2, <1>4
  <1>6. ASSUME NEW n \in 1 .. Len(chain')
        PROVE  LET b == IF n = 1 THEN NoAccount ELSE chain'[n - 1].after
               IN  Executes(chain'[n].kind, b) /\ chain'[n].after = After(chain'[n].kind, b)
    <2>1. CASE n = Len(chain) + 1
      <3>1. n # 1 /\ chain'[n - 1] = chain[Len(chain)]
        BY <1>1, <1>5, <2>1
      <3>2. chain'[n].kind = kind /\ chain'[n].after = After(kind, a)
        BY <1>5, <2>1 DEF tx
      <3> QED
        BY <1>2, <1>3, <3>1, <3>2
    <2>2. CASE n \in 1 .. Len(chain)
      <3>1. chain'[n] = chain[n] /\ (n # 1 => chain'[n - 1] = chain[n - 1])
        BY <1>1, <1>5, <2>2
      <3> QED
        BY <2>2, <3>1 DEF ChainInv, Executed
    <2> QED
      BY <1>1, <1>5, <2>1, <2>2
  <1>7. Executed(chain')
    BY <1>5, <1>6 DEF Executed
  <1>8. ChainInv'
    <2>1. served' \subseteq 1 .. Len(chain')
      BY <1>1, <1>2, <1>5 DEF ChainInv
    <2> QED
      BY <1>1, <1>2, <1>5, <1>7, <2>1 DEF ChainInv
  <1>9. \A n \in 0 .. Len(chain) : Account(n)' = Account(n)
    BY <1>1, <1>5 DEF Account
  <1> QED
    BY <1>5, <1>8, <1>9

LEMMA ChainNext ==
  ASSUME ChainInv, Next
  PROVE  ChainInv'
PROOF
  <1>1. CASE \E kind \in Kinds : Confirm(kind)
    BY <1>1, ConfirmExtends
  <1>2. CASE \E s \in Sigs : Serve(s)
    BY <1>2 DEF Serve, ChainInv, Sigs
  <1>3. CASE UNCHANGED <<chain, served>>
    BY <1>3 DEF ChainInv
  <1> QED
    BY <1>1, <1>2, <1>3
       DEF Next, CallStep, PassStep, Start, BackfillNext, FinishBackfill, Crash, CallThrows,
           ProjectionFails, FetchNull, FetchFound, Claim, WriteEvents, ProjectEvent,
           StartPass, ReadAccounts, WriteDocument, PassFails
----------------------------------------------------------------------------
(* The processes. *)

\* A call that is not idle belongs to a process that backfills, at its cursor, or
\* to one that is live.
LEMMA CallRunning ==
  ASSUME IngestInv, ProcInv, NEW p \in Procs, NEW s \in Sigs, call[p][s].pc # "idle"
  PROVE  /\ proc[p].phase \in {"backfill", "live"}
         /\ Backfilling(p) => s = proc[p].cursor /\ s <= proc[p].listed
PROOF
  <1>1. call[p][s] # NoCall /\ call[p] # NoCalls
    BY DEF NoCall, NoCalls
  <1> QED
    BY <1>1 DEF ProcInv, Phases, Backfilling

\* A call that goes on, or ends while its process is live.
LEMMA CallMoves ==
  ASSUME IngestInv, ProcInv, NEW p \in Procs, NEW s \in Sigs, call[p][s].pc # "idle",
         NEW c \in CallType, call' = [call EXCEPT ![p][s] = c],
         UNCHANGED <<chain, proc, pass>>, faults' \in Nat
  PROVE  ProcInv'
PROOF
  <1>1. proc[p].phase \in {"backfill", "live"}
        /\ (Backfilling(p) => s = proc[p].cursor /\ s <= proc[p].listed)
    BY CallRunning
  <1>2. \A q \in Procs : q # p => call'[q] = call[q]
    BY DEF IngestInv
  <1>3. \A t \in Sigs : t # s => call'[p][t] = call[p][t]
    BY DEF IngestInv
  <1> QED
    BY <1>1, <1>2, <1>3 DEF ProcInv, Backfilling, Live

\* A call that ends takes the cursor of a backfill along.
LEMMA ReturnMoves ==
  ASSUME IngestInv, ChainInv, ProcInv, NEW p \in Procs, NEW s \in Sigs,
         call[p][s].pc # "idle", Return(p, s), UNCHANGED <<chain, pass>>, faults' \in Nat
  PROVE  ProcInv'
PROOF
  <1>1. NoCall \in CallType
    BY DEF NoCall, CallType
  <1>2. CASE ~Backfilling(p)
    BY <1>1, <1>2, CallMoves DEF Return, ProcInv
  <1>3. CASE Backfilling(p)
    <2>1. s = proc[p].cursor /\ s <= proc[p].listed
      BY <1>3, CallRunning
    <2>2. call' = [call EXCEPT ![p][s] = NoCall] /\ proc' = [proc EXCEPT ![p].cursor = @ + 1]
      BY <1>3 DEF Return
    <2>3. \A t \in Sigs : call'[p][t] = NoCall
      BY <1>3, <2>1, <2>2 DEF IngestInv, ProcInv
    <2>4. \A q \in Procs : q # p => call'[q] = call[q] /\ proc'[q] = proc[q]
      BY <2>2 DEF IngestInv, ProcInv
    <2>5. /\ proc' \in [Procs -> [phase: Phases, listed: Nat, cursor: Nat]]
          /\ proc'[p].phase = proc[p].phase /\ proc'[p].listed = proc[p].listed
          /\ proc'[p].cursor = proc[p].cursor + 1
      <3>1. \A c \in [phase: Phases, listed: Nat, cursor: Nat] :
              [c EXCEPT !.cursor = @ + 1] \in [phase: Phases, listed: Nat, cursor: Nat]
        OBVIOUS
      <3> QED
        BY <2>2, <3>1 DEF ProcInv
    <2>6. proc[p].listed \in Nat /\ proc[p].listed <= Len(chain)
      BY <1>3 DEF ProcInv
    <2>7. proc'[p].cursor \in 1 .. proc'[p].listed + 1 /\ proc'[p].listed <= Len(chain')
      BY <2>1, <2>5, <2>6 DEF Sigs
    <2>8. Live' <=> Live
      BY <2>4, <2>5, IndexerAssumption DEF Live
    <2>9. \A q \in Procs : Backfilling(q)' <=> Backfilling(q)
      BY <2>4, <2>5 DEF Backfilling
    <2>10. \A q \in Procs : proc'[q].phase = proc[q].phase
      BY <2>4, <2>5
    <2>11. "service" \in Procs
      BY IndexerAssumption
    <2>12. \A q \in Procs \ {p} :
            /\ proc'[q].phase \in {"down", "done"} => call'[q] = NoCalls
            /\ Backfilling(q)' =>
                 /\ proc'[q].cursor \in 1 .. proc'[q].listed + 1
                 /\ proc'[q].listed <= Len(chain')
                 /\ \A t \in Sigs : call'[q][t] # NoCall =>
                                      t = proc'[q].cursor /\ t <= proc'[q].listed
      BY <2>4, <2>9 DEF ProcInv
    <2>13. \A n \in Passes : (pass[n].at > 0 \/ pass[n].seen > 0)' => Live'
      BY <2>8 DEF ProcInv
    <2>14. proc'[p].phase = "backfill"
      BY <1>3, <2>5 DEF Backfilling
    <2> QED
      BY <2>3, <2>5, <2>7, <2>10, <2>11, <2>12, <2>13, <2>14 DEF ProcInv
  <1> QED
    BY <1>2, <1>3

\* A process that goes leaves nothing of its own behind.
LEMMA ExitMoves ==
  ASSUME IngestInv, ProcInv, NEW p \in Procs, Exit(p), UNCHANGED chain, faults' \in Nat
  PROVE  ProcInv'
PROOF
  <1>1. proc'[p] = Stopped /\ call'[p] = NoCalls
    BY DEF Exit, ProcInv, IngestInv
  <1>2. \A q \in Procs : q # p => call'[q] = call[q] /\ proc'[q] = proc[q]
    BY DEF Exit, IngestInv, ProcInv
  <1>3. Stopped \in [phase: Phases, listed: Nat, cursor: Nat]
        /\ Stopped.phase = "down"
    BY DEF Stopped, Phases
  <1>4. proc' \in [Procs -> [phase: Phases, listed: Nat, cursor: Nat]]
    BY <1>3 DEF Exit, ProcInv
  <1>5. \A n \in Passes : (pass[n].at > 0 \/ pass[n].seen > 0)' => Live'
    <2>1. CASE p = "service"
      BY <2>1 DEF Exit, NoPasses, NoPass
    <2>2. CASE p # "service"
      BY <1>2, <2>2, IndexerAssumption DEF Exit, ProcInv, Live
    <2> QED
      BY <2>1, <2>2
  <1>6. "service" \in Procs
    BY IndexerAssumption
  <1>7. \A q \in Procs : proc'[q].phase = IF q = p THEN "down" ELSE proc[q].phase
    BY <1>1, <1>2, <1>3
  <1>8. \A q \in Procs : q # p =>
          /\ proc'[q].phase \in {"down", "done"} => call'[q] = NoCalls
          /\ Backfilling(q)' =>
               /\ proc'[q].cursor \in 1 .. proc'[q].listed + 1
               /\ proc'[q].listed <= Len(chain')
               /\ \A t \in Sigs : call'[q][t] # NoCall =>
                                    t = proc'[q].cursor /\ t <= proc'[q].listed
    BY <1>2 DEF ProcInv, Backfilling
  <1> QED
    BY <1>1, <1>4, <1>5, <1>6, <1>7, <1>8 DEF ProcInv, Backfilling

LEMMA StartMoves ==
  ASSUME IngestInv, ChainInv, ProcInv, NEW p \in Procs,
         Start(p) \/ BackfillNext(p) \/ FinishBackfill(p)
  PROVE  ProcInv'
PROOF
  <1>1. "service" \in Procs /\ Len(chain) \in Nat /\ chain' = chain /\ pass' = pass
        /\ faults' = faults
    BY IndexerAssumption DEF ChainInv, Start, BackfillNext, FinishBackfill
  <1>2. CASE Start(p)
    <2> DEFINE new == [phase |-> "backfill", listed |-> Len(chain), cursor |-> 1]
    <2>1. proc' = [proc EXCEPT ![p] = new] /\ call' = call /\ call[p] = NoCalls
          /\ proc[p].phase # "live"
      BY <1>2 DEF Start, ProcInv
    <2>2. new \in [phase: Phases, listed: Nat, cursor: Nat]
      BY <1>1 DEF Phases
    <2>3. proc' \in [Procs -> [phase: Phases, listed: Nat, cursor: Nat]]
          /\ proc'[p] = new /\ \A q \in Procs : q # p => proc'[q] = proc[q]
      BY <2>1, <2>2 DEF ProcInv
    <2>4. proc'[p].phase = "backfill" /\ proc'[p].listed = Len(chain) /\ proc'[p].cursor = 1
      BY <2>3
    <2>5. \A t \in Sigs : call[p][t] = NoCall
      BY <2>1 DEF NoCalls
    <2>6. Live => Live'
      BY <2>1, <2>3 DEF Live, ProcInv
    <2>7. \A q \in Procs : q # p => (Backfilling(q)' <=> Backfilling(q))
      BY <2>3 DEF Backfilling
    <2> QED
      BY <1>1, <2>1, <2>3, <2>4, <2>5, <2>6, <2>7 DEF ProcInv
  <1>3. CASE BackfillNext(p)
    <2>1. proc' = proc /\ Backfilling(p)
          /\ call' = [call EXCEPT ![p][proc[p].cursor].pc = "fetch"]
      BY <1>3 DEF BackfillNext, Listed
    <2>2. proc[p].cursor <= proc[p].listed
      BY <1>3 DEF BackfillNext, AllIndexed, ProcInv
    <2>3. \A q \in Procs : q # p => call'[q] = call[q]
      BY <2>1 DEF IngestInv
    <2>4. \A t \in Sigs : t # proc[p].cursor => call'[p][t] = call[p][t]
      BY <2>1 DEF IngestInv
    <2> QED
      BY <1>1, <2>1, <2>2, <2>3, <2>4 DEF ProcInv, Backfilling, Live
  <1>4. CASE FinishBackfill(p)
    <2> DEFINE new == [Stopped EXCEPT !.phase = IF p = "service" THEN "live" ELSE "done"]
    <2>1. proc' = [proc EXCEPT ![p] = new] /\ call' = call
          /\ Backfilling(p) /\ \A s \in Sigs : call[p][s] = NoCall
      BY <1>4 DEF FinishBackfill
    <2>2. new \in [phase: Phases, listed: Nat, cursor: Nat]
          /\ new.phase = IF p = "service" THEN "live" ELSE "done"
      BY DEF Phases, Stopped
    <2>3. proc' \in [Procs -> [phase: Phases, listed: Nat, cursor: Nat]]
          /\ proc'[p] = new /\ \A q \in Procs : q # p => proc'[q] = proc[q]
      BY <2>1, <2>2 DEF ProcInv
    <2>4. call[p] = NoCalls
      BY <2>1 DEF NoCalls, IngestInv
    <2>5. proc'["service"].phase # "done" /\ (Live => Live')
      BY <1>1, <2>2, <2>3 DEF Live, ProcInv
    <2>6. \A q \in Procs : q # p => (Backfilling(q)' <=> Backfilling(q))
      BY <2>3 DEF Backfilling
    <2>7. ~Backfilling(p)'
      BY <2>2, <2>3 DEF Backfilling
    <2> QED
      BY <1>1, <2>1, <2>3, <2>4, <2>5, <2>6, <2>7 DEF ProcInv
  <1> QED
    BY <1>2, <1>3, <1>4

LEMMA ProcNext ==
  ASSUME IngestInv, ChainInv, ProcInv, Next
  PROVE  ProcInv'
PROOF
  <1>0. "service" \in Procs /\ faults \in Nat /\ Len(chain) \in Nat
    BY IndexerAssumption DEF ProcInv, ChainInv
  <1>1. ASSUME NEW kind \in Kinds, Confirm(kind) PROVE ProcInv'
    <2>1. Len(chain') = Len(chain) + 1
      BY <1>1, ConfirmExtends
    <2>2. proc' = proc /\ pass' = pass /\ faults' = faults
      BY <1>1 DEF Confirm
    <2>3. \A q \in Procs : q # "service" => call'[q] = call[q]
      BY <1>1 DEF Confirm, IngestInv
    <2>4. Live \/ call' = call
      BY <1>1 DEF Confirm
    <2> QED
      BY <1>0, <2>1, <2>2, <2>3, <2>4 DEF ProcInv, Live, Backfilling
  <1>2. ASSUME NEW s \in Sigs, Serve(s) PROVE ProcInv'
    BY <1>2 DEF Serve, ProcInv, mongo, Backfilling, Live
  <1>3. ASSUME NEW p \in Procs, Start(p) \/ BackfillNext(p) \/ FinishBackfill(p)
        PROVE  ProcInv'
    BY <1>3, StartMoves
  <1>4. ASSUME NEW p \in Procs, Crash(p) PROVE ProcInv'
    BY <1>0, <1>4, ExitMoves DEF Crash, Fault
  <1>5. ASSUME NEW p \in Procs, NEW s \in Sigs, FetchNull(p, s) PROVE ProcInv'
    BY <1>0, <1>5, ReturnMoves DEF FetchNull
  <1>6. ASSUME NEW p \in Procs, NEW s \in Sigs, FetchFound(p, s) PROVE ProcInv'
    <2>1. PICK c \in CallType : c = [call[p][s] EXCEPT !.pc = "claim"]
      BY DEF IngestInv, CallType
    <2>2. call' = [call EXCEPT ![p][s] = c]
      BY <1>6, <2>1 DEF FetchFound, IngestInv
    <2> QED
      BY <1>0, <1>6, <2>2, CallMoves DEF FetchFound
  <1>7. ASSUME NEW p \in Procs, NEW s \in Sigs, Claim(p, s) PROVE ProcInv'
    <2>1. CASE Return(p, s)
      BY <1>0, <1>7, <2>1, ReturnMoves DEF Claim
    <2>2. CASE call' = [call EXCEPT ![p][s].pc = "write"] /\ UNCHANGED proc
      <3>1. PICK c \in CallType : c = [call[p][s] EXCEPT !.pc = "write"]
        BY DEF IngestInv, CallType
      <3>2. call' = [call EXCEPT ![p][s] = c]
        BY <2>2, <3>1 DEF IngestInv
      <3> QED
        BY <1>0, <1>7, <2>2, <3>2, CallMoves DEF Claim
    <2> QED
      BY <1>7, <2>1, <2>2 DEF Claim
  <1>8. ASSUME NEW p \in Procs, NEW s \in Sigs, WriteEvents(p, s) PROVE ProcInv'
    <2>1. [pc |-> "project", next |-> 1] \in CallType
      BY DEF CallType
    <2> QED
      BY <1>0, <1>8, <2>1, CallMoves DEF WriteEvents
  <1>9. ASSUME NEW p \in Procs, NEW s \in Sigs,
               ProjectEvent(p, s) \/ ProjectionFails(p, s)
        PROVE  ProcInv'
    <2>1. call[p][s].pc = "project" /\ NextEvent(p, s) /\ chain' = chain /\ pass' = pass
          /\ faults' \in Nat
      BY <1>0, <1>9 DEF ProjectEvent, ProjectionFails, Fault
    <2>2. CASE Return(p, s)
      BY <2>1, <2>2, ReturnMoves
    <2>3. CASE call' = [call EXCEPT ![p][s].next = @ + 1] /\ UNCHANGED proc
      <3>1. PICK c \in CallType : c = [call[p][s] EXCEPT !.next = @ + 1]
        <4>1. call[p][s] \in CallType
          BY DEF IngestInv
        <4>2. [call[p][s] EXCEPT !.next = @ + 1] \in CallType
          BY <4>1 DEF CallType
        <4> QED
          BY <4>2
      <3>2. call' = [call EXCEPT ![p][s] = c]
        BY <2>3, <3>1 DEF IngestInv
      <3> QED
        BY <2>1, <2>3, <3>2, CallMoves
    <2> QED
      BY <2>1, <2>2, <2>3 DEF NextEvent
  <1>10. ASSUME NEW p \in Procs, NEW s \in Sigs, CallThrows(p, s) PROVE ProcInv'
    <2>1. faults' \in Nat /\ chain' = chain /\ call[p][s].pc # "idle"
      BY <1>0, <1>10 DEF CallThrows, Fault
    <2>2. CASE Exit(p)
      BY <2>1, <2>2, ExitMoves
    <2>3. CASE call' = [call EXCEPT ![p][s] = NoCall] /\ UNCHANGED <<proc, pass>>
      <3>1. NoCall \in CallType
        BY DEF NoCall, CallType
      <3> QED
        BY <2>1, <2>3, <3>1, CallMoves
    <2> QED
      BY <1>10, <2>2, <2>3 DEF CallThrows
  <1>11. ASSUME NEW n \in Passes, StartPass(n) \/ PassStep(n) \/ PassFails(n)
         PROVE  ProcInv'
    <2>1. UNCHANGED <<chain, proc, call>> /\ faults' \in Nat
      BY <1>0, <1>11
         DEF StartPass, PassStep, ReadAccounts, WriteDocument, PassFails, Fault
    <2>2. Live
      BY <1>11 DEF StartPass, PassStep, ReadAccounts, WriteDocument, PassFails, ProcInv
    <2> QED
      BY <2>1, <2>2 DEF ProcInv, Live, Backfilling
  <1> QED
    BY <1>1, <1>2, <1>3, <1>4, <1>5, <1>6, <1>7, <1>8, <1>9, <1>10, <1>11
       DEF Next, CallStep
----------------------------------------------------------------------------
(* The first run. *)

\* A first run was one before the step, and no step of it is a fault.
LEMMA StillFirst ==
  ASSUME IngestInv, ProcInv, Next, FirstRun'
  PROVE  FirstRun /\ ~Fault
PROOF
  <1>1. faults \in Nat /\ faults' = 0
    BY DEF ProcInv, FirstRun
  <1>2. ~Fault
    BY <1>1 DEF Fault
  <1>3. faults' = faults
    BY <1>2 DEF Next, CallStep, PassStep, Confirm, Serve, Start, BackfillNext, FinishBackfill,
       Crash, CallThrows, ProjectionFails, FetchNull, FetchFound, Claim, WriteEvents,
       ProjectEvent, StartPass, ReadAccounts, WriteDocument, PassFails
  <1>4. ASSUME NEW q \in Procs \ {"service"} PROVE proc[q].phase = "down"
    <2>1. proc'[q].phase = "down"
      BY DEF FirstRun
    <2>2. CASE proc'[q] = proc[q]
      BY <2>1, <2>2
    <2>3. CASE \E p \in Procs : Start(p) \/ FinishBackfill(p)
      <3>1. PICK p \in Procs : Start(p) \/ FinishBackfill(p)
        BY <2>3
      <3>2. p # q => proc'[q] = proc[q]
        BY <3>1 DEF Start, FinishBackfill, ProcInv
      <3>3. p = q => proc'[q].phase \in {"backfill", "live", "done"}
        BY <3>1 DEF Start, FinishBackfill, ProcInv, Stopped
      <3> QED
        BY <2>1, <3>2, <3>3
    <2>4. CASE \E p \in Procs, s \in Sigs : Return(p, s)
      <3>1. PICK p \in Procs, s \in Sigs : Return(p, s)
        BY <2>4
      <3>2. proc'[q].phase = proc[q].phase
        BY <3>1 DEF Return, ProcInv
      <3> QED
        BY <2>1, <3>2
    <2> QED
      BY <1>2, <2>2, <2>3, <2>4
         DEF Next, CallStep, PassStep, Confirm, Serve, BackfillNext, Crash, CallThrows,
             ProjectionFails, FetchNull, FetchFound, Claim, WriteEvents, ProjectEvent,
             NextEvent, StartPass, ReadAccounts, WriteDocument, PassFails
  <1> QED
    BY <1>1, <1>2, <1>3, <1>4 DEF FirstRun

\* In it every call is the service's.
LEMMA OnlyService ==
  ASSUME IngestInv, ProcInv, FirstRun, NEW p \in Procs, NEW s \in Sigs,
         call[p][s].pc # "idle"
  PROVE  /\ p = "service" /\ ~(proc["service"].phase = "down")
         /\ Backfilling("service") => s = proc["service"].cursor /\ s \in 1 .. Len(chain)
PROOF
  <1>1. proc[p].phase \in {"backfill", "live"}
        /\ (Backfilling(p) => s = proc[p].cursor /\ s <= proc[p].listed)
    BY CallRunning
  <1>2. p = "service"
    BY <1>1 DEF FirstRun
  <1>3. Backfilling(p) => proc[p].listed \in Nat /\ proc[p].listed <= Len(chain)
    BY DEF ProcInv
  <1> QED
    BY <1>1, <1>2, <1>3 DEF Sigs, Backfilling

\* Steps of the service's backfill that leave the cursor where it is.
LEMMA CursorStays ==
  ASSUME IngestInv, ChainInv, ProcInv, FirstRunInv, FirstRun, Backfilling("service"),
         NEW s \in Sigs, s = proc["service"].cursor, s \in 1 .. Len(chain),
         NEW c \in CallType, call' = [call EXCEPT !["service"][s] = c],
         UNCHANGED <<chain, proc>>, doc' \in DocType,
         Rebuilt(doc, Account(s - 1)) => Rebuilt(doc', Account(s - 1)),
         claimed' \subseteq claimed \cup {s},
         s \in claimed' => c.pc \in {"write", "project"},
         c.pc \in {"write", "project"} => EventsOf(chain[s]) # <<>>,
         c.pc = "project" => c.next \in 1 .. Len(EventsOf(chain[s])),
         claimed \subseteq claimed'
  PROVE  FirstRunInv'
PROOF
  <1>1. "service" \in Procs /\ Len(chain) \in Nat
    BY IndexerAssumption DEF ChainInv
  <1>2. call'["service"][s] = c
    BY <1>1 DEF IngestInv
  <1>3. proc'["service"].phase = "backfill" /\ proc'["service"].cursor = s
    BY DEF Backfilling
  <1>4. claimed \subseteq 1 .. s
    BY DEF FirstRunInv, CursorInv
  <1>5. CursorInv'
    BY <1>2, <1>3, <1>4 DEF CursorInv, Applying, Sigs
  <1>6. 1 .. (s - 1) \subseteq claimed' => 1 .. (s - 1) \subseteq claimed
    BY DEF Sigs
  <1>7. Account(s - 1)' = Account(s - 1)
    BY DEF Account
  <1>8. 1 .. (s - 1) \subseteq claimed' => Rebuilt(doc', Account(s - 1)')
    BY <1>6, <1>7 DEF FirstRunInv
  <1> QED
    BY <1>3, <1>4, <1>5, <1>8 DEF FirstRunInv, Backfilling

\* And those that end its call: what is claimed then has been applied.
LEMMA CursorMoves ==
  ASSUME IngestInv, ChainInv, ProcInv, ProcInv', FirstRunInv, FirstRun,
         Backfilling("service"),
         NEW s \in Sigs, s = proc["service"].cursor, s \in 1 .. Len(chain),
         Return("service", s), UNCHANGED chain, doc' \in DocType,
         claimed \subseteq claimed', claimed' \subseteq claimed \cup {s},
         1 .. s \subseteq claimed' =>
           (Rebuilt(doc, Account(s - 1)) => Rebuilt(doc', Account(s)))
  PROVE  FirstRunInv'
PROOF
  <1>1. "service" \in Procs /\ Len(chain) \in Nat
    BY IndexerAssumption DEF ChainInv
  <1>2. proc'["service"].phase = "backfill" /\ proc'["service"].cursor = s + 1
    BY <1>1 DEF Return, ProcInv, Backfilling
  <1>3. claimed' \subseteq 1 .. s
    BY DEF FirstRunInv, CursorInv, Sigs
  <1>4. s + 1 \in Sigs => call'["service"][s + 1].pc = "idle"
    <2>1. s + 1 # s
      BY DEF Sigs
    <2>2. s + 1 \in Sigs => call["service"][s + 1] = NoCall
      BY <1>1, <2>1 DEF ProcInv
    <2>3. s + 1 \in Sigs => call'["service"][s + 1] = call["service"][s + 1]
      BY <1>1, <2>1 DEF Return, IngestInv
    <2> QED
      BY <2>2, <2>3 DEF NoCall
  <1>5. CursorInv'
    <2>1. s + 1 \notin claimed' /\ claimed' \subseteq 1 .. s + 1
      BY <1>3 DEF Sigs
    <2> QED
      BY <1>2, <1>4, <2>1 DEF CursorInv, Applying
  <1>6. (s + 1) - 1 = s
    BY DEF Sigs
  <1>7. ASSUME 1 .. s \subseteq claimed' PROVE Rebuilt(doc', Account(s)')
    <2>1. 1 .. (s - 1) \subseteq claimed
      BY <1>7 DEF Sigs
    <2>2. Rebuilt(doc, Account(s - 1))
      BY <2>1 DEF FirstRunInv
    <2>3. Account(s)' = Account(s)
      BY DEF Account
    <2> QED
      BY <1>7, <2>2, <2>3
  <1> QED
    BY <1>2, <1>5, <1>6, <1>7 DEF FirstRunInv, Backfilling

LEMMA EventsLength ==
  ASSUME NEW tx
  PROVE  Len(EventsOf(tx)) \in Nat /\ (EventsOf(tx) # <<>> => Len(EventsOf(tx)) >= 1)
PROOF
  <1>1. CASE tx.kind = "failed"
    BY <1>1 DEF EventsOf
  <1>2. CASE tx.kind = "late"
    BY <1>2 DEF EventsOf
  <1>3. CASE tx.kind \notin {"failed", "late"}
    <2>1. EventsOf(tx) = <<EventName[tx.kind]>>
      BY <1>3 DEF EventsOf
    <2> QED
      BY <2>1
  <1> QED
    BY <1>1, <1>2, <1>3

LEMMA CallUpdates ==
  ASSUME NEW c \in CallType
  PROVE  /\ [c EXCEPT !.pc = "fetch"] \in CallType /\ [c EXCEPT !.pc = "fetch"].pc = "fetch"
         /\ [c EXCEPT !.pc = "claim"] \in CallType /\ [c EXCEPT !.pc = "claim"].pc = "claim"
         /\ [c EXCEPT !.pc = "write"] \in CallType /\ [c EXCEPT !.pc = "write"].pc = "write"
         /\ [c EXCEPT !.next = @ + 1] \in CallType
         /\ [c EXCEPT !.next = @ + 1].pc = c.pc /\ [c EXCEPT !.next = @ + 1].next = c.next + 1
BY DEF CallType

LEMMA CallsFirst ==
  ASSUME IngestInv, ChainInv, ProcInv, ProcInv', FirstRunInv, FirstRun,
         NEW p \in Procs, NEW s \in Sigs, CallStep(p, s)
  PROVE  FirstRunInv'
PROOF
  <1>1. call[p][s].pc # "idle" /\ chain' = chain
    BY DEF CallStep, FetchNull, FetchFound, Claim, WriteEvents, ProjectEvent
  <1>2. p = "service" /\ proc["service"].phase # "down"
    BY <1>1, OnlyService
  <1>3. CASE ~Backfilling("service")
    <2>1. proc' = proc
      BY <1>2, <1>3 DEF CallStep, FetchNull, FetchFound, Claim, WriteEvents, ProjectEvent,
         NextEvent, Return
    <2> QED
      BY <1>2, <1>3, <2>1 DEF FirstRunInv, Backfilling
  <1>4. CASE Backfilling("service")
    <2>1. s = proc["service"].cursor /\ s \in 1 .. Len(chain)
      BY <1>1, <1>2, <1>4, OnlyService
    <2>2. doc \in DocType /\ CursorInv
      BY <1>4 DEF FirstRunInv
    <2>3. s \in claimed => call["service"][s].pc \in {"write", "project"}
      BY <2>1, <2>2 DEF CursorInv, Applying
    <2>4. "service" \in Procs /\ call["service"][s] \in CallType
      BY <1>2 DEF IngestInv
    <2>5. s - 1 \in 0 .. Len(chain) /\ Account(s - 1) \in Accounts
          /\ chain[s].after = Account(s) /\ Account(s) \in Accounts
          /\ chain[s].after = After(chain[s].kind, Account(s - 1))
          /\ Executes(chain[s].kind, Account(s - 1))
      <3>1. s \in 0 .. Len(chain) /\ s - 1 \in 0 .. Len(chain)
        BY <2>1 DEF Sigs
      <3> QED
        BY <2>1, <3>1, ChainAccounts
    <2>6. CASE FetchNull(p, s)
      <3>1. s \notin claimed
        BY <2>3, <2>6, <1>2 DEF FetchNull
      <3>2. ~(1 .. s \subseteq claimed)
        BY <3>1 DEF Sigs
      <3>3. Return("service", s) /\ doc' = doc /\ claimed' = claimed
        BY <1>2, <2>6 DEF FetchNull, mongo
      <3> QED
        BY <1>1, <1>4, <2>1, <2>2, <3>2, <3>3, CursorMoves
    <2>7. CASE FetchFound(p, s)
      <3>1. PICK c \in CallType : c = [call["service"][s] EXCEPT !.pc = "claim"]
              /\ c.pc = "claim"
        BY <2>4, CallUpdates
      <3>2. call' = [call EXCEPT !["service"][s] = c]
        BY <1>2, <2>4, <2>7, <3>1 DEF FetchFound, IngestInv
      <3>3. s \notin claimed /\ claimed' = claimed /\ UNCHANGED <<proc, doc>>
        BY <1>2, <2>3, <2>7 DEF FetchFound, mongo
      <3> QED
        BY <1>1, <1>4, <2>1, <2>2, <3>1, <3>2, <3>3, CursorStays
    <2>8. CASE Claim(p, s)
      <3>1. s \notin claimed /\ claimed' = claimed \cup {s} /\ doc' = doc
        BY <1>2, <2>3, <2>8 DEF Claim
      <3>2. CASE EventsOf(chain[s]) # <<>>
        <4>1. PICK c \in CallType : c = [call["service"][s] EXCEPT !.pc = "write"]
                /\ c.pc = "write"
          BY <2>4, CallUpdates
        <4>2. call' = [call EXCEPT !["service"][s] = c] /\ proc' = proc
          BY <1>2, <2>4, <2>8, <3>1, <3>2, <4>1 DEF Claim, FirstClaim, IngestInv
        <4> QED
          BY <1>1, <1>4, <2>1, <2>2, <3>1, <3>2, <4>1, <4>2, CursorStays
      <3>3. CASE EventsOf(chain[s]) = <<>>
        <4>1. Return("service", s)
          BY <1>2, <2>8, <3>3 DEF Claim
        <4>2. Account(s) = Account(s - 1)
          BY <2>5, <3>3, Silent
        <4> QED
          BY <1>1, <1>4, <2>1, <2>2, <3>1, <4>1, <4>2, CursorMoves
      <3> QED
        BY <3>2, <3>3
    <2>9. CASE WriteEvents(p, s)
      <3>0. [pc |-> "project", next |-> 1] \in CallType
        BY DEF CallType
      <3>1. PICK c \in CallType : c = [pc |-> "project", next |-> 1]
              /\ c.pc = "project" /\ c.next = 1
        BY <3>0
      <3>2. EventsOf(chain[s]) # <<>>
        BY <1>2, <2>1, <2>2, <2>9 DEF WriteEvents, CursorInv, Applying
      <3>3. 1 \in 1 .. Len(EventsOf(chain[s]))
        BY <3>2, EventsLength
      <3>4. call' = [call EXCEPT !["service"][s] = c] /\ claimed' = claimed
            /\ UNCHANGED <<proc, doc>>
        BY <1>2, <2>9, <3>1 DEF WriteEvents
      <3> QED
        BY <1>1, <1>4, <2>1, <2>2, <3>1, <3>2, <3>3, <3>4, CursorStays
    <2>10. CASE ProjectEvent(p, s)
      <3> DEFINE n == call["service"][s].next
                 e == EventsOf(chain[s])
                 d == Projected(doc, e[n], chain[s].after)
      <3>1. call["service"][s].pc = "project" /\ n \in 1 .. Len(e) /\ e # <<>>
        BY <1>2, <2>1, <2>2, <2>10 DEF ProjectEvent, CursorInv, Applying
      <3>2. doc' = d /\ claimed' = claimed /\ NextEvent("service", s)
        BY <1>2, <2>10 DEF ProjectEvent
      <3>3. d \in DocType
        BY <2>2, <2>5, ProjectedType
      <3>4. Rebuilt(doc, Account(s - 1)) =>
              Rebuilt(d, IF n = Len(e) THEN Account(s) ELSE Account(s - 1))
        BY <2>2, <2>5, <3>1, ProjectedRebuilds
      <3>5. Len(e) \in Nat /\ n \in Nat /\ n <= Len(e)
        BY <3>1, EventsLength
      <3>6. CASE n < Len(e)
        <4>0. [call["service"][s] EXCEPT !.next = @ + 1] \in CallType
              /\ [call["service"][s] EXCEPT !.next = @ + 1].pc = call["service"][s].pc
              /\ [call["service"][s] EXCEPT !.next = @ + 1].next = n + 1
          BY <2>4, CallUpdates
        <4>1. PICK c \in CallType : c = [call["service"][s] EXCEPT !.next = @ + 1]
                /\ c.pc = "project" /\ c.next = n + 1
          BY <3>1, <4>0
        <4>2. call' = [call EXCEPT !["service"][s] = c] /\ proc' = proc
          BY <2>4, <3>2, <3>6, <4>1 DEF NextEvent, IngestInv
        <4>3. c.next \in 1 .. Len(e)
          BY <3>5, <3>6, <4>1
        <4>4. Rebuilt(doc, Account(s - 1)) => Rebuilt(doc', Account(s - 1))
          BY <3>2, <3>4, <3>5, <3>6
        <4> QED
          BY <1>1, <1>4, <2>1, <3>1, <3>2, <3>3, <4>1, <4>2, <4>3, <4>4, CursorStays
      <3>7. CASE ~(n < Len(e))
        <4>1. n = Len(e) /\ Return("service", s)
          BY <3>2, <3>5, <3>7 DEF NextEvent
        <4> QED
          BY <1>1, <1>4, <2>1, <3>2, <3>3, <3>4, <4>1, CursorMoves
      <3> QED
        BY <3>6, <3>7
    <2> QED
      BY <2>6, <2>7, <2>8, <2>9, <2>10 DEF CallStep
  <1> QED
    BY <1>3, <1>4

LEMMA FirstRunNext ==
  ASSUME IngestInv, ChainInv, ProcInv, FirstRunInv, Next
  PROVE  FirstRunInv'
PROOF
  <1> SUFFICES ASSUME FirstRun' PROVE FirstRunInv'
    BY DEF FirstRunInv
  <1>1. FirstRun /\ ~Fault
    BY StillFirst
  <1>2. ProcInv' /\ "service" \in Procs
    BY ProcNext, IndexerAssumption
  <1>3. ASSUME NEW kind \in Kinds, Confirm(kind) PROVE FirstRunInv'
    <2>1. /\ Len(chain) \in Nat /\ \A n \in 1 .. Len(chain) : chain'[n] = chain[n]
          /\ \A n \in 0 .. Len(chain) : Account(n)' = Account(n)
      BY <1>3, ConfirmExtends DEF ChainInv
    <2>2. UNCHANGED <<proc, claimed, doc>> /\ (Live \/ call' = call)
      BY <1>3 DEF Confirm, mongo
    <2>3. CASE Backfilling("service")
      <3>0. PICK c : c = proc["service"].cursor
        OBVIOUS
      <3>1. call' = call
        BY <2>2, <2>3 DEF Live, Backfilling
      <3>2. c \in 1 .. Len(chain) + 1
        BY <1>2, <2>1, <2>3, <3>0 DEF ProcInv
      <3>3. c - 1 \in 0 .. Len(chain) /\ Account(c - 1)' = Account(c - 1)
        BY <2>1, <3>2
      <3>4. c \in Sigs /\ Applying("service", c) => c \in 1 .. Len(chain)
        BY <1>1, <1>2, <2>3, <3>0, OnlyService DEF Applying
      <3>5. CursorInv'
        BY <2>1, <2>2, <2>3, <3>0, <3>1, <3>4, <1>1 DEF FirstRunInv, CursorInv, Applying
      <3> QED
        BY <1>1, <2>2, <2>3, <3>0, <3>3, <3>5 DEF FirstRunInv, Backfilling
    <2>4. CASE ~Backfilling("service")
      BY <1>1, <2>2, <2>4 DEF FirstRunInv, Backfilling
    <2> QED
      BY <2>3, <2>4
  <1>4. ASSUME NEW s \in Sigs, Serve(s) PROVE FirstRunInv'
    BY <1>1, <1>4 DEF Serve, mongo, FirstRunInv, CursorInv, Applying, Backfilling, Account
  <1>5. ASSUME NEW p \in Procs, Start(p) PROVE FirstRunInv'
    <2>1. p = "service"
      <3>1. p # "service" => proc'[p].phase = "backfill"
        BY <1>5 DEF Start, ProcInv
      <3> QED
        BY <3>1 DEF FirstRun
    <2>2. proc["service"].phase = "down"
      BY <1>5, <2>1 DEF Start, ProcInv
    <2>3. claimed' = {} /\ doc' = NoDoc
      BY <1>1, <1>5, <2>2 DEF Start, FirstRunInv, mongo
    <2>4. proc'["service"].phase = "backfill" /\ proc'["service"].cursor = 1
      BY <1>2, <1>5, <2>1 DEF Start, ProcInv
    <2>5. call' = call /\ call["service"] = NoCalls
      BY <1>2, <1>5, <2>2 DEF Start, ProcInv
    <2>6. CursorInv'
      BY <2>3, <2>4, <2>5 DEF CursorInv, Applying, NoCalls, NoCall
    <2>7. NoDoc \in DocType /\ Rebuilt(NoDoc, NoAccount)
      BY DEF NoDoc, DocType, Rebuilt, NoAccount
    <2>8. Account(1 - 1)' = NoAccount
      BY DEF Account
    <2> QED
      BY <2>3, <2>4, <2>6, <2>7, <2>8 DEF FirstRunInv, Backfilling
  <1>6. ASSUME NEW p \in Procs, BackfillNext(p) PROVE FirstRunInv'
    <2>1. p = "service" /\ Backfilling("service")
      BY <1>1, <1>6 DEF BackfillNext, FirstRun, Backfilling
    <2> DEFINE s == proc["service"].cursor
    <2>2. s \in Sigs /\ s \in 1 .. Len(chain)
      BY <1>2, <1>6, <2>1, IndexerAssumption
         DEF BackfillNext, AllIndexed, ProcInv, ChainInv, Sigs
    <2>3. call["service"][s] = NoCall
          /\ call' = [call EXCEPT !["service"][s].pc = "fetch"]
      BY <1>6, <2>1 DEF BackfillNext, Listed
    <2>4. PICK c \in CallType : c = [NoCall EXCEPT !.pc = "fetch"] /\ c.pc = "fetch"
      <3>1. NoCall \in CallType
        BY DEF NoCall, CallType
      <3> QED
        BY <3>1, CallUpdates
    <2>5. call' = [call EXCEPT !["service"][s] = c]
      BY <1>2, <2>2, <2>3, <2>4 DEF IngestInv
    <2>6. s \notin claimed
      BY <1>1, <2>1, <2>2, <2>3 DEF FirstRunInv, CursorInv, Applying, NoCall
    <2>7. UNCHANGED <<chain, proc, doc, claimed>>
      BY <1>6 DEF BackfillNext, mongo
    <2>8. doc \in DocType
      BY <1>1, <2>1 DEF FirstRunInv
    <2> QED
      BY <1>1, <2>1, <2>2, <2>4, <2>5, <2>6, <2>7, <2>8, CursorStays
  <1>7. ASSUME NEW p \in Procs, FinishBackfill(p) PROVE FirstRunInv'
    <2>1. p = "service"
      BY <1>1, <1>7 DEF FinishBackfill, FirstRun, Backfilling
    <2>2. proc'["service"].phase = "live"
      BY <1>2, <1>7, <2>1 DEF FinishBackfill, ProcInv, Stopped
    <2> QED
      BY <2>2 DEF FirstRunInv, Backfilling
  <1>8. ASSUME NEW p \in Procs, NEW s \in Sigs, CallStep(p, s) PROVE FirstRunInv'
    BY <1>1, <1>2, <1>8, CallsFirst
  <1>9. ASSUME NEW n \in Passes, StartPass(n) \/ PassStep(n) PROVE FirstRunInv'
    <2>1. Live /\ proc' = proc
      BY <1>9 DEF StartPass, PassStep, ReadAccounts, WriteDocument, ProcInv
    <2> QED
      BY <2>1 DEF FirstRunInv, Live, Backfilling
  <1> QED
    BY <1>1, <1>3, <1>4, <1>5, <1>6, <1>7, <1>8, <1>9
       DEF Next, Crash, CallThrows, ProjectionFails, PassFails

\* The processes and the documents of the first run keep their invariant, however
\* long the chain and whatever confirms meanwhile.
THEOREM RebuildInductive == Spec => []RebuildInv
PROOF
  <1>1. Init => RebuildInv
    <2> SUFFICES ASSUME Init PROVE RebuildInv
      OBVIOUS
    <2>1. IngestInv
      BY DEF Init, IngestInv, NoCalls, NoCall, CallType, AppliedByOne, Applying
    <2>2. ChainInv
      BY HistoriesAssumption DEF Init, ChainInv
    <2>3. "service" \in Procs /\ Stopped.phase = "down"
          /\ Stopped \in [phase: Phases, listed: Nat, cursor: Nat]
      BY IndexerAssumption DEF Stopped, Phases
    <2>4. ProcInv
      BY <2>3 DEF Init, ProcInv, Backfilling, NoPasses, NoPass
    <2>5. FirstRunInv
      BY <2>3 DEF Init, FirstRunInv, Backfilling
    <2> QED
      BY <2>1, <2>2, <2>4, <2>5 DEF RebuildInv
  <1>2. RebuildInv /\ [Next]_vars => RebuildInv'
    <2>1. RebuildInv /\ UNCHANGED vars => RebuildInv'
      BY DEF RebuildInv, IngestInv, ChainInv, ProcInv, FirstRunInv, FirstRun, CursorInv,
             Account, vars, mongo, AppliedByOne, Applying, Backfilling, Live
    <2> QED
      BY <2>1, IngestNext, ChainNext, ProcNext, FirstRunNext DEF RebuildInv
  <1> QED
    BY <1>1, <1>2, PTL DEF Spec

\* backfill.ts:31: a first backfill that nothing disturbs applies the chain in its
\* causal order, so after each transaction the documents hold what the accounts held.
THEOREM BackfillSafe == Spec => []BackfillRebuilds
PROOF
  <1>1. RebuildInv => BackfillRebuilds
    BY DEF RebuildInv, FirstRunInv, FirstRun, BackfillRebuilds
  <1> QED
    BY <1>1, RebuildInductive, PTL
----------------------------------------------------------------------------
(* Ingestion implements the abstract delivery of events. *)

\* A call that applies a signature is at one of its events, and they are in the
\* events collection once it projects them.
EventsInv ==
  \A p \in Procs, s \in Sigs :
    /\ Applying(p, s) => Len(EventsOf(chain[s])) >= 1
    /\ call[p][s].pc = "project" =>
         s \in stored /\ call[p][s].next \in 1 .. Len(EventsOf(chain[s]))

\* A pass holds accounts the chain had.
PassInv ==
  /\ pass \in [Passes -> [at: 0 .. Len(Collections), seen: Nat]]
  /\ \A n \in Passes : pass[n].seen <= Len(chain) /\ (pass[n].seen > 0 => pass[n].at > 0)

\* No call begins to apply a signature or goes on with it.
OnlyDrops ==
  \A p \in Procs, s \in Sigs :
    Applying(p, s)' => Applying(p, s) /\ call'[p][s] = call[p][s]

\* The events of what is indexed stay what they are.
ClaimedStays == \A s \in claimed : s \in Sigs /\ chain'[s] = chain[s]

LEMMA OnlyMember ==
  ASSUME NEW S, NEW x \in S, \A y, z \in S : y = z
  PROVE  (CHOOSE y \in S : TRUE) = x
OBVIOUS

\* Where the signatures are, told without the choice of a call.
Placed ==
  \A s \in Sigs :
    /\ s \notin claimed => Position(s) = 0
    /\ s \in claimed /\ (\A p \in Procs : ~Applying(p, s)) =>
         Position(s) = Len(EventsOf(chain[s])) + 1
    /\ \A p \in Procs : Applying(p, s) =>
         /\ Position(s) = IF call[p][s].pc = "write" THEN 1 ELSE call[p][s].next
         /\ Position(s) \in 1 .. Len(EventsOf(chain[s]))

LEMMA Positions == IngestInv /\ EventsInv => Placed
PROOF
  <1> SUFFICES ASSUME IngestInv, EventsInv, NEW s \in Sigs
               PROVE  /\ s \notin claimed => Position(s) = 0
                      /\ s \in claimed /\ (\A p \in Procs : ~Applying(p, s)) =>
                           Position(s) = Len(EventsOf(chain[s])) + 1
                      /\ \A p \in Procs : Applying(p, s) =>
                           /\ Position(s) =
                                IF call[p][s].pc = "write" THEN 1 ELSE call[p][s].next
                           /\ Position(s) \in 1 .. Len(EventsOf(chain[s]))
    BY DEF Placed
  <1>1. ASSUME NEW p \in Procs, Applying(p, s)
        PROVE  /\ Position(s) = IF call[p][s].pc = "write" THEN 1 ELSE call[p][s].next
               /\ Position(s) \in 1 .. Len(EventsOf(chain[s]))
    <2>1. p \in Appliers(s) /\ s \in claimed /\ \A y, z \in Appliers(s) : y = z
      BY <1>1 DEF Appliers, IngestInv, AppliedByOne
    <2>2. (CHOOSE q \in Appliers(s) : TRUE) = p
      BY <2>1, OnlyMember
    <2>3. Position(s) = IF call[p][s].pc = "write" THEN 1 ELSE call[p][s].next
      BY <2>1, <2>2 DEF Position
    <2>4. Len(EventsOf(chain[s])) \in Nat
      BY EventsLength
    <2> QED
      BY <1>1, <2>3, <2>4 DEF EventsInv, Applying
  <1>2. (\A p \in Procs : ~Applying(p, s)) => Appliers(s) = {}
    BY DEF Appliers
  <1> QED
    BY <1>1, <1>2 DEF Position

\* Calls that only fetch, end or die leave the positions where they are, or put
\* them past the last event.
LEMMA AbandonStep ==
  ASSUME Placed, Placed', OnlyDrops, ClaimedStays,
         UNCHANGED <<chain, served, claimed, stored, doc>>
  PROVE  Delivery!Abandon
PROOF
  <1> DEFINE at == [s \in Sigs |-> Position(s)]
             S == {s \in Sigs : Position(s)' # Position(s)}
             over(s) == Len(EventsOf(chain[s])) + 1
  <1>1. ASSUME NEW s \in Sigs, Position(s)' # Position(s)
        PROVE  at[s] # 0 /\ at[s] < over(s) /\ Position(s)' = over(s)
    <2>1. s \in claimed
      BY <1>1 DEF Placed
    <2>2. PICK p \in Procs : Applying(p, s)
      BY <1>1, <2>1 DEF Placed, OnlyDrops
    <2>3. ASSUME NEW q \in Procs, Applying(q, s)' PROVE FALSE
      <3>1. Applying(q, s) /\ call'[q][s] = call[q][s]
        BY <2>3 DEF OnlyDrops
      <3> QED
        BY <1>1, <2>3, <3>1 DEF Placed
    <2>4. Len(EventsOf(chain[s])) \in Nat
      BY EventsLength
    <2>5. Position(s)' = over(s)
      BY <2>1, <2>3 DEF Placed
    <2> QED
      BY <2>2, <2>4, <2>5 DEF Placed
  <1>2. \A s \in S : at[s] # 0 /\ at[s] < over(s)
    BY <1>1
  <1>3. at' = [s \in Sigs |-> IF s \in S THEN over(s) ELSE at[s]]
    BY <1>1
  <1> QED
    BY <1>2, <1>3 DEF Delivery!Abandon, Delivery!Underway, Delivery!Over

\* The positions of signatures whose calls are as they were.
LEMMA PositionsStay ==
  ASSUME IngestInv, Placed, Placed', ClaimedStays, claimed' = claimed, NEW s \in Sigs,
         \A p \in Procs : /\ Applying(p, s)' <=> Applying(p, s)
                          /\ Applying(p, s) => call'[p][s] = call[p][s]
  PROVE  Position(s)' = Position(s)
PROOF
  <1>1. CASE s \notin claimed
    BY <1>1 DEF Placed
  <1>2. CASE s \in claimed /\ \E p \in Procs : Applying(p, s)
    BY <1>2 DEF Placed
  <1>3. CASE s \in claimed /\ \A p \in Procs : ~Applying(p, s)
    BY <1>3 DEF Placed, ClaimedStays
  <1> QED
    BY <1>1, <1>2, <1>3

LEMMA EventsStay ==
  ASSUME EventsInv, IngestInv, OnlyDrops, ClaimedStays, stored \subseteq stored'
  PROVE  EventsInv'
PROOF
  <1> SUFFICES ASSUME NEW p \in Procs, NEW s \in Sigs, Applying(p, s)'
               PROVE  /\ Len(EventsOf(chain'[s])) >= 1
                      /\ call'[p][s].pc = "project" =>
                           /\ s \in stored'
                           /\ call'[p][s].next \in 1 .. Len(EventsOf(chain'[s]))
    BY DEF EventsInv, Applying
  <1>1. Applying(p, s) /\ call'[p][s] = call[p][s]
    BY DEF OnlyDrops
  <1>2. s \in claimed
    BY <1>1 DEF IngestInv
  <1> QED
    BY <1>1, <1>2 DEF EventsInv, ClaimedStays

\* The steps of which the events and the documents see nothing but, perhaps, that a
\* call is gone.
Unseen ==
  \/ \E p \in Procs : Start(p) \/ BackfillNext(p) \/ FinishBackfill(p) \/ Crash(p)
  \/ \E p \in Procs, s \in Sigs : FetchNull(p, s) \/ FetchFound(p, s) \/ CallThrows(p, s)
  \/ \E p \in Procs, s \in Sigs : Claim(p, s) /\ ~FirstClaim(s)
  \/ \E n \in Passes : StartPass(n) \/ ReadAccounts(n) \/ PassFails(n)

LEMMA HarmlessDrops == ASSUME Harmless PROVE OnlyDrops
BY DEF Harmless, OnlyDrops, Applying

LEMMA UnseenDrops ==
  ASSUME IngestInv, Unseen
  PROVE  OnlyDrops /\ UNCHANGED <<chain, served, claimed, stored, doc>>
PROOF
  <1>1. ASSUME NEW p \in Procs, Start(p) \/ FinishBackfill(p)
        PROVE  OnlyDrops /\ UNCHANGED <<chain, served, claimed, stored, doc>>
    BY <1>1 DEF Start, FinishBackfill, OnlyDrops, Applying, mongo
  <1>2. ASSUME NEW p \in Procs, BackfillNext(p)
        PROVE  OnlyDrops /\ UNCHANGED <<chain, served, claimed, stored, doc>>
    <2>1. call' = [call EXCEPT ![p][Listed(p)].pc = "fetch"]
          /\ UNCHANGED <<chain, served, claimed, stored, doc>>
      BY <1>2 DEF BackfillNext, mongo
    <2>2. \A q \in Procs, t \in Sigs :
            call'[q][t] = call[q][t] \/ call'[q][t].pc = "fetch"
      BY <2>1 DEF IngestInv, CallType
    <2> QED
      BY <2>1, <2>2 DEF OnlyDrops, Applying
  <1>3. ASSUME NEW p \in Procs, Crash(p)
        PROVE  OnlyDrops /\ UNCHANGED <<chain, served, claimed, stored, doc>>
    <2>1. Exit(p) /\ UNCHANGED <<chain, served, claimed, stored, doc>>
      BY <1>3 DEF Crash, mongo
    <2> QED
      BY <2>1, ExitForgets, HarmlessDrops
  <1>4. ASSUME NEW p \in Procs, NEW s \in Sigs, FetchNull(p, s)
        PROVE  OnlyDrops /\ UNCHANGED <<chain, served, claimed, stored, doc>>
    <2>1. call' = [call EXCEPT ![p][s] = NoCall]
          /\ UNCHANGED <<chain, served, claimed, stored, doc>>
      BY <1>4 DEF FetchNull, Return, mongo
    <2> QED
      BY <2>1, ReturnForgets, HarmlessDrops
  <1>5. ASSUME NEW p \in Procs, NEW s \in Sigs, FetchFound(p, s)
        PROVE  OnlyDrops /\ UNCHANGED <<chain, served, claimed, stored, doc>>
    <2>1. call' = [call EXCEPT ![p][s].pc = "claim"]
          /\ UNCHANGED <<chain, served, claimed, stored, doc>>
      BY <1>5 DEF FetchFound, mongo
    <2>2. \A q \in Procs, t \in Sigs :
            call'[q][t] = call[q][t] \/ call'[q][t].pc = "claim"
      BY <2>1 DEF IngestInv, CallType
    <2> QED
      BY <2>1, <2>2 DEF OnlyDrops, Applying
  <1>6. ASSUME NEW p \in Procs, NEW s \in Sigs, CallThrows(p, s)
        PROVE  OnlyDrops /\ UNCHANGED <<chain, served, claimed, stored, doc>>
    <2>1. /\ Exit(p) \/ call' = [call EXCEPT ![p][s] = NoCall]
          /\ UNCHANGED <<chain, served, claimed, stored, doc>>
      BY <1>6 DEF CallThrows, mongo
    <2> QED
      BY <2>1, ReturnForgets, ExitForgets, HarmlessDrops
  <1>7. ASSUME NEW p \in Procs, NEW s \in Sigs, Claim(p, s), ~FirstClaim(s)
        PROVE  OnlyDrops /\ UNCHANGED <<chain, served, claimed, stored, doc>>
    <2>1. call' = [call EXCEPT ![p][s] = NoCall] /\ s \in claimed
          /\ claimed' = claimed \cup {s} /\ UNCHANGED <<chain, served, stored, doc>>
      BY <1>7 DEF Claim, Return, FirstClaim
    <2>2. claimed' = claimed
      BY <2>1
    <2> QED
      BY <2>1, <2>2, ReturnForgets, HarmlessDrops
  <1>8. ASSUME NEW n \in Passes, StartPass(n) \/ ReadAccounts(n) \/ PassFails(n)
        PROVE  OnlyDrops /\ UNCHANGED <<chain, served, claimed, stored, doc>>
    BY <1>8 DEF StartPass, ReadAccounts, PassFails, OnlyDrops, Applying, mongo
  <1> QED
    BY <1>1, <1>2, <1>3, <1>4, <1>5, <1>6, <1>7, <1>8 DEF Unseen

\* What Next is, told by what the events see of it.
LEMMA NextSeen ==
  ASSUME Next
  PROVE  \/ Unseen
         \/ \E kind \in Kinds : Confirm(kind)
         \/ \E s \in Sigs : Serve(s)
         \/ \E p \in Procs, s \in Sigs :
              \/ Claim(p, s) /\ FirstClaim(s)
              \/ WriteEvents(p, s) \/ ProjectEvent(p, s) \/ ProjectionFails(p, s)
         \/ \E n \in Passes : WriteDocument(n)
BY DEF Next, CallStep, PassStep, Unseen

\* The chain only grows past what is indexed.
LEMMA ClaimedAreStable ==
  ASSUME IngestInv, ChainInv, Next
  PROVE  ClaimedStays
PROOF
  <1>1. \A s \in claimed : s \in 1 .. Len(chain) /\ s \in Sigs
    BY IndexerAssumption DEF IngestInv, ChainInv, Sigs
  <1>2. ASSUME NEW kind \in Kinds, Confirm(kind) PROVE ClaimedStays
    BY <1>1, <1>2, ConfirmExtends DEF ClaimedStays
  <1>3. CASE chain' = chain
    BY <1>1, <1>3 DEF ClaimedStays
  <1> QED
    BY <1>2, <1>3, NextSeen, UnseenDrops
       DEF Serve, Claim, WriteEvents, ProjectEvent, ProjectionFails, WriteDocument, mongo

\* One call of a signature moved on; no other call applies that signature.
LEMMA OneMoves ==
  ASSUME IngestInv, IngestInv', NEW p \in Procs, NEW s \in Sigs, NEW c \in CallType,
         call' = [call EXCEPT ![p][s] = c]
  PROVE  /\ call'[p][s] = c
         /\ \A q \in Procs, t \in Sigs : ~(q = p /\ t = s) => call'[q][t] = call[q][t]
         /\ Applying(p, s)' => \A q \in Procs : Applying(q, s)' => q = p
BY DEF IngestInv, AppliedByOne

\* What the steps the events see do to the call and the collections.
LEMMA SeenCalls ==
  ASSUME IngestInv, NEW p \in Procs, NEW s \in Sigs
  PROVE  /\ Claim(p, s) /\ FirstClaim(s) =>
              \E c \in CallType :
                /\ call' = [call EXCEPT ![p][s] = c]
                /\ IF EventsOf(chain[s]) # <<>> THEN c.pc = "write" ELSE c.pc = "idle"
                /\ s \in served /\ s \notin claimed /\ claimed' = claimed \cup {s}
                /\ UNCHANGED <<chain, served, stored, doc, pass>>
         /\ WriteEvents(p, s) =>
              \E c \in CallType :
                /\ call' = [call EXCEPT ![p][s] = c]
                /\ call[p][s].pc = "write" /\ c.pc = "project" /\ c.next = 1
                /\ stored' = stored \cup {s}
                /\ UNCHANGED <<chain, served, claimed, doc, pass>>
         /\ ProjectEvent(p, s) \/ ProjectionFails(p, s) =>
              \E c \in CallType :
                /\ call' = [call EXCEPT ![p][s] = c]
                /\ call[p][s].pc = "project"
                /\ IF call[p][s].next < Len(EventsOf(chain[s]))
                   THEN c.pc = "project" /\ c.next = call[p][s].next + 1
                   ELSE c.pc = "idle"
                /\ doc' \in {doc, Projected(doc, EventsOf(chain[s])[call[p][s].next],
                                            chain[s].after)}
                /\ UNCHANGED <<chain, served, claimed, stored, pass>>
PROOF
  <1>0. NoCall \in CallType /\ NoCall.pc = "idle" /\ call[p][s] \in CallType
    BY DEF NoCall, CallType, IngestInv
  <1>1. ASSUME Claim(p, s), FirstClaim(s)
        PROVE  \E c \in CallType :
                 /\ call' = [call EXCEPT ![p][s] = c]
                 /\ IF EventsOf(chain[s]) # <<>> THEN c.pc = "write" ELSE c.pc = "idle"
                 /\ s \in served /\ s \notin claimed /\ claimed' = claimed \cup {s}
                 /\ UNCHANGED <<chain, served, stored, doc, pass>>
    <2>1. s \in served /\ s \notin claimed /\ claimed' = claimed \cup {s}
          /\ UNCHANGED <<chain, served, stored, doc, pass>>
      BY <1>1 DEF Claim, FirstClaim, IngestInv
    <2>2. CASE EventsOf(chain[s]) # <<>>
      <3>1. [call[p][s] EXCEPT !.pc = "write"] \in CallType
            /\ [call[p][s] EXCEPT !.pc = "write"].pc = "write"
        BY <1>0, CallUpdates
      <3>2. call' = [call EXCEPT ![p][s] = [call[p][s] EXCEPT !.pc = "write"]]
        BY <1>1, <2>2 DEF Claim
      <3> QED
        BY <2>1, <2>2, <3>1, <3>2
    <2>3. CASE EventsOf(chain[s]) = <<>>
      BY <1>0, <1>1, <2>1, <2>3 DEF Claim, Return
    <2> QED
      BY <2>2, <2>3
  <1>2. ASSUME WriteEvents(p, s)
        PROVE  \E c \in CallType :
                 /\ call' = [call EXCEPT ![p][s] = c]
                 /\ call[p][s].pc = "write" /\ c.pc = "project" /\ c.next = 1
                 /\ stored' = stored \cup {s}
                 /\ UNCHANGED <<chain, served, claimed, doc, pass>>
    <2>1. [pc |-> "project", next |-> 1] \in CallType
      BY DEF CallType
    <2> QED
      BY <1>2, <2>1 DEF WriteEvents
  <1>3. ASSUME ProjectEvent(p, s) \/ ProjectionFails(p, s)
        PROVE  \E c \in CallType :
                 /\ call' = [call EXCEPT ![p][s] = c]
                 /\ call[p][s].pc = "project"
                 /\ IF call[p][s].next < Len(EventsOf(chain[s]))
                    THEN c.pc = "project" /\ c.next = call[p][s].next + 1
                    ELSE c.pc = "idle"
                 /\ doc' \in {doc, Projected(doc, EventsOf(chain[s])[call[p][s].next],
                                             chain[s].after)}
                 /\ UNCHANGED <<chain, served, claimed, stored, pass>>
    <2>1. /\ call[p][s].pc = "project" /\ NextEvent(p, s)
          /\ doc' \in {doc, Projected(doc, EventsOf(chain[s])[call[p][s].next],
                                      chain[s].after)}
          /\ UNCHANGED <<chain, served, claimed, stored, pass>>
      BY <1>3 DEF ProjectEvent, ProjectionFails, mongo
    <2>2. CASE call[p][s].next < Len(EventsOf(chain[s]))
      <3> DEFINE c == [call[p][s] EXCEPT !.next = @ + 1]
      <3>1. c \in CallType /\ c.pc = "project" /\ c.next = call[p][s].next + 1
        BY <1>0, <2>1, CallUpdates
      <3>2. call' = [call EXCEPT ![p][s] = c]
        BY <2>1, <2>2 DEF NextEvent
      <3> HIDE DEF c
      <3> QED
        BY <2>1, <2>2, <3>1, <3>2
    <2>3. CASE ~(call[p][s].next < Len(EventsOf(chain[s])))
      BY <1>0, <2>1, <2>3 DEF NextEvent, Return
    <2> QED
      BY <2>2, <2>3
  <1> QED
    BY <1>1, <1>2, <1>3

\* A call that moved on is at an event, and the others were not touched.
LEMMA EventsMove ==
  ASSUME EventsInv, IngestInv, IngestInv', ClaimedStays, NEW p \in Procs, NEW s \in Sigs,
         NEW c \in CallType, call' = [call EXCEPT ![p][s] = c], stored \subseteq stored',
         c.pc \in {"write", "project"} => Len(EventsOf(chain[s])) >= 1,
         c.pc = "project" => s \in stored' /\ c.next \in 1 .. Len(EventsOf(chain[s])),
         chain' = chain
  PROVE  EventsInv'
PROOF
  <1>1. call'[p][s] = c
        /\ \A q \in Procs, t \in Sigs : ~(q = p /\ t = s) => call'[q][t] = call[q][t]
    BY DEF IngestInv
  <1> SUFFICES ASSUME NEW q \in Procs, NEW t \in Sigs
               PROVE  /\ Applying(q, t)' => Len(EventsOf(chain[t])) >= 1
                      /\ call'[q][t].pc = "project" =>
                           /\ t \in stored'
                           /\ call'[q][t].next \in 1 .. Len(EventsOf(chain[t]))
    BY DEF EventsInv
  <1>2. CASE q = p /\ t = s
    BY <1>1, <1>2 DEF Applying
  <1>3. CASE ~(q = p /\ t = s)
    BY <1>1, <1>3 DEF EventsInv, Applying
  <1> QED
    BY <1>2, <1>3

LEMMA EventsNext ==
  ASSUME EventsInv, IngestInv, IngestInv', ChainInv, Next
  PROVE  EventsInv'
PROOF
  <1>0. ClaimedStays
    BY ClaimedAreStable
  <1>1. CASE Unseen
    BY <1>0, <1>1, UnseenDrops, EventsStay
  <1>2. ASSUME NEW kind \in Kinds, Confirm(kind) PROVE EventsInv'
    <2>1. \/ call' = call
          \/ call' = [call EXCEPT !["service"][Len(chain) + 1].pc = "fetch"]
      BY <1>2 DEF Confirm
    <2>2. OnlyDrops
      BY <2>1, IndexerAssumption, FetchStarts, HarmlessDrops DEF OnlyDrops, Applying
    <2>3. stored' = stored
      BY <1>2 DEF Confirm, mongo
    <2> QED
      BY <1>0, <2>2, <2>3, EventsStay
  <1>3. ASSUME NEW s \in Sigs, Serve(s) PROVE EventsInv'
    BY <1>0, <1>3 DEF Serve, mongo, EventsInv, Applying
  <1>4. ASSUME NEW n \in Passes, WriteDocument(n) PROVE EventsInv'
    BY <1>4 DEF WriteDocument, EventsInv, Applying
  <1>5. ASSUME NEW p \in Procs, NEW s \in Sigs,
               \/ Claim(p, s) /\ FirstClaim(s)
               \/ WriteEvents(p, s) \/ ProjectEvent(p, s) \/ ProjectionFails(p, s)
        PROVE  EventsInv'
    <2>0. Len(EventsOf(chain[s])) \in Nat
          /\ (EventsOf(chain[s]) # <<>> => Len(EventsOf(chain[s])) >= 1)
      BY EventsLength
    <2>1. CASE Claim(p, s) /\ FirstClaim(s)
      <3>1. PICK c \in CallType :
              /\ call' = [call EXCEPT ![p][s] = c]
              /\ IF EventsOf(chain[s]) # <<>> THEN c.pc = "write" ELSE c.pc = "idle"
              /\ UNCHANGED <<chain, stored>>
        BY <2>1, SeenCalls
      <3> QED
        BY <1>0, <2>0, <3>1, EventsMove
    <2>2. CASE WriteEvents(p, s)
      <3>1. PICK c \in CallType :
              /\ call' = [call EXCEPT ![p][s] = c]
              /\ call[p][s].pc = "write" /\ c.pc = "project" /\ c.next = 1
              /\ stored' = stored \cup {s} /\ chain' = chain
        BY <2>2, SeenCalls
      <3>2. Len(EventsOf(chain[s])) >= 1
        BY <3>1 DEF EventsInv, Applying
      <3>3. stored \subseteq stored' /\ c.next \in 1 .. Len(EventsOf(chain[s])) /\ s \in stored'
        BY <2>0, <3>1, <3>2
      <3> QED
        BY <1>0, <3>1, <3>2, <3>3, EventsMove, Zenon
    <2>3. CASE ProjectEvent(p, s) \/ ProjectionFails(p, s)
      <3>1. PICK c \in CallType :
              /\ call' = [call EXCEPT ![p][s] = c]
              /\ call[p][s].pc = "project"
              /\ IF call[p][s].next < Len(EventsOf(chain[s]))
                 THEN c.pc = "project" /\ c.next = call[p][s].next + 1
                 ELSE c.pc = "idle"
              /\ UNCHANGED <<chain, stored>>
        BY <2>3, SeenCalls
      <3>2. s \in stored /\ call[p][s].next \in 1 .. Len(EventsOf(chain[s]))
            /\ Len(EventsOf(chain[s])) >= 1
        BY <3>1 DEF EventsInv, Applying
      <3>3. c.pc = "project" => c.next \in 1 .. Len(EventsOf(chain[s]))
        BY <2>0, <3>1, <3>2
      <3>4. stored \subseteq stored' /\ s \in stored'
        BY <3>1, <3>2
      <3> QED
        BY <1>0, <3>1, <3>2, <3>3, <3>4, EventsMove, Zenon
    <2> QED
      BY <1>5, <2>1, <2>2, <2>3
  <1> QED
    BY <1>1, <1>2, <1>3, <1>4, <1>5, NextSeen

LEMMA PassNext ==
  ASSUME PassInv, ChainInv, Next
  PROVE  PassInv'
PROOF
  <1>0. Len(chain) \in Nat /\ Len(Collections) = 3
    BY DEF ChainInv, Collections
  <1>1. ASSUME NEW kind \in Kinds, Confirm(kind) PROVE PassInv'
    <2>1. Len(chain') = Len(chain) + 1 /\ pass' = pass
      BY <1>1, ConfirmExtends DEF Confirm
    <2> QED
      BY <1>0, <2>1 DEF PassInv
  <1>2. NoPass \in [at : 0 .. 3, seen : Nat] /\ NoPass.seen = 0
    BY DEF NoPass
  <1>3. ASSUME pass' \in {pass, NoPasses}, chain' = chain PROVE PassInv'
    BY <1>0, <1>2, <1>3 DEF PassInv, NoPasses
  <1>4. ASSUME NEW n \in Passes, NEW q \in [at : 0 .. 3, seen : Nat], chain' = chain,
               pass' = [pass EXCEPT ![n] = q],
               q.seen = 0 \/ (q.seen = Len(chain) /\ q.at > 0)
        PROVE  PassInv'
    BY <1>0, <1>4 DEF PassInv
  <1>5. ASSUME NEW n \in Passes, StartPass(n) \/ ReadAccounts(n) \/ WriteDocument(n) \/ PassFails(n)
        PROVE  PassInv'
    <2>0. pass[n] \in [at : 0 .. 3, seen : Nat] /\ chain' = chain
      BY <1>0, <1>5 DEF PassInv, StartPass, ReadAccounts, WriteDocument, PassFails
    <2>1. CASE StartPass(n)
      <3> DEFINE q == [pass[n] EXCEPT !.at = 1]
      <3>1. q \in [at : 0 .. 3, seen : Nat] /\ q.seen = 0 /\ pass' = [pass EXCEPT ![n] = q]
        BY <1>2, <2>0, <2>1 DEF StartPass, NoPass
      <3> HIDE DEF q
      <3> QED
        BY <1>4, <2>0, <3>1, Zenon
    <2>2. CASE ReadAccounts(n)
      <3> DEFINE q == [pass[n] EXCEPT !.seen = Len(chain)]
      <3>1. q \in [at : 0 .. 3, seen : Nat] /\ q.seen = Len(chain) /\ q.at > 0
            /\ pass' = [pass EXCEPT ![n] = q]
        BY <1>0, <2>0, <2>2 DEF ReadAccounts
      <3> HIDE DEF q
      <3> QED
        BY <1>4, <2>0, <3>1, Zenon
    <2>3. CASE WriteDocument(n)
      <3>1. CASE pass[n].at < Len(Collections)
        <4> DEFINE q == [at |-> pass[n].at + 1, seen |-> 0]
        <4>1. q \in [at : 0 .. 3, seen : Nat] /\ q.seen = 0 /\ pass' = [pass EXCEPT ![n] = q]
          BY <1>0, <2>0, <2>3, <3>1 DEF WriteDocument
        <4> HIDE DEF q
        <4> QED
          BY <1>4, <2>0, <4>1, Zenon
      <3>2. CASE ~(pass[n].at < Len(Collections))
        BY <1>2, <1>4, <2>0, <2>3, <3>2, Zenon DEF WriteDocument
      <3> QED
        BY <3>1, <3>2
    <2>4. CASE PassFails(n)
      BY <1>2, <1>4, <2>0, <2>4, Zenon DEF PassFails
    <2> QED
      BY <1>5, <2>1, <2>2, <2>3, <2>4
  <1>6. ASSUME ~(\E n \in Passes : StartPass(n) \/ ReadAccounts(n) \/ WriteDocument(n)
                                   \/ PassFails(n)),
               ~(\E kind \in Kinds : Confirm(kind))
        PROVE  pass' \in {pass, NoPasses} /\ chain' = chain
    BY <1>6 DEF Next, CallStep, PassStep, Serve, Start, BackfillNext, FinishBackfill, Crash,
       CallThrows, ProjectionFails, FetchNull, FetchFound, Claim, WriteEvents, ProjectEvent, Exit
  <1> QED
    BY <1>1, <1>3, <1>5, <1>6

\* Taking a signature up, or moving on with it, is a step of that signature alone.
LEMMA OthersStay ==
  ASSUME IngestInv, IngestInv', Placed, Placed', ClaimedStays, NEW p \in Procs,
         NEW s \in Sigs, NEW c \in CallType, call' = [call EXCEPT ![p][s] = c],
         claimed' \in {claimed, claimed \cup {s}}
  PROVE  \A t \in Sigs : t # s => Position(t)' = Position(t)
PROOF
  <1> SUFFICES ASSUME NEW t \in Sigs, t # s
               PROVE  Position(t)' = Position(t)
    OBVIOUS
  <1>1. \A q \in Procs : call'[q][t] = call[q][t]
    BY DEF IngestInv
  <1>2. t \in claimed' <=> t \in claimed
    OBVIOUS
  <1>3. CASE t \notin claimed
    BY <1>2, <1>3 DEF Placed
  <1>4. CASE t \in claimed /\ \E q \in Procs : Applying(q, t)
    <2>1. PICK q \in Procs : Applying(q, t)
      BY <1>4
    <2>2. Applying(q, t)' /\ call'[q][t] = call[q][t]
      BY <1>1, <2>1 DEF Applying
    <2> QED
      BY <2>1, <2>2 DEF Placed
  <1>5. CASE t \in claimed /\ \A q \in Procs : ~Applying(q, t)
    <2>1. \A q \in Procs : ~Applying(q, t)'
      BY <1>1, <1>5 DEF Applying
    <2>2. chain'[t] = chain[t]
      BY <1>5 DEF ClaimedStays
    <2> QED
      BY <1>2, <1>5, <2>1, <2>2 DEF Placed
  <1> QED
    BY <1>3, <1>4, <1>5

\* Every step of the indexer is a step of the abstract delivery or a stutter.
LEMMA DeliveryStep ==
  ASSUME IngestInv, IngestInv', ChainInv, EventsInv, PassInv, Placed, Placed', Next
  PROVE  Delivery!Next
PROOF
  <1> DEFINE at == [s \in Sigs |-> Position(s)]
  <1>0. ClaimedStays
    BY ClaimedAreStable
  <1>1. CASE Unseen
    <2>1. Delivery!Abandon
      BY <1>0, <1>1, UnseenDrops, AbandonStep
    <2> QED
      BY <2>1 DEF Delivery!Next
  <1>2. ASSUME NEW kind \in Kinds, Confirm(kind) PROVE Delivery!Next
    <2>1. UNCHANGED <<served, claimed, stored, doc>> /\ Len(chain) \in Nat
          /\ chain' = Append(chain, [kind |-> kind, after |-> After(kind, Account(Len(chain)))])
      BY <1>2 DEF Confirm, mongo, ChainInv
    <2>2. \/ call' = call
          \/ call' = [call EXCEPT !["service"][Len(chain) + 1].pc = "fetch"]
      BY <1>2 DEF Confirm
    <2>3. OnlyDrops
      BY <2>2, IndexerAssumption, FetchStarts, HarmlessDrops DEF OnlyDrops, Applying
    <2>4. ASSUME NEW s \in Sigs, NEW p \in Procs, Applying(p, s)
          PROVE  Applying(p, s)' /\ call'[p][s] = call[p][s]
      <3>1. s \in 1 .. Len(chain)
        BY <2>4 DEF IngestInv, ChainInv
      <3>2. call'[p][s] = call[p][s]
        BY <2>1, <2>2, <3>1 DEF IngestInv
      <3> QED
        BY <2>4, <3>2 DEF Applying
    <2>5. ASSUME NEW s \in Sigs PROVE Position(s)' = Position(s)
      BY <1>0, <2>1, <2>3, <2>4, PositionsStay DEF OnlyDrops
    <2>6. at' = at
      BY <2>5
    <2>7. chain' = Append(chain, chain'[Len(chain')])
      <3>1. chain \in Seq([kind: TxKinds, after: Accounts])
        BY DEF ChainInv, Executed
      <3> QED
        BY <2>1, <3>1
    <2> QED
      BY <2>1, <2>6, <2>7 DEF Delivery!Next, Delivery!Confirm
  <1>3. ASSUME NEW s \in Sigs, Serve(s) PROVE Delivery!Next
    <2>1. s \in 1 .. Len(chain) /\ served' = served \cup {s}
          /\ UNCHANGED <<chain, call, claimed, stored, doc>>
      BY <1>3 DEF Serve, mongo, ChainInv, Sigs
    <2>2. \A t \in Sigs, p \in Procs : Applying(p, t)' <=> Applying(p, t)
      BY <2>1 DEF Applying
    <2>3. ASSUME NEW t \in Sigs PROVE Position(t)' = Position(t)
      BY <1>0, <2>1, <2>2, PositionsStay
    <2>4. at' = at
      BY <2>3
    <2> QED
      BY <2>1, <2>4 DEF Delivery!Next, Delivery!Serve
  <1>4. ASSUME NEW n \in Passes, WriteDocument(n) PROVE Delivery!Next
    <2>1. /\ doc' = Overwritten(doc, Collections[pass[n].at], Account(pass[n].seen))
          /\ UNCHANGED <<chain, served, call, claimed, stored>>
      BY <1>4 DEF WriteDocument
    <2>2. pass[n].at \in 1 .. Len(Collections) /\ pass[n].seen \in 1 .. Len(chain)
      BY <1>4 DEF WriteDocument, PassInv, Collections, ChainInv
    <2>3. Account(pass[n].seen) = chain[pass[n].seen].after
      BY <2>2 DEF Account, ChainInv
    <2>4. \A t \in Sigs, p \in Procs : Applying(p, t)' <=> Applying(p, t)
      BY <2>1 DEF Applying
    <2>5. ASSUME NEW t \in Sigs PROVE Position(t)' = Position(t)
      BY <1>0, <2>1, <2>4, PositionsStay
    <2>6. at' = at
      BY <2>5
    <2> QED
      BY <2>1, <2>2, <2>3, <2>6 DEF Delivery!Next, Delivery!Overwrite
  <1>5. ASSUME NEW p \in Procs, NEW s \in Sigs, Claim(p, s), FirstClaim(s)
        PROVE  Delivery!Next
    <2>1. PICK c \in CallType :
            /\ call' = [call EXCEPT ![p][s] = c]
            /\ IF EventsOf(chain[s]) # <<>> THEN c.pc = "write" ELSE c.pc = "idle"
            /\ s \in served /\ s \notin claimed /\ claimed' = claimed \cup {s}
            /\ UNCHANGED <<chain, served, stored, doc, pass>>
      BY <1>5, SeenCalls
    <2>2. call'[p][s] = c
      BY <2>1 DEF IngestInv
    <2>3. \A t \in Sigs : t # s => Position(t)' = Position(t)
      <3>1. claimed' \in {claimed, claimed \cup {s}}
        BY <2>1
      <3> QED
        BY <1>0, <2>1, <3>1, OthersStay, Zenon
    <2>4. Position(s) = 0
      BY <2>1 DEF Placed
    <2>5. Position(s)' = 1
      <3>1. CASE EventsOf(chain[s]) # <<>>
        BY <2>1, <2>2, <3>1 DEF Placed, Applying
      <3>2. CASE EventsOf(chain[s]) = <<>>
        <4>1. \A q \in Procs : ~Applying(q, s)
          BY <2>1 DEF IngestInv
        <4>2. \A q \in Procs : ~Applying(q, s)'
          BY <2>1, <2>2, <3>2, <4>1 DEF Applying, IngestInv
        <4>3. Position(s)' = Len(EventsOf(chain[s])) + 1
          BY <2>1, <4>2 DEF Placed
        <4> QED
          BY <3>2, <4>3
      <3> QED
        BY <3>1, <3>2
    <2>6. at' = [at EXCEPT ![s] = 1]
      BY <2>3, <2>5
    <2>7. Delivery!Take(s)
      BY <2>1, <2>4, <2>6 DEF Delivery!Take
    <2> QED
      BY <2>7 DEF Delivery!Next
  <1>6. ASSUME NEW p \in Procs, NEW s \in Sigs, WriteEvents(p, s) PROVE Delivery!Next
    <2>1. PICK c \in CallType :
            /\ call' = [call EXCEPT ![p][s] = c]
            /\ call[p][s].pc = "write" /\ c.pc = "project" /\ c.next = 1
            /\ stored' = stored \cup {s}
            /\ UNCHANGED <<chain, served, claimed, doc, pass>>
      BY <1>6, SeenCalls
    <2>2. call'[p][s] = c
      BY <2>1 DEF IngestInv
    <2>3. \A t \in Sigs : t # s => Position(t)' = Position(t)
      <3>1. claimed' \in {claimed, claimed \cup {s}}
        BY <2>1
      <3> QED
        BY <1>0, <2>1, <3>1, OthersStay, Zenon
    <2>4. Position(s) = 1 /\ 1 <= Len(EventsOf(chain[s])) /\ s \notin stored
      BY <2>1 DEF Placed, Applying, EventsInv, IngestInv, AppliedByOne
    <2>5. Position(s)' = 1
      BY <2>1, <2>2 DEF Placed, Applying
    <2>6. at' = at
      BY <2>3, <2>4, <2>5
    <2>7. Len(EventsOf(chain[s])) \in Nat
      BY EventsLength
    <2>8. Delivery!Store(s)
      BY <2>1, <2>4, <2>6, <2>7 DEF Delivery!Store, Delivery!Underway, Delivery!Over
    <2> QED
      BY <2>8 DEF Delivery!Next
  <1>7. ASSUME NEW p \in Procs, NEW s \in Sigs, ProjectEvent(p, s) \/ ProjectionFails(p, s)
        PROVE  Delivery!Next
    <2> DEFINE k == call[p][s].next
    <2>1. PICK c \in CallType :
            /\ call' = [call EXCEPT ![p][s] = c]
            /\ call[p][s].pc = "project"
            /\ IF k < Len(EventsOf(chain[s]))
               THEN c.pc = "project" /\ c.next = k + 1
               ELSE c.pc = "idle"
            /\ doc' \in {doc, Projected(doc, EventsOf(chain[s])[k], chain[s].after)}
            /\ UNCHANGED <<chain, served, claimed, stored, pass>>
      BY <1>7, SeenCalls
    <2>2. call'[p][s] = c
      BY <2>1 DEF IngestInv
    <2>3. \A t \in Sigs : t # s => Position(t)' = Position(t)
      <3>1. claimed' \in {claimed, claimed \cup {s}}
        BY <2>1
      <3> QED
        BY <1>0, <2>1, <3>1, OthersStay, Zenon
    <2>4. s \in stored /\ s \in claimed /\ Position(s) = k /\ k \in 1 .. Len(EventsOf(chain[s]))
          /\ \A q \in Procs : Applying(q, s) => q = p
      BY <2>1 DEF Placed, Applying, EventsInv, IngestInv, AppliedByOne
    <2>5. Position(s)' = k + 1
      <3>1. CASE k < Len(EventsOf(chain[s]))
        BY <2>1, <2>2, <3>1 DEF Placed, Applying
      <3>2. CASE ~(k < Len(EventsOf(chain[s])))
        <4>1. \A q \in Procs : ~Applying(q, s)'
          BY <2>1, <2>2, <2>4, <3>2 DEF Applying, IngestInv
        <4>2. Position(s)' = Len(EventsOf(chain[s])) + 1
          BY <2>1, <2>4, <4>1 DEF Placed
        <4>3. Len(EventsOf(chain[s])) \in Nat
          BY EventsLength
        <4> QED
          BY <2>4, <3>2, <4>2, <4>3
      <3> QED
        BY <3>1, <3>2
    <2>6. at' = [at EXCEPT ![s] = @ + 1]
      BY <2>3, <2>4, <2>5
    <2>7. Len(EventsOf(chain[s])) \in Nat
      BY EventsLength
    <2>8. s \in Delivery!Underway
      BY <2>4, <2>7 DEF Delivery!Underway, Delivery!Over
    <2>9. Delivery!Apply(s)
      BY <2>1, <2>4, <2>6, <2>8 DEF Delivery!Apply
    <2> QED
      BY <2>9 DEF Delivery!Next
  <1> QED
    BY <1>1, <1>2, <1>3, <1>4, <1>5, <1>6, <1>7, NextSeen

\* Whatever interleaves and fails, ingestion (ingest.ts) delivers the events of a
\* transaction in order, each at most once, and nothing but accounts of the chain
\* changes the documents otherwise.
THEOREM DeliveryRefined == Spec => ImplementsDelivery
PROOF
  <1>1. Init => EventsInv /\ PassInv
    BY DEF Init, NoCalls, NoCall, NoPasses, NoPass, EventsInv, PassInv, Applying, Collections
  <1>2. IngestInv /\ IngestInv' /\ ChainInv /\ EventsInv /\ PassInv /\ [Next]_vars
          => EventsInv' /\ PassInv'
    <2>1. ASSUME UNCHANGED vars, EventsInv, PassInv PROVE EventsInv' /\ PassInv'
      BY <2>1 DEF vars, mongo, EventsInv, PassInv, Applying
    <2> QED
      BY <2>1, EventsNext, PassNext
  <1>3. Init => Delivery!Init
    BY DEF Init, Delivery!Init, Position
  <1>4. /\ IngestInv /\ IngestInv' /\ ChainInv /\ EventsInv /\ PassInv
        /\ Placed /\ Placed' /\ [Next]_vars
        => [Delivery!Next]_(Delivery!vars)
    <2>1. UNCHANGED vars => UNCHANGED Delivery!vars
      BY DEF vars, mongo, Delivery!vars, Position, Appliers, Applying
    <2> QED
      BY <2>1, DeliveryStep
  <1>5. RebuildInv => IngestInv /\ ChainInv
    BY DEF RebuildInv
  <1>6. IngestInv /\ EventsInv => Placed
    BY Positions
  <1> QED
    BY <1>1, <1>2, <1>3, <1>4, <1>5, <1>6, RebuildInductive, PTL
       DEF Spec, ImplementsDelivery, Delivery!Spec
=============================================================================
