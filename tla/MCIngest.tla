------------------------------ MODULE MCIngest ------------------------------
(***************************************************************************)
(* Ingestion alone: no reconciliation repairs what it gets wrong.          *)
(***************************************************************************)
EXTENDS MCIndexer

\* What a behaviour follows, fixed at its start: the job beside the service while
\* collateral is staked, or the service alone indexing whole lives.
VARIABLE focus

IngestNext ==
  /\ Next
  /\ Len(chain') <= 3 /\ chain'[Len(chain')].after.stakedAmount <= 1
  /\ chain'[Len(chain')].kind \in {"register", "stake", "failed"}

ReplayNext ==
  /\ Next
  /\ chain'[Len(chain')].kind # "stake" \/ chain' = chain
  /\ \A p \in Procs \ {"service"} : proc'[p] = proc[p]

IngestInit ==
  /\ Init
  /\ \/ focus = "ingest" /\ chain \in Registered
     \/ focus = "replay" /\ chain \in Lives

IngestSpec ==
  /\ IngestInit
  /\ [][/\ IF focus = "ingest" THEN IngestNext ELSE ReplayNext
        /\ UNCHANGED focus]_<<vars, focus>>
  /\ Fairness
============================================================================
