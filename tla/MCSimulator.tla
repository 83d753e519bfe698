---------------------------- MODULE MCSimulator -----------------------------
(***************************************************************************)
(* Small instances of Simulator.                                           *)
(***************************************************************************)
EXTENDS Simulator

CONSTANTS r1, r2, s1, s2

MCOwnerOf == [r \in Routers |-> Wallet]
MCSeedKey == [r \in Routers |-> IF r = r1 THEN s1 ELSE s2]
OneRouter  == <<r1>>
TwoRouters == <<r1, r2>>

\* Two heartbeats a minute apart make a full epoch of 120.  One deployment has
\* genesis tokens for two launches, the other not even for one.
Deployed ==
  {[reward_rate |-> 1, penalty_bps |-> 5000, heartbeat_interval |-> 60,
    epoch_duration |-> 120, min_stake |-> 10, stake_lock_duration |-> 0,
    reward_cliff_duration |-> 0, reward_vesting_duration |-> 120,
    initial_emission_per_epoch |-> 150, epochs_per_year |-> 1,
    emission_decay_bps |-> 8000, genesis_allocation |-> g] : g \in {20, 60}}

\* What a behaviour explores, fixed at its start: faults and a second launch in
\* the life of one loop, three launches in one minute, one loop beside other
\* keepers and pauses, one loop whose router is punished until it is suspended, or
\* two loops on one wallet in their first minutes.
VARIABLE focus

FaultyNext ==
  /\ Process \/ Lands \/ (Clock /\ main.pc = "run")
  /\ main'.launches < 3 /\ now' <= StartTime + 120
RelaunchedNext == (Process \/ Lands) /\ \A r \in Routers : sim'[r].pc # "beat"
CrowdedNext ==
  /\ Process \/ Others \/ Clock
  /\ faults' = 0 /\ main'.launches < 2
PunishedNext ==
  /\ Process \/ Clock \/ Punish
  /\ \A r \in Routers \ {r1} : router'[r].exists => router'[r].uptime_score = MAX_SCORE
  /\ faults' = 0 /\ main'.launches < 2 /\ now' <= StartTime + 60
PairNext ==
  /\ Process \/ (Clock /\ main.pc = "run")
  /\ faults' = 0 /\ main'.launches < 3 /\ now' <= StartTime + 60

\* Only the pair lets the second loop start.
MCNext ==
  /\ CASE focus = "faulty" -> FaultyNext
       [] focus = "relaunched" -> RelaunchedNext
       [] focus = "crowded" -> CrowdedNext
       [] focus = "punished" -> PunishedNext
       [] OTHER -> PairNext
  /\ focus # "pair" => \A r \in Routers \ {r1} : ~sim'[r].started
  /\ UNCHANGED focus

MCInit ==
  /\ SimInit
  /\ focus \in {"faulty", "relaunched", "crowded", "punished", "pair"}
  /\ focus = "faulty" => config.genesis_allocation = 60

MCSpec ==
  /\ MCInit
  /\ [][MCNext]_<<allVars, focus>>
  /\ LoopFairness
=============================================================================
