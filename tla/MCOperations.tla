-------------------------------- MODULE MCOperations --------------------------------
(* The programs around the trading service, each on an instance of its own.  They  *)
(* share no variable, so a behaviour of one says nothing of the others: each       *)
(* behaviour runs one of them and leaves the rest where they began.                *)
EXTENDS ReconciliationRecoveryRefinement, ReportHeartbeat, RuntimeGuard, CloudRunDeployment,
        PaperAdmission, TLC

CONSTANTS b, x, k1, w   \* members of Service, of Digest and of Commit; a retired service

VARIABLE part

Part == {"recovery", "heartbeat", "guard", "deployment", "paper"}

\* Two watched services and a frozen one: the schedule of the first is in its target, of
\* the second in the Scheduler; the first one's market has a calendar, the second's none.
\* A fourth service is named in the environment only.
target(s, continuity, market, written) ==
  [service |-> s, switch |-> "unset", continuity |-> continuity, market |-> market,
   written |-> written]
MCTarget ==
  {target("s1", "ACTIVE_LKG", "US", TRUE), target("s2", "none", "other", FALSE),
   target("s3", "RECONCILE_ONLY", "US", TRUE)}
MCStrayCron == [s \in {"s4"} |-> {1}]
MCCron == [t \in MCTarget |-> IF t.service = "s1" THEN {1, 3} ELSE {0, 2, 4}]
MCSession == [m \in {"US"} |-> {0, 1, 2, 4}]

\* Two services of enabled items, one of disabled items.
guarded_item(s, switch) == [service |-> s, switch |-> switch]
MCGuardTarget ==
  {guarded_item(s, k) : s \in Ref, k \in {"on", "off"}} \cup {guarded_item(w, "other")}

\* A trading target, one frozen for reconciliation, and one that is switched off without
\* its inputs and whose dry runs differ.
item(switch, permits) ==
  [switch |-> switch, admitted |-> switch # "off", required |-> TRUE, inputs |-> switch # "off",
   permits |-> permits, dry |-> FALSE, preview |-> FALSE, forced |-> FALSE,
   weekdays |-> TRUE, mounts |-> permits]
Trading == item("on", TRUE)
Frozen == item("unset", FALSE)
MCDeployed == {Trading, Frozen}
MCItem == MCDeployed \cup {[item("off", TRUE) EXCEPT !.preview = TRUE]}

\* A run deploys the image, brings the environment up to date, or does both, and then does
\* not wait for the image: what a run that waits does, one that need not wait does too.
MCModes == {m \in Mode : (m.image \/ m.sync) /\ (m.waits <=> ~(m.image /\ m.sync))}

\* Two values stand for the refs, the guarded services and the paper symbols.
Symmetric == Permutations(Ref)

\* Of two digests, and of two commits, it does not matter which is the first; jobs run for
\* a trading service and are paused, or not there yet, for a frozen one, whose traffic is
\* pinned or follows its latest revision; and a part that does not run begins in one state.
Start ==
  /\ account[b]["orders"] = x
  /\ \A s \in CloudService : revisions[s][1].commit = k1
  /\ \A s \in CloudService, j \in Job :
       \/ items[s] = Trading /\ jobs[s][j] = "enabled" /\ traffic[s] = 0
       \/ items[s] = Frozen /\ jobs[s][j] = "paused"
       \/ items[s] = Frozen /\ jobs[s][j] = "absent" /\ traffic[s] = 0
  /\ part # "recovery" =>
       \A s \in Service : setting[s].keys = 6 /\ account[s]["orders"] = x
  /\ part # "deployment" =>
       \A s \in CloudService :
         items[s] = Frozen /\ traffic[s] = 0 /\ \A j \in Job : jobs[s][j] = "absent"
  /\ part # "paper" => \A s \in PaperSymbol : stock[s] = 0

MCInit ==
  /\ part \in Part
  /\ RecoveryInit /\ HeartbeatInit /\ GuardInit /\ DeploymentInit /\ PaperInit
  /\ Start

RecoveryRuns == part = "recovery" /\ RecoveryNext
                /\ UNCHANGED <<part, heartbeatVars, guardVars, deploymentVars, paperVars>>
HeartbeatRuns == part = "heartbeat" /\ HeartbeatNext
                 /\ UNCHANGED <<part, recoveryVars, guardVars, deploymentVars, paperVars>>
GuardRuns == part = "guard" /\ GuardNext
             /\ UNCHANGED <<part, recoveryVars, heartbeatVars, deploymentVars, paperVars>>
DeploymentRuns == part = "deployment" /\ DeploymentNext
                  /\ UNCHANGED <<part, recoveryVars, heartbeatVars, guardVars, paperVars>>
PaperRuns == part = "paper" /\ PaperNext
             /\ UNCHANGED <<part, recoveryVars, heartbeatVars, guardVars, deploymentVars>>

MCNext == RecoveryRuns \/ HeartbeatRuns \/ GuardRuns \/ DeploymentRuns \/ PaperRuns

\* Every variable keeps its type.
OperationsTypeOK ==
  /\ part \in Part
  /\ RecoveryTypeOK /\ HeartbeatTypeOK /\ GuardTypeOK /\ DeploymentTypeOK /\ PaperTypeOK
=============================================================================
