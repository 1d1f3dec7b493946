--------------------------- MODULE CloudRunDeployment ---------------------------
(***************************************************************************)
(* A deployment: the sync plan (scripts/build_cloud_run_env_sync_plan.py), *)
(* the admission of what is deployed (scripts/verify_deployed_runtime_     *)
(* target_admission.py), the image, the environment, the traffic and the   *)
(* retired jobs (scripts/reconcile_cloud_runtime.py), the plugin mounts    *)
(* (scripts/verify_cloud_run_strategy_plugin_mounts.py) and the Scheduler, *)
(* in the order of .github/workflows/sync-cloud-run-env.yml.               *)
(*                                                                         *)
(* An environment is the inventory item it was made from.  Runs of one ref *)
(* wait for each other; runs of two refs do not.  Any step may fail, which *)
(* ends the run where it is.                                               *)
(***************************************************************************)
EXTENDS Integers, Sequences

CONSTANTS
  CloudService, Ref, Commit,
  Item,         \* [switch, admitted, required, inputs, permits, dry, preview, forced, weekdays, mounts]
  Deployed,     \* the items services can be found with
  Job,          \* the managed Scheduler jobs of a service
  Modes,        \* what the switches of the workflow make of a run
  MaxRuns, MaxRevised   \* bounds: runs; changes of the inventory

\* A run deploys an image, brings the environment up to date, waits for the image.
Mode == [image : BOOLEAN, sync : BOOLEAN, waits : BOOLEAN]

ASSUME DeploymentAssumption ==
  /\ Deployed \subseteq Item /\ Modes \subseteq Mode
  /\ MaxRuns \in Nat /\ MaxRevised \in Nat

VARIABLES
  items,      \* the inventory
  revisions,  \* of each service, oldest first
  traffic,    \* the revision all traffic is pinned to; 0: it follows the latest ready one
  jobs,       \* the managed jobs
  retired,    \* the services that still have a retired job
  run,        \* the run of each ref
  started, revised,   \* counts
  latest      \* history: the ref whose run began last, {} at first

deploymentVars == <<items, revisions, traffic, jobs, retired, run, started, revised, latest>>
cloudVars == <<revisions, traffic, jobs, retired>>

Revision == [commit : Commit, env : Item, relic : BOOLEAN, ready : BOOLEAN]
JobState == {"absent", "enabled", "paused"}
Stage == {"idle", "admit", "image", "wait", "env", "traffic", "shift", "mounts",
          "jobs", "settle", "retire", "relics", "done", "failed"}

\* todo: the services the stage has yet to do; left: the jobs of the first of them; at: the
\* revision its traffic is to go to; there: the traffic was there when it was looked at.
\* single: history, no other run has been in progress since this one began.
Run == [stage : Stage, commit : Commit, plan : [CloudService -> Item], mode : Mode,
        todo : SUBSET CloudService, left : SUBSET Job, at : Nat, there : BOOLEAN,
        single : BOOLEAN]

DeploymentTypeOK ==
  /\ items \in [CloudService -> Item]
  /\ revisions \in [CloudService -> Seq(Revision)] /\ traffic \in [CloudService -> Nat]
  /\ \A s \in CloudService : revisions[s] # <<>> /\ traffic[s] <= Len(revisions[s])
  /\ jobs \in [CloudService -> [Job -> JobState]]
  /\ retired \subseteq CloudService
  /\ run \in [Ref -> Run]
  /\ started \in 0 .. MaxRuns /\ revised \in 0 .. MaxRevised
  /\ latest \in {{}} \cup {{r} : r \in Ref}

\* Services as a first deployment finds them, or as an earlier one left them.
DeploymentInit ==
  /\ \E found \in [CloudService -> Deployed], c \in Commit :
       /\ items = found
       /\ revisions = [s \in CloudService |->
            <<[commit |-> c, env |-> found[s], relic |-> TRUE, ready |-> TRUE]>>]
       /\ run = [r \in Ref |-> [stage |-> "idle", commit |-> c, plan |-> found,
                                mode |-> [image |-> FALSE, sync |-> FALSE, waits |-> FALSE],
                                todo |-> {}, left |-> {}, at |-> 0, there |-> FALSE,
                                single |-> TRUE]]
  /\ traffic \in [CloudService -> {0, 1}]
  /\ jobs \in [CloudService -> [Job -> JobState]]
  /\ retired = CloudService
  /\ started = 0 /\ revised = 0 /\ latest = {}

-----------------------------------------------------------------------------
(* The plan. *)

\* _runtime_target_enabled, for a switch that is neither a yes nor a no an error.
Readable(i) == i.switch \in {"unset", "on", "off"}
On(i) == i.switch # "off"

\* An enabled profile is one that can run.
Eligible(i) == On(i) => i.admitted

\* _validate_profile_inputs
Provided(i) == i.inputs

\* The required values are there; an enabled profile needs its inputs too.
Complete(i) == i.required /\ (On(i) => Provided(i))

\* _runtime_target_is_dry_run_only: IBKR_DRY_RUN_ONLY before dry_run_only of the target.
Live(i) == ~i.preview

Unforced(i) == On(i) /\ Live(i) => ~i.forced

\* _build_scheduler_plan: from Monday to Friday.
OnWeekdays(i) == On(i) /\ Live(i) => i.weekdays

\* _build_target_plan
Plannable(i) ==
  /\ Readable(i) /\ Eligible(i) /\ Complete(i)
  /\ Unforced(i) /\ OnWeekdays(i)

\* Mutant of Standard: an enabled target is scheduled.
StandardIfEnabled(i) == On(i)

\* standard_execution_enabled
Standard(i) == On(i) /\ i.permits

\* verify_service: the plan did not ask that the two dry runs agree.
Admitted(env) == (On(env) => env.admitted) /\ env.preview = env.dry

Newest(s) == revisions[s][Len(revisions[s])]

Ready(s) == {n \in 1 .. Len(revisions[s]) : revisions[s][n].ready}
Last(numbers) == CHOOSE n \in numbers : \A m \in numbers : m <= n

\* The revision requests to the service reach.
Reached(s) == IF traffic[s] = 0 THEN Last(Ready(s)) ELSE traffic[s]
Serving(s) == revisions[s][Reached(s)]

-----------------------------------------------------------------------------
(* A run. *)

Active(r) == run[r].stage \notin {"idle", "done", "failed"}

\* Everyone's plan is made, or the run fails before it has changed anything.  A run deploys
\* an image, or brings the environment up to date, or does both.
Begin(r) ==
  /\ ~Active(r) /\ started < MaxRuns
  /\ \A s \in CloudService : Plannable(items[s])
  /\ \E c \in Commit, m \in Modes :
       run' = [q \in Ref |->
         IF q = r
         THEN [stage |-> IF m.image THEN "admit" ELSE "env", commit |-> c, plan |-> items,
               mode |-> m, todo |-> CloudService, left |-> {}, at |-> 0, there |-> FALSE,
               single |-> \A o \in Ref : ~Active(o)]
         ELSE [run[q] EXCEPT !.single = @ /\ ~Active(q)]]
  /\ started' = started + 1 /\ latest' = {r}
  /\ UNCHANGED <<items, cloudVars, revised>>

\* A run that fails leaves what it has done.
Fails(r) == run' = [run EXCEPT ![r].stage = "failed", ![r].todo = {}, ![r].left = {},
                               ![r].at = 0, ![r].there = FALSE]

Fail(r) ==
  /\ Active(r) /\ Fails(r)
  /\ UNCHANGED <<items, cloudVars, started, revised, latest>>

\* s is done in this stage; the next stage begins when all are.
Advance(r, s, next) ==
  run' = [run EXCEPT ![r].todo = IF @ = {s} THEN CloudService ELSE @ \ {s},
                     ![r].stage = IF run[r].todo = {s} THEN next ELSE @]

\* verify_deployed_runtime_target_admission: before an image reaches it.
Admit(r, s) ==
  /\ run[r].stage = "admit" /\ Admitted(Newest(s).env)
  /\ Advance(r, s, "image")
  /\ UNCHANGED <<items, cloudVars, started, revised, latest>>

\* A new revision that does not get ready fails the run.
Revise(r, s, revision, next) ==
  \E ready \in BOOLEAN :
    /\ revisions' = [revisions EXCEPT ![s] = Append(@, [revision EXCEPT !.ready = ready])]
    /\ IF ready THEN Advance(r, s, next) ELSE Fails(r)
    /\ UNCHANGED <<items, traffic, jobs, retired, started, revised, latest>>

\* gcloud run deploy: the image with the environment of the template.  A run that does not
\* bring the environment up to date ends here.
DeployImage(r, s) ==
  /\ run[r].stage = "image"
  /\ Revise(r, s, [Newest(s) EXCEPT !.commit = run[r].commit],
            IF run[r].mode.sync THEN "wait" ELSE "done")

\* The template must be of this commit, unless nobody is to wait for it.
AwaitCommit(r, s) ==
  /\ run[r].stage = "wait" /\ (run[r].mode.waits => Newest(s).commit = run[r].commit)
  /\ Advance(r, s, "env")
  /\ UNCHANGED <<items, cloudVars, started, revised, latest>>

\* gcloud run services update: the planned environment with the template's image.
SyncEnv(r, s) ==
  /\ run[r].stage = "env"
  /\ Revise(r, s, [Newest(s) EXCEPT !.env = run[r].plan[s]], "traffic")

\* Mutant of Chosen: the first revision of the commit that was made.
ChosenFirst(numbers) == CHOOSE n \in numbers : \A m \in numbers : n <= m

\* gcloud lists the newest revisions first.
Chosen(numbers) == Last(numbers)

\* The service is looked at, then _resolve_revision_for_commit.
Resolve(r, s) ==
  LET made == {n \in Ready(s) : revisions[s][n].commit = run[r].commit}
  IN /\ run[r].stage = "traffic" /\ s \in run[r].todo /\ made # {}
     /\ run' = [run EXCEPT ![r].stage = "shift", ![r].at = Chosen(made),
                           ![r].there = Reached(s) = Chosen(made)]
     /\ UNCHANGED <<items, cloudVars, started, revised, latest>>

\* ensure_latest_traffic: traffic that is elsewhere is pinned; traffic that was there stays
\* as it is, pinned or following the latest revision, and must still be there.
Shift(r, s) ==
  /\ run[r].stage = "shift"
  /\ \/ ~run[r].there /\ traffic' = [traffic EXCEPT ![s] = run[r].at]
     \/ run[r].there /\ Reached(s) = run[r].at /\ traffic' = traffic
  /\ run' = [run EXCEPT ![r].todo = IF @ = {s} THEN CloudService ELSE @ \ {s},
                        ![r].stage = IF run[r].todo = {s} THEN "mounts" ELSE "traffic",
                        ![r].at = 0, ![r].there = FALSE]
  /\ UNCHANGED <<items, revisions, jobs, retired, started, revised, latest>>

\* _verify_target: the mounts of the template are the planned ones.
VerifyMounts(r, s) ==
  /\ run[r].stage = "mounts" /\ Newest(s).env.mounts = run[r].plan[s].mounts
  /\ run' = [run EXCEPT ![r].todo = IF @ = {s} THEN CloudService ELSE @ \ {s},
                        ![r].stage = IF run[r].todo = {s} THEN "jobs" ELSE @,
                        ![r].left = IF run[r].todo = {s} THEN Job ELSE @]
  /\ UNCHANGED <<items, cloudVars, started, revised, latest>>

\* A job is updated, or created: a created job is enabled.
EnsureJob(r, s, j) ==
  /\ run[r].stage = "jobs" /\ j \in run[r].left
  /\ jobs' = [jobs EXCEPT ![s][j] = IF @ = "absent" THEN "enabled" ELSE @]
  /\ run' = [run EXCEPT ![r].left = IF @ = {j} THEN Job ELSE @ \ {j},
                        ![r].stage = IF run[r].left = {j} THEN "settle" ELSE @]
  /\ UNCHANGED <<items, revisions, traffic, retired, started, revised, latest>>

\* Once all jobs of the service exist, each is resumed or paused.
SettleJob(r, s, j) ==
  /\ run[r].stage = "settle" /\ j \in run[r].left
  /\ jobs' = [jobs EXCEPT ![s][j] = IF Standard(run[r].plan[s]) THEN "enabled" ELSE "paused"]
  /\ run' = [run EXCEPT
       ![r].left = IF @ = {j} THEN Job ELSE @ \ {j},
       ![r].todo = IF run[r].left # {j} THEN @ ELSE IF @ = {s} THEN CloudService ELSE @ \ {s},
       ![r].stage = IF run[r].left # {j} THEN @ ELSE IF run[r].todo = {s} THEN "retire" ELSE "jobs"]
  /\ UNCHANGED <<items, revisions, traffic, retired, started, revised, latest>>

\* delete_legacy_schedulers: a job that cannot be described, for whatever reason, is taken
\* for one that is not there (_run_optional).
RetireJobs(r, s) ==
  /\ run[r].stage = "retire"
  /\ retired' \in {retired, retired \ {s}}
  /\ Advance(r, s, "relics")
  /\ UNCHANGED <<items, revisions, traffic, jobs, started, revised, latest>>

\* A retired variable in the template is removed: one more revision, which requests reach
\* where traffic follows the latest one.
RemoveRelics(r, s) ==
  /\ run[r].stage = "relics"
  /\ IF Newest(s).relic
     THEN Revise(r, s, [Newest(s) EXCEPT !.relic = FALSE], "done")
     ELSE Advance(r, s, "done") /\ UNCHANGED <<items, cloudVars, started, revised, latest>>

\* Services are done one after the other.
First(r) == CHOOSE s \in run[r].todo : TRUE

Step(r) ==
  /\ run[r].todo # {}
  /\ \/ Admit(r, First(r)) \/ DeployImage(r, First(r)) \/ AwaitCommit(r, First(r))
     \/ SyncEnv(r, First(r)) \/ Resolve(r, First(r)) \/ Shift(r, First(r))
     \/ VerifyMounts(r, First(r)) \/ RetireJobs(r, First(r)) \/ RemoveRelics(r, First(r))
     \/ \E j \in Job : EnsureJob(r, First(r), j) \/ SettleJob(r, First(r), j)

\* A person edits the inventory, a ledger is put in place.
EditItem(s) ==
  /\ revised < MaxRevised /\ revised' = revised + 1
  /\ \E i \in Item : items' = [items EXCEPT ![s] = i]
  /\ UNCHANGED <<cloudVars, run, started, latest>>

DeploymentNext ==
  \/ \E r \in Ref : Begin(r) \/ Step(r) \/ Fail(r)
  \/ \E s \in CloudService : EditItem(s)

DeploymentSpec == DeploymentInit /\ [][DeploymentNext]_deploymentVars

-----------------------------------------------------------------------------
(* Properties. *)

\* The run did both parts and met no other run.
Undisturbed(r) == run[r].mode.image /\ run[r].mode.sync /\ run[r].single

\* A deployment that says it succeeded did all it was to do, from whatever state earlier
\* runs failed in: requests reach the planned environment with the image of its commit,
\* wherever the traffic was pinned and though one more revision is made at the end, and the
\* jobs run or rest as planned (ensure_latest_traffic, _resolve_revision_for_commit).  Of
\* the retired jobs it says nothing: delete_legacy_schedulers may leave one behind.
SuccessMeansDeployed ==
  \A r \in latest : run[r].stage = "done" /\ Undisturbed(r) =>
    \A s \in CloudService :
      /\ Serving(s).env = run[r].plan[s] /\ Serving(s).commit = run[r].commit
      /\ \A j \in Job :
           jobs[s][j] = IF run[r].plan[s].switch # "off" /\ run[r].plan[s].permits
                        THEN "enabled" ELSE "paused"

\* The schedules of a service are resumed only when requests reach a revision that may
\* execute (standard_execution_enabled and the order of the workflow's steps).
Resumes(s, j) == jobs[s][j] = "paused" /\ jobs'[s][j] = "enabled"
ResumedBehindTraffic ==
  [][\A s \in CloudService, j \in Job :
       Resumes(s, j) /\ (\A r \in latest : Undisturbed(r))
         => Serving(s).env.switch # "off" /\ Serving(s).env.permits]_deploymentVars
=============================================================================
