# IBKRQuant in TLA+

TLA+ modules that model the core of the IBKRQuant service, TLC runs that check
them on small instances, and TLAPS proofs of what must hold for every instance.
Paths are relative to the repository; `ES` is `application/execution_service.py`,
`RS` `application/rebalance_service.py`, `BA`
`application/runtime_broker_adapters.py`.

`PROJECT.json` lists the components, the runs, the mutants, the hazards and the
theorems, and maps every definition of the modules to the lines it models.

    tlc -workers 2 -config MCExecutionClaim_safety.cfg MCExecutionClaim
    tlapm ExecutionClaimProofs.tla

## 1. The system

IBKRQuant is a Flask service on Cloud Run. Schedulers call its routes once or a
few times a day; a request computes a strategy's signal, compares the target
weights with the positions of an Interactive Brokers account, places orders
through an IB Gateway on a GCE machine, and writes reports. Several services
(one per strategy and account group) share a Gateway and a durable
execution-state store (a bucket); scripts run by workflows deploy the services,
watch over them, and reconcile what they believe with what the broker says.

| component | state | operations | how it meets the others |
|---|---|---|---|
| Request serving (`main.py`, `http_routes.py`, `monitor_dispatcher.py`, `runtime_deadline.py`) | run lock, armed alarm, local `lock_acquired`, report lists, pending recycle | live run, dry run with deadline, monitor dispatch, persist with grace, recycle | calls the cycle; the alarm interrupts it; gunicorn replaces the process |
| Execution claim (`RS`, `ES`, `runtime_composer.py`) | lock file per container; marker per execution key and owner per account in the store; report | dedup read, guards, lock, owner fence, claim, submit, record | containers meet in the store and at the broker only |
| Order sizing and cash accounting (`ES`) | budget, projected proceeds, order outcomes, status | plan, cash sweep, sell, settle, buy, options, final status | reads positions, quotes and cash through the session; places orders |
| Gateway sessions (`BA`, `main.py`) | `IB_HOST`, attempt, client id, the Gateway's table of sessions | resolve, connect, validate accounts, probe write access, retry, refresh, disconnect | every request that needs the broker |
| New-risk gate (`account_new_risk_gate_support.py`, `ibkr_order_execution.py`) | the snapshot of the last rebalance of the process | bind, admit or scale a purchase | called by the submission path |
| Paper liquidation (`paper_liquidation_service.py`) | none | read positions, build closing intents, submit them | takes the place of the cycle when `IBKR_PAPER_LIQUIDATE_ONLY` is set; the gate; no claim |
| Reconciliation (`broker_reconciliation*.py`, `reconciliation_*.py`) | observations, expectations, candidate | observe, compare, digest | feeds the recovery |
| Recovery pipeline (`scripts/*reconciliation*`) | archive, published source, ledger of plans | archive, publish, verify, plan, apply | create-only objects; the console; the sync plan applies its ledger |
| Paper admission and commands (`paper_execution_*.py`) | command store, receipts | admit, consume | the cycle asks for admission; external command store |
| Runtime guard and heartbeat (`scripts/cloud_run_runtime_guard.py`, `execution_report_heartbeat.py`, `runtime_heartbeat_policy.py`) | reports and logs read | which run was due, which report counts, alarm | reads what the service persisted |
| Deployment (`sync-cloud-run-env.yml`, `scripts/reconcile_cloud_runtime.py`, `build_cloud_run_env_sync_plan.py`, `verify_*.py`) | service revisions, traffic, schedulers | plan, update, verify, delete legacy | may run next to another deployment |
| Strategy runtime, decisions, configuration, notifications, reports | none that outlives a request | compute, render, validate | pure or external |

What is hard in it:

* **Concurrency without a shared process.** Two revisions of a service, a retried
  scheduler call and two services on one account only meet in the store and at
  the broker. The dedup read fails open and the view of open orders is a cache:
  neither can be what keeps a date from being traded twice.
* **Answers that get lost.** A create-only call may take effect and raise.
* **A signal between two bytecodes.** The deadline of a dry run is a
  `BaseException` raised in the main thread: between the acquisition of the run
  lock and the assignment that remembers it, inside `finally`, in the handler
  that closes a session.
* **Stale readings.** Cash lags behind fills; a host address outlives the
  machine it belonged to; a client id is held by a peer that is dead.
* **Partial failure.** Some orders filled, some pending, some refused: one status.
* **Files handed from script to script.** Each step of a recovery trusts what
  earlier steps left, and takes whatever file it is given.
* **Watching over a moving window.** A run may be too young for one look and too
  old for the next; what a look cannot read must not count as good news.
* **Steps of two runs.** Deployments of two refs interleave, fail in the middle, and
  find revisions by a label several of them bear.
* **Boundaries.** Whole shares, thresholds, minimum notionals, negative cash.

What makes each component correct: for the claim, one submitter per execution
key and one profile per account, fail-closed, honest answers; for request
serving, one cycle at a time, a leaked lock is healed, every report persisted
once; for the orders, reserve and targets respected and a truthful status; for
the sessions, none forgotten, none used without validation, a good address kept,
retries that suffice; for the gate and the liquidation, no reversal of a
position; for the recovery, no service active without its own chain of evidence;
for heartbeat and guard, no missed run or failure without an alarm and no alarm
without a cause; for deployments, success that means what it says and schedules
that follow the traffic; for paper commands, orders that obey their receipt.

## 2. The modules

| module | what it is |
|---|---|
| `ExecutionClaim` | cycles on containers against store and broker |
| `OneShotExecution` | the abstract promise: a key goes to one cycle at most, and only it places orders |
| `ExecutionClaimRefinement` | the refinement mapping (`holderBar`, `placedBar`) |
| `RunRequest` | one worker process: requests, run lock, deadline, recycle |
| `RebalanceOrders` | the money of one cycle: sizing, budget, outcomes, status |
| `GatewaySession` | sessions at the Gateway |
| `PaperLiquidation` | clearing a paper account through the new-risk gate |
| `ReconciliationRecovery` | from a frozen live service back to trading: `/reconcile`, receipts, candidate, confirmation, plan, ledger, deployment |
| `ReportHeartbeat` | the job that alarms runs without an acceptable report |
| `RuntimeGuard` | the job that alarms failures in the logs |
| `CloudRunDeployment` | runs of the deployment workflow: plan, admission, image, environment, traffic, mounts, schedules |
| `PaperAdmission` | paper cycles whose orders need a command's risk receipt |
| `ReviewedActivation` | the abstract promise: reading, a person's word, a second reading, and only then a start |
| `ReconciliationRecoveryRefinement` | the refinement mapping (`endorsementsBar`, `tradingBar`) |
| `MCOperations` | recovery, heartbeat, guard, deployment and paper cycles, side by side |
| `MC...` | instances for TLC (`RunRequest` is checked as it is) |
| `...Proofs` | theorems and their proofs |

The models are cut where the code has an interface: `RunRequest` has the
strategy cycle as one step (`Core`); `ExecutionClaim` has its interleaving with
other containers and leaves quantities out; `RebalanceOrders` has the quantities
and leaves the other containers out; `GatewaySession` has what happens before a
cycle has a broker at all. `ReconciliationRecovery` and `CloudRunDeployment` meet in
the deployment: the first has it as one step (`Deploy`) that reaches any subset
of the services, the second has its steps and takes the inventory as given.
`ReportHeartbeat` and `RuntimeGuard` see of the service what it leaves behind,
reports and log entries, which come in any order.

Operators described as mutants in the modules belong to no specification. Each
is a definition with a plausible bug, and `PROJECT.json` names the property that
finds it.

### ExecutionClaim

A *cycle* is one `POST /run` or `/dry-run` past the market-hours checks. `pc`
names the places between two effects another actor can see: `dedup` (`RS:1046`),
`guards` (the checks before the lock), `lock`/`writing` (`open(path, "x")`, then
the JSON), `orders` (the loop of `ES`), `owner`/`marker`
(`acquire_execution_claim`), `send`, `record`, `report`. `marker`, `owner` and
`reported` are the durable store, `lockFile` the container's temporary directory,
`order` the broker. The environment kills workers, replaces containers (their
lock files vanish, the store stays) and ends orders. Every store call may fail,
before or after it took effect; every read of the broker may miss what is there.

`IInv` of the proofs: a cycle whose claim was granted is live, fenced, and its
marker and owner are in the store (`Granted`); no key is granted twice
(`OneGrantPerKey`); only granted cycles have orders; what each place implies
about the steps before it (`Progress`); and what a cycle knows and answers is
true of its orders (`Knowledge`, `Answer`). `OneSubmitterPerKey` alone is not
inductive: of two cycles at `send` with one key, neither has placed an order yet.

### RunRequest

`Acquire`/`Assign` and `Release` split what Python does in two bytecodes;
`Deadline` may fire at each place the alarm is armed, with the effect of an
exception raised there: inside `try` it runs `finally`, inside `finally` it skips
the rest. A monitor dispatch runs its due windows one after the other with
deadlines of their own, and asks for the recycle only in `Join`. `recycle` goes
through *scheduled* (daemon thread) and *terminating* (SIGTERM).

`IInv`: before the assignment the flag is down, in the cycle it is up (`Flow`);
who may release the lock finds it held (`Held`); which places a kind of request
can reach, and where an expired deadline is remembered (`Route`); how many
reports are still to be persisted (`Owed`). `Covered`, stronger than
`LeakIsRecycled`, names the request that will ask for the recycle.
`InterruptedWorkerIsRecycled` is about the step that ends a request: one whose
deadline fired leaves a worker that is to be recycled (`LeavesInterrupted` says what
such a step is).

### RebalanceOrders

Money is in whole units, shares are whole. `Init` takes every combination of
holdings, quotes, average costs, cash and targets that the allocation allows:
targets sum up to the equity above the reserve at most, and equity values
positions at cost (`application/ibkr_portfolio.py:184`), so targets can exceed
what the account is worth at market value. `Sell` and `Buy` report any outcome of
a broker: filled, partial, pending, failed. `FillSell`/`FillBuy` fill later,
sales at the quote or below. `seen` is the session's cached cash: `Refresh` may
happen at any time or never. A report of a fill may come without a price: the code
then counts the quote (`ES:1250`), the account gets what the shares were sold for.
`Counted` is what the code reckons with, `overstated` how much more that is than what
came in.

`IInv`: what is sold has a price (`Priced`), nothing is sold before the plan nor
bought before the sales (`Fresh`), targets (`WithinTarget`). For the status `Settled`
and `Concluded` relate the outcomes to the place. For the reserve `Funded` says
that every quantity the sizing relies on (`Reading`, `base + release`,
`investable`) is, but for what is overstated, in the account and unspoken for
(`Funds` is the cash with `overstated` added), and `DryBuys` that a dry
run places nothing. For the options `Backed` says that the money anticipated before
the buys is in `Funds`, and from then on that what is staked, with the buying power
left for more, is covered by the cash and by what the shares have cost.

### GatewaySession

The Gateway has an address, is up or down, found or not by the look-up, writable
or Read-Only, and a table `holder` of client ids. A worker dials, connects,
validates its accounts, probes write access (live cycles only), uses the session
and releases it; attempts use `base + k * offset` and refresh the host. A
deadline is the only thing that can leave a session behind, since the handler
around the validations is `except Exception` (`BA:203`).

`IInv`: for each worker, where it has a session and what that session has been
through (`Own`), and that every client id it holds is the one it works with,
unless it is to be recycled (`Accounted`).

### PaperLiquidation

One process serves calls one after the other: `Rehearse` is a rebalance that
sends nothing and may bind the gate's snapshot, `Liquidate` starts
`run_paper_liquidation_cycle` (`BA:358`), as a preview or not. `Read` sees the
positions that have arrived, and a second time if it saw none; `Begin` builds the
intents and answers previews; `Submit` is one turn of the loop, whose order is
accepted, rejected by gate or broker, or raises with or without being taken;
`Conclude` sets the status. `Restart` forgets the snapshot. Orders fill in part
and expire. `Patient` says that the account is liquidated only when no order is
working, which the code leaves to its operator.

The invariant of the proofs is `TypeOK /\ Guarded`: orders only point towards zero
(`Sided`), nothing works for an intent not yet submitted (`Alone`), which is for
the whole position (`Exact`). `NoReversal` alone is not inductive: an intent that
has been read but not submitted could still be on top of a working order.
`Served` and `Inert` say what a liquidation has done before it answers.

### ReconciliationRecovery

`account` is the broker, `setting` and `actual` the inventory (a target's setting
and its fingerprint as it is now), `running` what the serving process was
configured with. `ReadHoldings` and `FinishReading` are the two ends of
`collect_read_only_reconciliation_observations`, between which orders fill.
`receipts`, `candidates`, `console`, `confirmations`, `plans` and `ledgers` are the
files of the chain: nothing removes one, and a script takes any of them, of
another service or an earlier attempt as well as the right one, since each gets
its files and the service as arguments. A fingerprint is a service and the number
of edits of its target: the library's digest of the whole target, `service_name`
included, which `apply_recovery_state_ledger` has recomputed
(`assert_matches_target`), so two services never share one.

`RecoveryInv` of the proofs has one part for each file: what its script has
checked (`Sourced`, `Proven`, `ChainOK`), what the serving process can have come
from (`Traced`), and that fingerprints keep to their service (`OfService`).
`ActivationIsReviewed` alone is not inductive: it says nothing of a ledger that
has not been applied. `OfService` is what carries it from file to file, as no
script after the candidate compares services.

`ReviewedActivation` is what all of this is for, without files: a clean reading, an
endorsement of what it showed, a second reading, and only then a start, all of one
service. An endorsement is a confirmation, with its candidate's baseline and digests
(`endorsementsBar`); a service trades on what its process is configured with if that is
active (`tradingBar`). Requests begun, candidates, publications, plans, ledgers, edits,
freezes and drifts are stutters. It says more than `ActivationIsReviewed`, which looks at
the files there are and not at the order in which they came.

### ReportHeartbeat and RuntimeGuard

Time is a number of slots. `Look` is all of the heartbeat's `main`, with any of its
calls failing: the listing of a month, an object, the calendar, the Scheduler's
job, the list of jobs. `Verdicts` is the set of what such a look can come to.
`Guard` is all of the guard's `main` likewise. `Land` and `Ingest` put a report in
the bucket and an entry in the log at any time, the latter up to `Late` slots
after it was written. `Named` and `Explicit` are services of the environment; those
that no inventory item has (`Stray`) are required without a due time
(`Remaining`, `Unheard`), whenever some target is due.

`MissedRunsAreReported` covers every due slot whose time to report (`d + Grace`) came
after the watch began; runs may be as close to each other as they like. It and
`FailuresAreAlarmed` speak of a moment long past, so they need an invariant that speaks
of every moment. In `HeartbeatInv` a due run has not had a look after its grace yet, or
has its report, or was alarmed (`Answers`); in `GuardInv` a failure has not been looked
for since it reached the log, or was alarmed, or is hidden by a newer revision or a full
answer (`Seen`). That the next look comes in time follows from the types: the clocks
`looked` and `guarded` are never more than a period behind.

### CloudRunDeployment

`run[r]` is the run of ref `r`: runs of one ref wait for each other (`concurrency` of
`sync-cloud-run-env.yml`), runs of two refs do not. `Stage` has the workflow's
steps in their order; a step takes the services one by one (`todo`), the Scheduler
step their jobs (`left`). `Fail` ends a run at any place. A revision is ready or
not; `traffic` is the pin or 0. An environment is the inventory item it was made
from, so that two environments are equal if their items are. Dry runs of the
scripts, the HK verification dispatch, and the pruning of old revisions and
images at the end, which leaves those with traffic alone, are left out.

`Modes` says which runs there are: with an image, with the environment, with both, and
then waiting for the image's commit or not. `Resolve` looks where the traffic is before
`Shift` acts on it (`there`): traffic that already reaches the chosen revision stays as it
is, so a service that follows its latest revision still follows it when its jobs are
resumed, and when `RemoveRelics` makes one more revision. `RetireJobs` may leave a job
behind without failing.

`SuccessMeansDeployed` speaks of the end of a run and of the revision requests reach
(`Serving`). `DeploymentInv` says of the run that began last, at whatever step it is, what
every service that is through with a step has got from it (`Achieved`): the image, then the
environment, the traffic, the jobs; no later step of the run undoes it. `Shifting` has
the revision a `shift` is about, and `Alone` that a run that has met no other is the only
one.

### PaperAdmission

A cycle reads, is admitted, looks for open orders and fills, sells and buys; the
broker fills and cancels between any two of these. `Effect` is the admission's
judgement of a symbol. The looks read the cache of the cycle's session: `hidden` are the
symbols whose orders and fills it may not be told of, any, and `dated` is whether the
signal's trade date is today's; without one the code does not look for fills at all
(`ES:571`). So a cycle may sell on top of a sale it does not see, and positions fall below
zero. The gate on a receipt is the most generous it can be. The command consumer
proposes orders and places none; it is left out.

`ReducingOrdersReduce` says that under a receipt that allows only smaller exposure
nothing is bought and only what is above its target is sold; and, where the cache is
complete and the signal dated, that the sale is of shares the account still has. Without
either of these two conditions it is false. `PaperInv`: after which look the
positions read are still those of the account, as far as the session is told (`Known`),
what working orders can make of a position (`Bounded`), and that a cycle past its
admission was admitted (`Checked`). The property alone is not inductive: before the
looks, nothing ties what was read to what is held.

## 3. The runs

| run | instance | shows |
|---|---|---|
| `claim_safety` | 2 cycles on any two of 5 containers: two revisions, a rival strategy on the same account, no physical account, dedup off; 2 symbols; live or dry | `OneSubmitterPerKey`, `OneProfilePerAccount`, `FailClosed`, `ClaimPrecedesSubmission`, `LiveMarkersComeFromSubmitters`, `AnswersAreTrue` |
| `claim_liveness` | 2 cycles, 2 revisions, fairness | `EveryCycleEnds`, `ImplementsOneShot` |
| `request_threads` | 2 requests, 2 threads (more than the one gunicorn configures), up to 2 windows, fairness | `OneCycleAtATime`, `LeakIsRecycled`, `InterruptedWorkerIsRecycled`, `ReportsPersistedOnce`, `LeakHeals`, `EveryRequestEnds` |
| `request_remote` (violation) | 1 thread, a remote half that raises | `InterruptedWorkerIsRecycled` fails: dispatch, local window, deadline, grace, and a `Join` that raises |
| `orders_solvent` | 2 symbols and an option, no debt, no partly filled cancels, fills reported with and without a price | `ReserveKept`, `OptionsCovered`, `StatusTruthful`, `WithinTarget` |
| `orders_debt` (violation) | cash -6 | `BuysNeverBorrow` fails |
| `orders_cancels` (violation) | cancels that filled in part | `StatusTruthful` fails |
| `gateway_safety` | 2 workers with one base id, one of them with accounts the Gateway user does not see; 2 faults | `NoForgottenSession`, `HeldIsProven`, `LastKnownGoodKept` |
| `gateway_recovery` | 2 revisions, dry runs, 2 faults, fairness | `LeaksAreFreed`, `RetriesSuffice` |
| `paper_safety` | 2 symbols, positions -2, 0, 4 (half shares), 3 calls | `NoReversal`, `LongsLeave`, `BlockedIsInert` |
| `paper_cleared` (violation) | the same, 1 call | `AccountCleared` fails |
| `operations`, recovery | 2 services, one of which changes; 2 digests, 2 receipts, a candidate, a confirmation, a plan, a ledger; 3 changes | `ActivationIsReviewed`, `ImplementsReviewed` |
| `operations`, heartbeat | a target with schedule and calendar, one with neither, one not to be answered for, a service only the environment names; 5 slots, 2 reports | `MissedRunsAreReported`, `AlarmsHaveCause` |
| `operations`, guard | 2 services and a retired one, 2 entries, a new revision, queries cut to one entry | `FailuresAreAlarmed` |
| `operations`, deployment | a service found fresh or deployed, its traffic pinned or following, 2 refs, 2 commits, 3 items, 2 runs of any of three modes, an edit | `SuccessMeansDeployed`, `ResumedBehindTraffic` |
| `operations`, paper | 2 symbols, positions from -1 to 1, quotes 0 and 1, targets 0 and 1, any symbols hidden, signals dated or not | `ReducingOrdersReduce` |

`claim_safety`, `request_threads`, `orders_solvent`, `gateway_safety` and
`paper_safety` also check the `TypeOK` of their modules, `operations` those of its
five (`OperationsTypeOK`).

`operations` is one run of five modules that share no variable. A behaviour
chooses one (`part`) and leaves the others where they began, so its states are the
sum and not the product of theirs; since no module reads another's variables, that
is every behaviour of each. `Start` keeps one of several initial states that
differ only in the names of digests or commits, and fixes the parts that do not
run. The symmetry set has the refs, the guarded services and the paper symbols,
which no definition of a part tells apart.

**Bounds, and why they are enough.** Two cycles suffice for each claim property
to fail when a mutant breaks it: each relates at most two cycles and the store.
Containers are enumerated by configuration, not by number. Two requests on two
threads are the smallest contention; a third adds a second refusal. In
`orders_solvent` quotes 0/7/10 give a missing quote, a rounding remainder and an
exact fit, holdings 0/2 a partial fill, targets 0/12/25 a liquidation, a small
and a large one, cash 0/9/26 none, some, enough, and
`Slips` 0/3 a fill at the quote and one well below it. In `GatewaySession` two faults
are one for each attempt, or both at one. In `PaperLiquidation` three calls are
one to bind a snapshot, one to liquidate and one to meet what that left; -2 and 4
are a short and a long position that can fill in part, and a gate that reduces
scales by one half.

In the recovery one service changes and the other provides files that do not
belong: three changes are one to make the evidence stale, one to make it fit again
and a deployment; ages up to 1 on a clock up to 2 have a receipt before, at and
after a confirmation, and one that is too old. In the heartbeat a due slot of every
target is followed by its whole window within the 5 slots, one due slot is on a
closed day, and with `Cap` 1 the second report hides the first; the constants keep
the relation of the workflow's own values (36 hours back, 30 minutes of grace,
every 24 hours: `HeartbeatAssumption`). The environment names a service whose target is
left out and one that has no target, due in one slot. In the guard 2 entries and a limit of 1 are
the smallest truncated answer and the smallest duplicate; it runs every 30 minutes
and looks back 180 (`GuardAssumption`). A deployment of one service has every step
and every place to fail; that services are done one after the other shows in
`Advance` and `First` only with more of them, which with two refs at once is too
large for a run; tried by hand with two services and one ref, both properties hold.
A run that does both parts does not wait for the commit there (`MCModes`): what a run that
waits does, it may do too. In `Start` a trading service follows its latest revision with its
jobs enabled; a frozen one has its traffic pinned or following and its jobs paused, or none
yet. For the
paper cycles one share is enough to be sold once too often: shares up to 2 work in one
symbol, of a position that ends at -1. Quotes of 0 and 1 are a missing one and one that
leaves no remainder; the property speaks of no amounts.

`MaxFaults`, `MaxLocal`, `Holdings`, `Quotes`, `Slips`, `Costs`,
`Targets`, `Cashes`, `Initial`, `MaxCalls` and the constants that the five modules
of `operations` comment as bounds are the only bounds; the proofs hold for any.

**Fairness.** `ExecutionClaim`: a cycle that has started takes its next step,
because its calls to the Gateway and to the store have timeouts; nothing is
assumed of schedulers, broker, Cloud Run or the outcome of a call. `RunRequest`:
the same, and the daemon thread wakes up (`time.sleep`, then `os.kill`), and
gunicorn replaces a worker that stopped. `GatewaySession`: the same, and the
Gateway's machine and the look-up come back (`Recover`), and dead peers are
noticed (`NoticeDead`); `RetriesSuffice` says in its own antecedent that the
environment has settled. The five modules of `operations` state none: nobody
promises that a person confirms or a deployment is started again. That heartbeat
and guard run at all is the workflow's schedule, modelled in `Pass` and `Later` as a
bound on the time between two looks.

## 4. What is proved

| module | theorem | under |
|---|---|---|
| `ExecutionClaimProofs` | `TypeCorrect`, `SubmitOnce`, `AccountFenced`, `FailsClosed`, `LiveMarkersAccounted`, `AnswersTrue`, `ClaimFirst`; `Implements`: the cycles implement `OneShotExecution` | `DeploymentAssumption`; the last one also `HolderAssumption` |
| `RunRequestProofs` | `TypeCorrect`, `MutualExclusion`, `PersistedOnce`; `LeaksAreRecycled`, `InterruptedAlwaysRecycled` | `RunAssumption`; the last two also `~RemoteRaises` |
| `RebalanceOrdersProofs` | `TypeCorrect`, `TargetsRespected`; `StatusIsTruthful`; `ReserveIsKept`; `OptionsAreCovered`; `SharesNeverBorrow` | `OrdersAssumption`; `StatusIsTruthful` also `~CancelsPartly`; `OptionsAreCovered` no debt (`Cashes \subseteq Nat`); `ReserveIsKept` both (`NoDebt`); `SharesNeverBorrow` both and no options |
| `GatewaySessionProofs` | `TypeCorrect`, `SessionsAreClosed`, `SessionsAreProven`, `AddressesAreKept` | `SessionAssumption` |
| `PaperLiquidationProofs` | `TypeCorrect`; `NeverReversed`, `LongsAreSold`, `BlockedLeavesNothing` | `LiquidationAssumption`; all but the first also `Patient` |
| `ReconciliationRecoveryProofs` | `RecoveryTypes`, `ActivationIsAlwaysReviewed`; `RecoveryImplements`: the recovery implements `ReviewedActivation` | `RecoveryAssumption` |
| `CloudRunDeploymentProofs` | `SuccessAlwaysMeansDeployed`, `ResumedAlwaysBehindTraffic` | `DeploymentAssumption` (of `CloudRunDeployment`) |
| `OperationsProofs` | `PaperTypes`, `ReducingOrdersOnlyReduce` | `PaperAssumption` |
| | `FailuresAlwaysAlarmed` | `GuardAssumption` |
| | `MissedRunsAlwaysReported`, `AlarmsAlwaysHaveCause` | `HeartbeatAssumption` |
| | `OperationsTypes` | all of the five modules |

Each is for every value of the constants: any number of cycles, containers,
requests, threads, symbols, workers, attempts, services, files, any prices. The conditions
are the ones the runs marked *violation* drop: they show what goes wrong without.

Every safety invariant and action property of the runs that pass, and both refinements,
are stated by one of these theorems. Only model-checked is liveness (`EveryCycleEnds`,
`LeakHeals`, `EveryRequestEnds`, `LeaksAreFreed`, `RetriesSuffice`), which needs fairness
and `ENABLED`, out of the prover's reach.

*Sums.* `Staked` and `Spent` are folds, recursive functions over the subsets of a finite
set, and the prover has no induction over data. What the proof needs of them, that the
function exists and that a change of one summand changes the sum by as much, is shown by a
smallest counterexample instead (`SmallestSubset`, `SumsExist`, `OneChanges`), which is why
`OrdersAssumption` says that symbols and options are finitely many.
`CloudRunDeploymentProofs` takes the newest revision that fits in the same way.

*What the proofs changed.* The inductive invariants hold on the runs' instances too
(`OperationsInv` of `OperationsProofs` with the constants of `MCOperations.cfg`, `Backed`
with those of `orders_solvent`). `MissedRunsAreReported` needed `0 < d + Grace`: with
no grace, a run due at slot 0 would count the look the watch is supposed to have begun
with; the hypothesis it had before, that runs are a lookback apart, turned out not to be
needed. `OptionsAreCovered` does not need `~CancelsPartly`, which its run assumes, and
`SharesNeverBorrow` shows that the debt is what the run `orders_debt` fails on.

*What the code counts and what is there.* `ReserveKept`, `OptionsCovered` and
`BuysNeverBorrow` are stated up to `overstated`: a cycle spends no more than the account
has, the reserve apart, and what fills without a price were counted too high. Without such
fills `overstated` is 0 and they are what their names say; with them the code can spend
that much more, which no cycle notices.

## 5. Findings

* `orders_debt`: a negative cash balance reads as 0 (`ES:454`), so the proceeds
  of a sale count in full although part of them pays the debt off (`ES:2003`).
* `orders_cancels`: an order cancelled after a partial fill counts as refused
  (`ES:322`), and the cycle says *blocked* although shares changed hands.
* `request_remote`: an exception of the remote half of a monitor dispatch drops
  the recycle its local half asked for: the route asks for it after the dispatch has
  returned (`http_routes.py:364`), and its handler does not (`http_routes.py:347`).
* `paper_cleared`: in a process that has not rebalanced yet the new-risk gate has
  no snapshot and rejects every purchase (`ibkr_order_execution.py:118`), the ones
  that cover a short position included, so the liquidation that
  `docs/ibkr_paper_top50_switch.md:28` invokes "to clear the paper account" leaves
  its shorts, and answers *submitted* if it sold a long position.

Seen while modelling, and kept as hazards with a note because no document of the
repository says otherwise or the code fails closed on purpose: options are sized
on a buying power the share purchases have not reduced (`ES:2184`); the cash
sweep can be sold and bought back in one cycle (`ES:2086`); a cycle that puts its
buys off and places nothing keeps the day's lock (`ES:1877`); a claim of a cycle
that died before its first order uses up the date; a live run is refused as
"already running" while a leaked lock waits for the recycle; a liquidation that is
repeated while its orders work submits them again (`Patient` is the assumption
that rules it out).

**Divergences met** in the programs around the service. The models follow the
code in each; a property is stated so far as the code keeps it.

1. The ledger sets five digests, `_resolve_expected_digests`
   (`broker_reconciliation.py:366`) insists on six: every `/reconcile` of a service
   that was activated by a ledger fails (`DigestsReadable`, `Planned`).
2. `docs/ibkr_reconciliation_baseline_enrollment.zh-CN.md:69` says that the replay
   of a ledger fails closed; a later deployment whose variable still names it
   applies it again (`Deploy`), and `observed_at` is stamped after the surfaces have
   been read, so evidence can be older than its date (`ReadHoldings`,
   `FinishReading`).
3. `collect-reconciliation-evidence.yml` records the digest of a file where
   `build_reconciliation_baseline_candidate.py:67` compares the digest of the
   evidence in it. The model takes the script's view (`SourcesBound`).
4. The heartbeat reads its targets from the inventory, without ledger and without
   the environment's `RUNTIME_TARGET_JSON`, so that after an activation schedules run
   whose reports nobody requires, although `build_cloud_run_env_sync_plan.py:583` says
   that the two use one boundary. `Watched` is the inventory's.
5. A switch that is neither a yes nor a no is an error to the sync plan
   (`Readable`), a yes to the heartbeat (`Enabled`) and a no to the guard
   (`SwitchedOn`); the guard does not look at the continuity state at all.
6. The heartbeat counts Scheduler jobs that call `/`
   (`execution_report_heartbeat.py:607`); the workflow makes them call `/run`. The
   narrowing to services with a due job therefore does not apply to them
   (`JobAtRoot`, `DueService`); and if it leaves no service of a due target, `main`
   goes on with all due targets (`Kept`).
7. The plan does not compare `IBKR_DRY_RUN_ONLY` with the target's `dry_run_only`;
   the admission of the next image refuses a service on which they differ
   (`Admitted`).
8. A run that only updates the environment, for a commit older than the template's,
   gives an older revision with its old environment the traffic and succeeds:
   `SuccessMeansDeployed` is stated for runs that deploy an image and meet no other
   run (`Undisturbed`).
9. A Scheduler job is created enabled and paused in a later loop (`EnsureJob`,
   `SettleJob`): `ResumedBehindTraffic` speaks of paused jobs that are resumed.
10. The guard reads from the creation of the latest ready revision, which need not
    have the traffic: it hides earlier failures that no guard has alarmed
    (`LogSince`); `FailuresAreAlarmed` excepts them.
11. `reconcile_cloud_runtime.py` in its dry run raises whenever it is to check the
    traffic it did not move. Dry runs are left out.
12. A retired job whose `describe` fails, for whatever reason, counts as gone
    (`reconcile_cloud_runtime.py:148`, `372`): a run that succeeds may leave it
    (`RetireJobs`), so `SuccessMeansDeployed` says nothing of retired jobs.
13. Traffic that is on the chosen revision is not pinned (`reconcile_cloud_runtime.py:269`):
    a service that follows its latest revision goes on doing so, and a run with an image
    only then moves its traffic, while it leaves pinned traffic where it was (`Shift`,
    `DeployImage`, `Reached`).
14. A service that the environment names and the inventory does not have is required
    without a due time (`execution_report_heartbeat.py:407`, `1136`): it is alarmed
    whenever some target is due and it left no accepted report in the window, though no run
    of it may have been due. `AlarmsHaveCause` has it as a disjunct of its own.
15. A fill that is reported without a price counts at the quote (`ES:1250`), which can be
    more than it brought (`Counted`, `overstated`).
16. The looks at orders and fills of a paper cycle read the session's cache (`ES:458`), and
    the one at fills is skipped when the signal has no trade date (`ES:571`) and finds
    nothing when it is another day's; the sale of what a hidden order has sold is one
    `ReducingOrdersReduce` cannot exclude (`hidden`, `dated`).

## 6. What the models assume

* `ExecutionClaim`: an order whose report was a failure has ended at the broker.
  The marker store of a dry run may be local; the model lets dry runs share one,
  which only adds behaviours. `has_prior_execution_report` and the stores are
  libraries, modelled from their use. The owner fence is re-entrant for one
  profile, so two account groups on one account have two keys: the claim does not
  promise to exclude that.
* `RebalanceOrders`: cash-only execution (the default), whole shares, at most one
  sweep symbol; an option costs its notional;
  `should_sell_cash_sweep_to_fund_whole_share_buy` is a library function of which
  the model uses a necessary condition, so it may sweep more often than the code.
  What an option costs is not taken from `cash`, so `ReserveKept` speaks of the
  shares only; `BuysNeverBorrow` has both.
* `GatewaySession`: a zonal instance; a bare instance name does not resolve from
  the container; a retried connect has at least two attempts (with
  `IBKR_CONNECT_ATTEMPTS=1` a stale host is never refreshed and `RetriesSuffice`
  is false).
* `PaperLiquidation`: one broker account (positions of two accounts in one symbol
  overwrite each other at `BA:260`), the gate enabled (its default), and an order
  whose report was not an accepted status has ended at the broker. Which verdict a
  snapshot gets is the policy of a library: any.
* `ReconciliationRecovery`: the evaluations of enrolment and activation are a
  library's, modelled from what the scripts pass to them and read from them:
  clean, fresh and equal receipts; a fresh confirmation, and a fresh receipt that
  is later and shows what the candidate has. A frozen target is `RECONCILE_ONLY`
  in the inventory; the ledger is the only way out of it.
* `ReportHeartbeat`: what makes one report acceptable (status, errors, guards) is
  one Boolean; the workflow runs on its schedule; the objects of a look are listed
  as they were at one moment; an inventory is configured (`Target # {}`).
* `RuntimeGuard`: an entry reaches the log within `Late` slots; which texts are
  failures is one Boolean of an entry.
* `CloudRunDeployment`: gcloud does what it is told or fails, and lists the newest
  revisions first.
* `PaperAdmission`: no day passes in the middle of a cycle (`NextDay`); values are in
  whole dollars. What a session is told of is fixed when it begins, of a symbol all or
  nothing for sure; told of more than that, the cycle ends at its look (`EndCycle`).
* `RunRequest`: precheck, probe, reconciliation and paper routes neither take the
  run lock nor arm the deadline and are left out.

## 7. What is not modelled, and the plan

The most important behaviour came first: what decides whether money is spent
twice, spent that is not there, or spent by two strategies, and whether a position
is closed once. Then what stands around it: how a frozen service comes back to
trading, how a deployment arrives, who notices when a run is missing or fails, and
what a paper command may do. What is left, in this order:

1. The paper command consumer and its store: the orders it proposes from a command's
   intent and quotes of its own, claims, receipts, repeated and reordered deliveries.
2. What `strategy_runtime.py`, `decision_mapper.py` and `ES` make of a signal:
   weights, reserve, small-account substitution, whole shares; then `RebalanceOrders`
   on its output, and margin mode.
3. A composition of `RunRequest` with `ExecutionClaim`: its `Core` step replaced by
   the cycle, so that a deadline can fall between a claim and its orders; and of
   `RunRequest`'s persisted or lost reports with `ReportHeartbeat`.

Not planned: the configuration parsing and the values of the environment plan
(functions of large records of strings), notifications and rendering (wording),
portfolio and quote readers (they appear as the readings `RebalanceOrders` and
`PaperAdmission` take, stale ones included), wiring, the pruning of revisions and images
and the HK verification of `sync-cloud-run-env.yml`, the workflows that only call a
script, the drift observation (`scripts/production_drift_health_observe.py`, a
report of its own), and the libraries the service is built on, modelled from their
use where they matter.
