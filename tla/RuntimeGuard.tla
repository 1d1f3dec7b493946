------------------------------ MODULE RuntimeGuard ------------------------------
(***************************************************************************)
(* The runtime guard: a scheduled job that reads the recent log entries of *)
(* the Cloud Run services and of their Scheduler jobs and raises an alarm  *)
(* for the failures among them (scripts/cloud_run_runtime_guard.py).       *)
(*                                                                         *)
(* Time advances in slots.  An entry reaches the log some slots after it   *)
(* was written.  A new revision starts a service's log afresh.             *)
(***************************************************************************)
EXTENDS Integers, FiniteSets, FiniteSetsExt

CONSTANTS
  NamedService,   \* in the lists of the environment
  GuardTarget,    \* items of the inventory: [service, switch]
  Window, Every, Late, Near,      \* slots: the lookback, between guards, delay of an entry, dedup
  Limit,                          \* entries a query returns
  RequireSuccess,                 \* RUNTIME_GUARD_REQUIRE_SUCCESS
  MaxHour, MaxEntries, MaxRevisions  \* bounds: the clock, the log, new revisions

Hour == 0 .. MaxHour

\* _coerce_bool: what is no yes is a no.
SwitchedOn(t) == t.switch \in {"unset", "on"}

\* The services of the enabled items, and those of disabled items only.
EnabledTarget == {t.service : t \in {i \in GuardTarget : SwitchedOn(i)}}
Retired == {t.service : t \in GuardTarget} \ EnabledTarget

\* _load_services
GuardedService == (NamedService \cup EnabledTarget) \ Retired

\* The window covers the time between two guards and the delay of the log.
ASSUME GuardAssumption ==
  /\ Window \in Nat /\ Every \in Nat \ {0} /\ Late \in Nat /\ Near \in Nat /\ Limit \in Nat
  /\ Window >= Every + Late
  /\ RequireSuccess \in BOOLEAN
  /\ MaxHour \in Nat /\ MaxEntries \in Nat /\ MaxRevisions \in Nat

VARIABLES
  hour, guarded,   \* the time; when the guard last ran
  entries,         \* the log
  ready,           \* creation of each service's latest ready revision
  rollouts,        \* new revisions so far
  rung             \* when the guard raised an alarm

guardVars == <<hour, guarded, entries, ready, rollouts, rung>>

Kind == {"run", "job"}
Entry == [kind : Kind, service : GuardedService, at : Hour, seen : Hour, failed : BOOLEAN]

GuardTypeOK ==
  /\ hour \in Hour /\ guarded \in 0 .. hour /\ hour - guarded <= Every
  /\ entries \subseteq Entry
  /\ \A e \in entries : e.at <= e.seen /\ e.seen <= hour /\ e.seen - e.at <= Late
  /\ ready \in [GuardedService -> 0 .. hour]
  /\ rollouts \in 0 .. MaxRevisions
  /\ rung \subseteq 0 .. hour

GuardInit ==
  /\ hour = 0 /\ guarded = 0 /\ entries = {} /\ rung = {}
  /\ ready = [s \in GuardedService |-> 0] /\ rollouts = 0

-----------------------------------------------------------------------------
(* One guard. *)

From == hour - Window

\* _cloud_run_log_since: the fallback when the revision cannot be described.
LogSince(s, described) == IF described THEN Max({From, ready[s]}) ELSE From

\* gcloud logging read: the newest entries, as many as the limit allows.
Returned(matching) ==
  {got \in SUBSET matching :
     /\ Cardinality(got) = Min({Limit, Cardinality(matching)})
     /\ \A e \in got, f \in matching \ got : f.at <= e.at}

RunEntries(s, described) ==
  {e \in entries : e.kind = "run" /\ e.service = s /\ e.at >= LogSince(s, described)}

JobEntries == {e \in entries : e.kind = "job" /\ e.at >= From}

\* Mutant of JobSince: the newest revision of any service.
JobSinceNewest(s, described) == Max({From} \cup {LogSince(x, described) : x \in GuardedService})

\* _scheduler_entry_since: the revision of the service the job calls.
JobSince(s, described) == LogSince(s, described)

\* _is_duplicate_scheduler_failure: the service failed at about the same time.
Duplicate(e, runs) ==
  \E f \in runs : /\ f.failed /\ f.service = e.service
                  /\ e.at - f.at <= Near /\ f.at - e.at <= Near

\* _services_without_success
Unsuccessful(answered, runs) == {s \in answered : \A e \in runs : e.service = s => e.failed}

\* main: the issues of the services, of their successes and of the jobs.  A query
\* that fails, at the last attempt, is an issue.
Issues(answered, jobsAnswered, runs, jobs, described) ==
  \/ answered # GuardedService \/ ~jobsAnswered
  \/ \E e \in runs : e.failed
  \/ RequireSuccess /\ Unsuccessful(answered, runs) # {}
  \/ \E e \in jobs : e.failed /\ e.at >= JobSince(e.service, described) /\ ~Duplicate(e, runs)

\* Whether a guard of this moment can come to this.
Outcome(alarmed) ==
  \E answered \in SUBSET GuardedService, jobsAnswered, described \in BOOLEAN :
    \E got \in [answered -> SUBSET entries] :
      /\ \A s \in answered : got[s] \in Returned(RunEntries(s, described))
      /\ \E jobs \in IF jobsAnswered THEN Returned(JobEntries) ELSE {{}} :
           alarmed = Issues(answered, jobsAnswered, UNION {got[s] : s \in answered},
                            jobs, described)

Guard ==
  /\ \E alarmed \in {x \in BOOLEAN : Outcome(x)} :
       rung' = IF alarmed THEN rung \cup {hour} ELSE rung
  /\ guarded' = hour
  /\ UNCHANGED <<hour, entries, ready, rollouts>>

-----------------------------------------------------------------------------
\* A request or a job ends, or ended a while ago, and its entry is ingested now.
Ingest(s) ==
  /\ Cardinality(entries) < MaxEntries
  /\ \E kind \in Kind, failed \in BOOLEAN, at \in Hour :
       /\ at <= hour /\ hour - at <= Late
       /\ entries' = entries \cup
            {[kind |-> kind, service |-> s, at |-> at, seen |-> hour, failed |-> failed]}
  /\ UNCHANGED <<hour, guarded, ready, rollouts, rung>>

Rollout(s) ==
  /\ rollouts < MaxRevisions /\ rollouts' = rollouts + 1
  /\ ready' = [ready EXCEPT ![s] = hour]
  /\ UNCHANGED <<hour, guarded, entries, rung>>

\* The workflow is scheduled.
Later ==
  /\ hour < MaxHour /\ hour - guarded < Every
  /\ hour' = hour + 1
  /\ UNCHANGED <<guarded, entries, ready, rollouts, rung>>

GuardNext ==
  \/ Guard \/ Later
  \/ \E s \in GuardedService : Ingest(s) \/ Rollout(s)

GuardSpec == GuardInit /\ [][GuardNext]_guardVars

-----------------------------------------------------------------------------
(* Properties. *)

\* Entries of the query e is an answer to, that are not older than e.
NoOlder(e) ==
  {f \in entries : f.kind = e.kind /\ (e.kind = "run" => f.service = e.service) /\ f.at >= e.at}

\* A failure is alarmed by the first guard after it reached the log at the latest,
\* although queries fail, entries are late and a Scheduler failure is taken for its
\* service's: unless a later revision hides it or the query was too short
\* (main, _cloud_run_log_since, _is_duplicate_scheduler_failure).
FailuresAreAlarmed ==
  \A e \in entries :
    \/ ~e.failed
    \/ hour <= e.seen + Every \/ ready[e.service] > e.at
    \/ Cardinality(NoOlder(e)) > Limit
    \/ \E a \in rung : e.seen <= a /\ a <= e.seen + Every
=============================================================================
