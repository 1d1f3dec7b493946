---------------------------- MODULE ReportHeartbeat ----------------------------
(***************************************************************************)
(* The execution report heartbeat: a scheduled job that raises an alarm    *)
(* when a run that was due left no acceptable report                       *)
(* (scripts/execution_report_heartbeat.py, scripts/runtime_heartbeat_      *)
(* policy.py).                                                             *)
(*                                                                         *)
(* Time advances in slots.  A cron expression is the set of slots it       *)
(* matches, a market calendar the set of slots on its session dates.       *)
(* Reports land at any time: late ones, reruns, failed runs, previews.     *)
(***************************************************************************)
EXTENDS Integers, FiniteSets, FiniteSetsExt

CONSTANTS
  Target,        \* inventory items: [service, switch, continuity, market, written]
  Cron,          \* slots in which each target's main job is due
  JobAtRoot,     \* services whose Scheduler job calls the path "/"
  Session,       \* of each market with a calendar: the slots of its session dates
  SharedSchedule, \* whether CLOUD_SCHEDULER_MAIN_TIME is set
  Explicit,      \* RUNTIME_HEARTBEAT_REQUIRED_SERVICES; {} when it is not set
  Named,         \* the services of CLOUD_RUN_SERVICES and CLOUD_RUN_SERVICE
  StrayCron,     \* slots in which a job is due whose service is in no inventory item
  Lookback, Grace, Period, Cap,   \* the slots of the windows; reports a look reads
  MaxSlot, MaxReports             \* bounds: the clock; the reports

Slot == 0 .. MaxSlot

Inventory == {t.service : t \in Target}

\* Services the environment names and no item does.
Stray == (Explicit \cup Named) \ Inventory

\* A look covers the time since the last one and the runs it found too young.
ASSUME HeartbeatAssumption ==
  /\ Target # {} /\ Cron \in [Target -> SUBSET Slot]
  /\ \A m \in DOMAIN Session : Session[m] \subseteq Slot
  /\ SharedSchedule \in BOOLEAN
  /\ StrayCron \in [JobAtRoot \ Inventory -> SUBSET Slot]
  /\ Lookback \in Nat /\ Grace \in Nat /\ Period \in Nat \ {0} /\ Cap \in Nat /\ MaxSlot \in Nat
  /\ Lookback >= Grace + Period
  /\ MaxReports \in Nat

VARIABLES
  now, looked,   \* the time; when the heartbeat last ran
  reports,       \* objects in the bucket
  alarms,        \* when a look raised an alarm
  verdict        \* the last look: [alarm, troubled], troubled if gcloud failed it

heartbeatVars == <<now, looked, reports, alarms, verdict>>

\* What reports are of: an item or a service that has none.
Source == Target \cup {[service |-> s] : s \in Stray}

Report == [target : Source, updated : Slot, accepted : BOOLEAN]

HeartbeatTypeOK ==
  /\ now \in Slot /\ looked \in Slot /\ looked <= now /\ now - looked <= Period
  /\ reports \subseteq Report /\ \A r \in reports : r.updated <= now
  /\ alarms \subseteq 0 .. now
  /\ verdict \in [alarm : BOOLEAN, troubled : BOOLEAN]

HeartbeatInit ==
  /\ now = 0 /\ looked = 0 /\ reports = {} /\ alarms = {}
  /\ verdict = [alarm |-> FALSE, troubled |-> FALSE]

-----------------------------------------------------------------------------
(* Which targets must have reported. *)

\* _enabled: what is no no is a yes.
Enabled(t) == t.switch # "off"

\* runtime_target_permits_standard_execution
Permitted(t) == t.continuity \in {"none", "ACTIVE_LKG", "ROLLBACK_LKG"}

\* load_runtime_targets
Watched == {t \in Target : Enabled(t) /\ Permitted(t)}

\* _normalize_target: the schedule is in the item or in the environment,
Written(t) == t.written \/ SharedSchedule

\* and the item's market may have a calendar.
HasCalendar(t) == t.market \in DOMAIN Session
OpenSlots(t) == IF HasCalendar(t) THEN Session[t.market] ELSE Slot

Since == now - Lookback

\* cron_matches
Matches(t, slot) == slot \in Cron[t]

\* The target's main job is due at some slot from from to to.
DueSlots(t, from, to) == {d \in Slot : Matches(t, d) /\ from <= d /\ d <= to}

\* Mutant of Matured: a run is expected to have reported the moment it is due.
MaturedAtOnce(t) == DueSlots(t, Since, now)

\* The due slots of the window that are old enough for a report.
Matured(t) == DueSlots(t, Since, now - Grace)

\* _target_due_status.  A target whose calendar cannot be read stays required, from
\* the latest slot of the cron if there is one.
Due(t, calendar) == IF calendar THEN Matured(t) \cap OpenSlots(t) ELSE Matured(t)
Required(t, calendar) == (HasCalendar(t) /\ ~calendar) \/ Due(t, calendar) # {}

\* match_payload_target
Meant(r, t) == r.target = t

\* The report is the target's, is acceptable and does not predate the latest due slot.
Suffices(r, t, calendar) ==
  /\ Meant(r, t) /\ r.accepted
  /\ \A d \in Due(t, calendar) : d <= r.updated

\* _filter_scheduler_due_services: a job at another path does not count, and a service
\* without a job that counts is due.  A job is due when its targets are.
DueService(s) ==
  s \in JobAtRoot =>
    \/ s \in Inventory /\ \E t \in Watched : t.service = s /\ DueSlots(t, Since, now) # {}
    \/ s \notin Inventory /\ \E d \in StrayCron[s] : Since <= d /\ d <= now

\* _filter_disabled_services: the services all of whose targets are left out.
Services(targets) == {t.service : t \in targets}
Disabled == Inventory \ Services(Watched)

\* _resolve_required_services: the explicit services, or the named ones and those of the
\* watched targets, all of them when the jobs cannot be listed.
Answered(listing) ==
  IF Explicit # {} THEN Explicit \ Disabled
  ELSE {s \in (Named \ Disabled) \cup Services(Watched) : listing => DueService(s)}

\* filter_services_for_targets: a service in no item stays, whatever is due.
Remaining(targets, listing) ==
  {s \in Answered(listing) : s \in Services(Watched) => s \in Services(targets)}

\* What main makes of it: no service to answer for ends the look, none that remains
\* leaves all targets that are due.
Kept(targets, listing) ==
  LET remaining == Remaining(targets, listing)
  IN {t \in targets : Answered(listing) # {} /\ (t.service \in remaining \/ remaining = {})}

-----------------------------------------------------------------------------
(* A look at the reports. *)

\* The newest of the listed reports, as many as a look reads.
NewestReports(listed) ==
  {read \in SUBSET listed :
     /\ Cardinality(read) = Min({Cap, Cardinality(listed)})
     /\ \A r \in read, q \in listed \ read : q.updated <= r.updated}

\* Some target has no report that suffices among those that can be read.
Missing(targets, readable, calendar) ==
  \E t \in targets : \A r \in readable : ~ Suffices(r, t, calendar)

\* A service in no item has no report that is accepted.  A look ends when no target is
\* watched (runtime_target_configuration_has_enabled_targets) or none is due.
Unheard(targets, listing, readable) ==
  /\ targets # {}
  /\ \E s \in Remaining(targets, listing) \ Inventory :
       \A r \in readable : ~(r.target.service = s /\ r.accepted)

\* _hydrate_runtime_target_schedules: a schedule that is not in its target comes from
\* the Scheduler.
Unscheduled(jobs) == ~jobs /\ \E t \in Watched : ~Written(t)

\* Mutant of Alarm: a look that cannot read its calendar is skipped.
AlarmWithCalendar(readable, calendar, jobs, listing) ==
  /\ calendar
  /\ LET targets == {t \in Watched : Required(t, calendar)}
     IN \/ Unscheduled(jobs)
        \/ Missing(Kept(targets, listing), readable, calendar)
        \/ Unheard(targets, listing, readable)

Alarm(readable, calendar, jobs, listing) ==
  LET targets == {t \in Watched : Required(t, calendar)}
  IN \/ Unscheduled(jobs)
     \/ Missing(Kept(targets, listing), readable, calendar)
     \/ Unheard(targets, listing, readable)

InWindow == {r \in reports : r.updated >= Since}

\* An object that cannot be read counts as read.
ReadFrom(listed) == UNION {SUBSET read : read \in NewestReports(listed)}

\* A month whose listing fails loses its objects.
Verdicts(listed) ==
  {[alarm |-> Alarm(readable, calendar, jobs, listing),
    troubled |-> ~(/\ listed = InWindow /\ readable \in NewestReports(listed)
                   /\ calendar /\ jobs /\ listing)] :
     readable \in ReadFrom(listed), calendar, jobs, listing \in BOOLEAN}

Look ==
  /\ verdict' \in UNION {Verdicts(listed) : listed \in SUBSET InWindow}
  /\ alarms' = IF verdict'.alarm THEN alarms \cup {now} ELSE alarms
  /\ looked' = now
  /\ UNCHANGED <<now, reports>>

-----------------------------------------------------------------------------
\* A run ends, whatever started it, and its report is stored.
Land(t) ==
  /\ Cardinality(reports) < MaxReports
  /\ \E ok \in BOOLEAN :
       reports' = reports \cup {[target |-> t, updated |-> now, accepted |-> ok]}
  /\ UNCHANGED <<now, looked, alarms, verdict>>

\* The workflow is scheduled every Period slots.
Pass ==
  /\ now < MaxSlot /\ now - looked < Period
  /\ now' = now + 1
  /\ UNCHANGED <<looked, reports, alarms, verdict>>

HeartbeatNext == Look \/ Pass \/ \E t \in Source : Land(t)

HeartbeatSpec == HeartbeatInit /\ [][HeartbeatNext]_heartbeatVars

-----------------------------------------------------------------------------
(* Properties. *)

\* The targets the workflow answers for.
Covered == {t \in Watched : Explicit # {} => t.service \in Explicit}

\* A run that was due on an open day and left no acceptable report is alarmed within a
\* period of the end of its grace, however soon the next one is due and whatever fails in
\* the looks meanwhile: a listing, an object, the calendar, the Scheduler (main,
\* _target_due_status).  Nothing is said of a run that was due to have reported when the
\* watch began.
MissedRunsAreReported ==
  \A t \in Covered : \A d \in Cron[t] \cap OpenSlots(t) :
    (/\ 0 < d + Grace /\ d + Grace + Period <= now
     /\ \A r \in reports : ~(r.target = t /\ r.accepted /\ r.updated >= d))
    => \E a \in alarms : d + Grace <= a /\ a <= d + Grace + Period

\* A run of the target that is due on an open day has had its time.
HadItsTime(t, d) == d \in Cron[t] \cap OpenSlots(t) /\ d + Grace <= now

\* No run of it since has left an acceptable report.
NothingSince(source, d) ==
  \A r \in reports : source = r.target /\ r.accepted => r.updated < d

\* An alarm means something: a call failed, the bucket holds more reports than a look reads,
\* a run that had its time left no acceptable report; or, when some run in the window had
\* its time, a service the environment names and no item does left none in the whole window,
\* though no run of it may have been due (main, _load_required_service_candidates).
AlarmsHaveCause ==
  [][<<alarms, verdict>>' # <<alarms, verdict>> /\ verdict'.alarm =>
       \/ verdict'.troubled
       \/ Cardinality(reports) > Cap
       \/ \E t \in Watched : \E d \in Slot : HadItsTime(t, d) /\ NothingSince(t, d)
       \/ /\ \E t \in Watched : \E d \in Slot : HadItsTime(t, d) /\ Since <= d
          /\ \E s \in Stray : NothingSince([service |-> s], Since)]_heartbeatVars
=============================================================================
