------------------------ MODULE ReconciliationRecovery ------------------------
(***************************************************************************)
(* Bringing a frozen live service back to trading: the read-only           *)
(* POST /reconcile (application/http_routes.py,                            *)
(* application/broker_reconciliation.py), the scripts that turn its        *)
(* receipts into a reviewed candidate, a verified plan and a state ledger  *)
(* (scripts/*reconciliation*.py), and the sync plan that applies the       *)
(* ledger (scripts/reconciliation_recovery_state_ledger.py).               *)
(*                                                                         *)
(* A broker surface is a digest.  A target's fingerprint is its service    *)
(* and the number of its edits; a baseline is the fingerprint it was       *)
(* frozen with.  The scripts take any file at hand: one of another         *)
(* service or of an earlier attempt is as good an input as the right one.  *)
(* The advisory review decides nothing and is left out.                    *)
(***************************************************************************)
EXTENDS Integers, FiniteSets

CONSTANTS
  Service, Digest,
  Busy,           \* the services whose account and target change
  Object,         \* names of ledgers in the private bucket
  MaxAge,         \* how old a receipt or a confirmation may be
  MaxTime,        \* bound: clock
  MaxChanges,     \* bound: drifts, edits, freezes and deployments
  MaxReceipts, MaxCandidates, MaxConfirmations, MaxPlans  \* bounds: files

ASSUME RecoveryAssumption ==
  /\ Busy \subseteq Service
  /\ MaxAge \in Nat /\ MaxTime \in Nat /\ MaxChanges \in Nat
  /\ MaxReceipts \in Nat /\ MaxCandidates \in Nat
  /\ MaxConfirmations \in Nat /\ MaxPlans \in Nat

Surface == {"holdings", "orders"}
Observation == [Surface -> Digest]
Fingerprint == Service \X (0 .. MaxChanges)
State == {"RECONCILE_ONLY", "ACTIVE_LKG"}

\* What a process is configured with.  keys is the number of digests in
\* IBKR_RECONCILIATION_EXPECTED_DIGESTS_JSON.
Setting == [state : State, baseline : Fingerprint, keys : {0, 5, 6}, digests : Observation]
Receipt == [service : Service, baseline : Fingerprint, seen : Observation,
            clean : BOOLEAN, at : 0 .. MaxTime]
Candidate == [baseline : Fingerprint, digests : Observation, sources : SUBSET Receipt]
Confirmation == [candidate : Candidate, at : 0 .. MaxTime]
Ledger == [plan : Confirmation, service : Service]

VARIABLES
  clock, changes,
  account,     \* the broker: what each service's account holds
  actual,      \* the inventory: fingerprint of each target as it is now
  setting,     \* the inventory: each target's setting
  running,     \* the setting of the process that serves
  reading,     \* /reconcile requests in progress
  receipts, candidates, console, confirmations,
  plans,       \* verified: a plan names its confirmation, and so its candidate
  ledgers

inventoryVars == <<actual, setting>>
chainVars == <<receipts, candidates, console, confirmations, plans, ledgers>>
recoveryVars == <<clock, changes, account, inventoryVars, running, reading, chainVars>>

\* A request in progress: at most one for each service, which serves one at a time.
Request == [env : Setting, holdings : Digest]

RecoveryTypeOK ==
  /\ clock \in 0 .. MaxTime /\ changes \in 0 .. MaxChanges
  /\ account \in [Service -> Observation]
  /\ actual \in [Service -> Fingerprint]
  /\ setting \in [Service -> Setting] /\ running \in [Service -> Setting]
  /\ reading \in [Service -> SUBSET Request]
  /\ receipts \subseteq Receipt
  /\ candidates \subseteq Candidate /\ console \subseteq Candidate
  /\ confirmations \subseteq Confirmation /\ plans \subseteq Confirmation
  /\ ledgers \in [Object -> SUBSET Ledger]

RecoveryInit ==
  /\ clock = 0 /\ changes = 0
  /\ account \in [Service -> {[f \in Surface |-> d] : d \in Digest}]
  /\ actual = [s \in Service |-> <<s, 0>>]
  /\ \E configured \in {0, 6} :
       setting = [s \in Service |-> [state |-> "RECONCILE_ONLY", baseline |-> <<s, 0>>,
                                     keys |-> configured, digests |-> account[s]]]
  /\ running = setting
  /\ reading = [s \in Service |-> {}]
  /\ receipts = {} /\ candidates = {} /\ console = {} /\ confirmations = {} /\ plans = {}
  /\ ledgers = [o \in Object |-> {}]

Fresh(at) == clock - at <= MaxAge
Change == changes < MaxChanges /\ changes' = changes + 1

-----------------------------------------------------------------------------
(* POST /reconcile.  It reads the account surface by surface, and orders may *)
(* fill in between.                                                        *)

\* managedAccounts and the portfolio: positions, option positions, cash.
ReadHoldings(s) ==
  /\ reading[s] = {} /\ Cardinality(receipts) < MaxReceipts
  /\ reading' = [reading EXCEPT ![s] = {[env |-> running[s],
                                         holdings |-> account[s]["holdings"]]}]
  /\ UNCHANGED <<clock, changes, account, inventoryVars, running, chainVars>>

\* A surface cannot be read or holds a record of no account, the digests are
\* incomplete, or the container is replaced: 503 or nothing, and no receipt.
FailReading(s) ==
  /\ reading[s] # {}
  /\ reading' = [reading EXCEPT ![s] = {}]
  /\ UNCHANGED <<clock, changes, account, inventoryVars, running, chainVars>>

\* _resolve_expected_digests insists on all six.
DigestsReadable(env) == env.keys # 5

\* No recovery blocker: the account, its identity included, is in the expected state.
Clean(q, seen) == q.env.keys = 6 /\ seen = q.env.digests

\* The candidate of the answer is kept in a receipt.
ReceiptOf(s, q, seen) ==
  [service |-> s, baseline |-> q.env.baseline, seen |-> seen,
   clean |-> Clean(q, seen), at |-> clock]

\* Open orders and executions; then the evidence is dated.
FinishReading(s) ==
  /\ Cardinality(receipts) < MaxReceipts
  /\ \E q \in reading[s] :
       LET seen == [f \in Surface |-> IF f = "holdings" THEN q.holdings ELSE account[s]["orders"]]
       IN /\ DigestsReadable(q.env)
          /\ receipts' = receipts \cup {ReceiptOf(s, q, seen)}
  /\ reading' = [reading EXCEPT ![s] = {}]
  /\ UNCHANGED <<clock, changes, account, inventoryVars, running,
                 candidates, console, confirmations, plans, ledgers>>

-----------------------------------------------------------------------------
(* From receipts to a confirmed candidate. *)

\* The digest of a receipt's evidence covers all of it but the service.
Evidence(r) == [baseline |-> r.baseline, seen |-> r.seen, clean |-> r.clean, at |-> r.at]

\* The audit designates receipts of one service.
Designation(designated) ==
  designated # {} /\ \A r, q \in designated : r.service = q.service

\* The source records are the designated receipts.
Canonical(records, designated) == Designation(designated) /\ records = designated

\* Their evidence is that of the receipts that are enrolled.
SourcesBound(payloads, records, designated) ==
  /\ Canonical(records, designated)
  /\ {Evidence(r) : r \in payloads} = {Evidence(r) : r \in records}

\* Every script that takes a candidate takes its records and a designation with it.
Rechecked(c) == \E designated \in SUBSET receipts : Canonical(c.sources, designated)

\* evaluate_broker_reconciliation_baseline_enrollment
Enrollable(payloads) ==
  /\ payloads # {}
  /\ \A r \in payloads : r.clean /\ Fresh(r.at)
  /\ \A r, q \in payloads : r.seen = q.seen /\ r.baseline = q.baseline

Enroll ==
  /\ Cardinality(candidates) < MaxCandidates
  /\ \E payloads, records, designated \in SUBSET receipts :
       /\ SourcesBound(payloads, records, designated)
       /\ Enrollable(payloads)
       /\ \E r \in payloads :
            candidates' = candidates \cup
              {[baseline |-> r.baseline, digests |-> r.seen, sources |-> records]}
  /\ UNCHANGED <<clock, changes, account, inventoryVars, running, reading,
                 receipts, console, confirmations, plans, ledgers>>

\* publish_reconciliation_recovery_source.py: the snapshot is posted to the console.
\* The package it archives first, under a new name, is for people.
Publish(c) ==
  /\ Rechecked(c)
  /\ c \notin console /\ console' = console \cup {c}
  /\ UNCHANGED <<clock, changes, account, inventoryVars, running, reading,
                 receipts, candidates, confirmations, plans, ledgers>>

\* A person confirms in the console.
Confirm(c) ==
  /\ Cardinality(confirmations) < MaxConfirmations
  /\ confirmations' = confirmations \cup {[candidate |-> c, at |-> clock]}
  /\ UNCHANGED <<clock, changes, account, inventoryVars, running, reading,
                 receipts, candidates, console, plans, ledgers>>

-----------------------------------------------------------------------------
(* From a confirmation to the serving process. *)

\* _runtime_target_state
TargetFits(env, c) == env.state = "RECONCILE_ONLY" /\ env.baseline = c.baseline

\* Mutant of Reobserved: any fresh receipt of the baseline will do.
ReobservedAnyTime(c, f, r) ==
  /\ Fresh(f.at) /\ Fresh(r.at)
  /\ r.baseline = c.baseline

\* evaluate_reconciliation_recovery_activation
Reobserved(c, f, r) ==
  /\ Fresh(f.at) /\ Fresh(r.at) /\ r.at > f.at
  /\ r.baseline = c.baseline /\ r.seen = c.digests

\* The confirmation names the candidate.
Confirms(f, c) == f.candidate = c

\* verify_reconciliation_recovery.py: a candidate, the confirmation the console
\* returns, a receipt and the deployed target of some service.
Verify(c, f) ==
  /\ Cardinality(plans) < MaxPlans
  /\ Rechecked(c) /\ Confirms(f, c)
  /\ \E r \in receipts : Reobserved(c, f, r)
  /\ \E s \in Service : TargetFits(running[s], c)
  /\ plans' = plans \cup {f}
  /\ UNCHANGED <<clock, changes, account, inventoryVars, running, reading,
                 receipts, candidates, console, confirmations, ledgers>>

\* publish_reconciliation_recovery_state_ledger.py: the service is an argument;
\* the object is created, never replaced.
ArchiveLedger(p, s, o) ==
  /\ ledgers[o] = {}
  /\ ledgers' = [ledgers EXCEPT ![o] = {[plan |-> p, service |-> s]}]
  /\ UNCHANGED <<clock, changes, account, inventoryVars, running, reading,
                 receipts, candidates, console, confirmations, plans>>

\* Mutant of Admissible: the ledger is for the service, so its baseline will be too.
AdmissibleByName(s, l) ==
  actual[s] = setting[s].baseline /\ setting[s].state = "RECONCILE_ONLY"

\* apply_recovery_state_ledger
Admissible(s, l) ==
  /\ actual[s] = setting[s].baseline
  /\ setting[s].state = "RECONCILE_ONLY"
  /\ setting[s].baseline = l.plan.candidate.baseline

\* The setting the sync plan gives s; the ledger's digests override the configured.
Planned(s, used) ==
  IF \E l \in used : l.service = s
  THEN LET l == CHOOSE x \in used : x.service = s
       IN [setting[s] EXCEPT !.state = "ACTIVE_LKG", !.keys = 5,
                             !.digests = l.plan.candidate.digests]
  ELSE setting[s]

\* A deployment, with the ledger its variable names or none: the plan is made for
\* all services or refused, and reaches some of them before a step fails.  A
\* process does not start on a target that is not its baseline's.
Deploy ==
  /\ Change
  /\ \E used \in {{}} \cup {ledgers[o] : o \in Object} :
      /\ \A l \in used : Admissible(l.service, l)
      /\ \E reached \in SUBSET Service :
           running' = [s \in Service |->
             IF s \in reached /\ actual[s] = setting[s].baseline THEN Planned(s, used) ELSE running[s]]
      /\ UNCHANGED <<clock, account, inventoryVars, reading, chainVars>>

-----------------------------------------------------------------------------
(* What the scripts do not control. *)

Tick ==
  /\ clock < MaxTime /\ clock' = clock + 1
  /\ UNCHANGED <<changes, account, inventoryVars, running, reading, chainVars>>

\* An order fills, cash moves.
Drift(s) ==
  /\ Change
  /\ account' \in {[account EXCEPT ![s] = o] : o \in Observation \ {account[s]}}
  /\ UNCHANGED <<clock, inventoryVars, running, reading, chainVars>>

\* A target is edited; or frozen as it is, the digests those of the account.
Edit(s) ==
  /\ Change
  /\ actual' = [actual EXCEPT ![s] = <<s, @[2] + 1>>]
  /\ UNCHANGED <<clock, account, setting, running, reading, chainVars>>

Freeze(s) ==
  /\ Change
  /\ setting' = [setting EXCEPT ![s] = [state |-> "RECONCILE_ONLY", baseline |-> actual[s],
                                        keys |-> 6, digests |-> account[s]]]
  /\ UNCHANGED <<clock, account, actual, running, reading, chainVars>>

RecoveryNext ==
  \/ Tick \/ Enroll \/ Deploy
  \/ \E s \in Service :
       ReadHoldings(s) \/ FailReading(s) \/ FinishReading(s)
  \/ \E s \in Busy : Drift(s) \/ Edit(s) \/ Freeze(s)
  \/ \E c \in candidates : Publish(c)
  \/ \E c \in console : Confirm(c)
  \/ \E c \in candidates, f \in confirmations : Verify(c, f)
  \/ \E p \in plans, s \in Service, o \in Object : ArchiveLedger(p, s, o)

RecoverySpec == RecoveryInit /\ [][RecoveryNext]_recoveryVars

-----------------------------------------------------------------------------
(* Properties. *)

Activated(s) == running[s].state = "ACTIVE_LKG"

\* A frozen service trades again only at the end of the whole chain, whatever files
\* its scripts were given: a person confirmed a candidate made of that service's
\* own receipts for that baseline, and the account was read again after the
\* confirmation and not long after, in the very state the service now expects
\* (verify_reconciliation_recovery, apply_recovery_state_ledger).
ActivationIsReviewed ==
  \A s \in Service : Activated(s) =>
    \E f \in confirmations, r, q \in receipts :
      /\ q \in f.candidate.sources /\ q.clean
      /\ r.at > f.at /\ r.at - f.at <= MaxAge
      /\ q.service = s /\ r.service = s
      /\ q.baseline = running[s].baseline /\ r.baseline = running[s].baseline
      /\ q.seen = running[s].digests /\ r.seen = running[s].digests
=============================================================================
