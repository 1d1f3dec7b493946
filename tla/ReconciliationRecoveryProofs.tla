--------------------- MODULE ReconciliationRecoveryProofs ---------------------
(***************************************************************************)
(* Proofs about ReconciliationRecovery, for any services, digests, ages    *)
(* and numbers of files.                                                   *)
(*                                                                         *)
(* ActivationIsReviewed speaks of the serving process and of receipts; in  *)
(* between lie four files.  Each file's part of the invariant says what    *)
(* its script has checked, and OfService that a fingerprint never moves    *)
(* from one service to another: it is what keeps the files of two services *)
(* apart, as the scripts themselves do not compare services.               *)
(***************************************************************************)
EXTENDS ReconciliationRecoveryRefinement, TLAPS

\* A target's fingerprint is of its service; an inventory holds frozen targets only.
OfService ==
  /\ \A s \in Service :
       /\ actual[s] \in {s} \X (0 .. changes)
       /\ setting[s].baseline[1] = s /\ setting[s].state = "RECONCILE_ONLY"
       /\ running[s].baseline[1] = s
       /\ \A q \in reading[s] : q.env.baseline[1] = s
  /\ \A r \in receipts : r.baseline[1] = r.service /\ r.at <= clock

Sourced(c) ==
  /\ c.sources \subseteq receipts
  /\ \E q \in c.sources : q.clean /\ q.baseline = c.baseline /\ q.seen = c.digests

Proven(p) ==
  /\ p \in confirmations
  /\ \E r \in receipts : /\ r.at > p.at /\ r.at - p.at <= MaxAge
                         /\ r.baseline = p.candidate.baseline /\ r.seen = p.candidate.digests

ChainOK ==
  /\ \A c \in candidates \cup console : Sourced(c)
  /\ \A f \in confirmations : Sourced(f.candidate)
  /\ \A p \in plans : Proven(p)
  /\ \A o \in Object : \A l \in ledgers[o] : l.plan \in plans

Traced(s) ==
  Activated(s) => \E p \in plans : /\ running[s].baseline = p.candidate.baseline
                                   /\ running[s].digests = p.candidate.digests

RecoveryInv ==
  RecoveryTypeOK /\ OfService /\ ChainOK /\ \A s \in Service : Traced(s)

-----------------------------------------------------------------------------

LEMMA RecoveryInitInv == RecoveryInit => RecoveryInv
<1> SUFFICES ASSUME RecoveryInit PROVE RecoveryInv
  OBVIOUS
<1> USE RecoveryAssumption
<1>0. \A s \in Service : account[s] \in Observation /\ <<s, 0>> \in Fingerprint
  BY DEF RecoveryInit, Observation, Fingerprint
<1>1. PICK configured \in {0, 6} :
        setting = [s \in Service |-> [state |-> "RECONCILE_ONLY", baseline |-> <<s, 0>>,
                                      keys |-> configured, digests |-> account[s]]]
  BY DEF RecoveryInit
<1>2. setting \in [Service -> Setting]
  BY <1>0, <1>1 DEF Setting, State
<1>3. RecoveryTypeOK
  <2>1. account \in [Service -> Observation] /\ actual \in [Service -> Fingerprint]
    BY <1>0 DEF RecoveryInit
  <2> QED BY <1>2, <2>1 DEF RecoveryInit, RecoveryTypeOK
<1>4. OfService
  BY <1>1 DEF RecoveryInit, OfService
<1>5. ChainOK
  BY DEF RecoveryInit, ChainOK
<1>6. ASSUME NEW s \in Service PROVE Traced(s)
  BY <1>1 DEF RecoveryInit, Traced, Activated
<1> QED BY <1>3, <1>4, <1>5, <1>6 DEF RecoveryInv

\* A file keeps what is behind it: files are only ever added.
LEMMA FilesStay ==
  ASSUME ChainOK, receipts \subseteq receipts', confirmations \subseteq confirmations'
  PROVE  /\ \A c : Sourced(c) => Sourced(c)'
         /\ \A p : Proven(p) => Proven(p)'
  BY DEF Sourced, Proven

\* The setting a sync plan gives a service.
LEMMA PlannedSetting ==
  ASSUME RecoveryTypeOK, OfService, NEW s \in Service, NEW used \in SUBSET Ledger
  PROVE  /\ Planned(s, used) \in Setting
         /\ Planned(s, used).baseline = setting[s].baseline
         /\ Planned(s, used).state = "ACTIVE_LKG" =>
              \E l \in used : l.service = s /\ Planned(s, used).digests = l.plan.candidate.digests
<1>0. setting[s] \in Setting /\ setting[s].state = "RECONCILE_ONLY"
  BY DEF RecoveryTypeOK, OfService
<1>1. CASE \E l \in used : l.service = s
  <2> DEFINE l == CHOOSE x \in used : x.service = s
  <2>1. l \in used /\ l.service = s
    BY <1>1
  <2>2. l.plan.candidate.digests \in Observation
    BY <2>1 DEF Ledger, Confirmation, Candidate
  <2>3. Planned(s, used) = [setting[s] EXCEPT !.state = "ACTIVE_LKG", !.keys = 5,
                                              !.digests = l.plan.candidate.digests]
    BY <1>1 DEF Planned
  <2> HIDE DEF l
  <2> QED BY <1>0, <2>1, <2>2, <2>3 DEF Setting, State
<1>2. CASE ~ \E l \in used : l.service = s
  BY <1>0, <1>2 DEF Planned
<1> QED BY <1>1, <1>2

-----------------------------------------------------------------------------
(* The steps. *)

LEMMA ReadHoldingsInv == ASSUME RecoveryInv, NEW s \in Service, ReadHoldings(s) PROVE RecoveryInv'
<1> USE RecoveryAssumption DEF inventoryVars, chainVars
<1>0. RecoveryTypeOK /\ OfService /\ ChainOK /\ \A v \in Service : Traced(v)
  BY DEF RecoveryInv
<1>1. [env |-> running[s], holdings |-> account[s]["holdings"]] \in Request
  BY <1>0 DEF RecoveryTypeOK, Observation, Surface, Request
<1>2. RecoveryTypeOK'
  BY <1>0, <1>1 DEF ReadHoldings, RecoveryTypeOK
<1>3. OfService'
  BY <1>0 DEF ReadHoldings, OfService, RecoveryTypeOK
<1>4. ChainOK'
  BY <1>0 DEF ReadHoldings, ChainOK, Sourced, Proven
<1>5. ASSUME NEW v \in Service PROVE Traced(v)'
  BY <1>0 DEF ReadHoldings, Traced, Activated
<1> QED BY <1>2, <1>3, <1>4, <1>5 DEF RecoveryInv

LEMMA FailReadingInv == ASSUME RecoveryInv, NEW s \in Service, FailReading(s) PROVE RecoveryInv'
<1> USE RecoveryAssumption DEF inventoryVars, chainVars
<1>0. RecoveryTypeOK /\ OfService /\ ChainOK /\ \A v \in Service : Traced(v)
  BY DEF RecoveryInv
<1>2. RecoveryTypeOK'
  BY <1>0 DEF FailReading, RecoveryTypeOK
<1>3. OfService'
  BY <1>0 DEF FailReading, OfService, RecoveryTypeOK
<1>4. ChainOK'
  BY <1>0 DEF FailReading, ChainOK, Sourced, Proven
<1>5. ASSUME NEW v \in Service PROVE Traced(v)'
  BY <1>0 DEF FailReading, Traced, Activated
<1> QED BY <1>2, <1>3, <1>4, <1>5 DEF RecoveryInv

LEMMA FinishReadingInv == ASSUME RecoveryInv, NEW s \in Service, FinishReading(s) PROVE RecoveryInv'
<1> USE RecoveryAssumption DEF inventoryVars
<1>0. RecoveryTypeOK /\ OfService /\ ChainOK /\ \A v \in Service : Traced(v)
  BY DEF RecoveryInv
<1> DEFINE seen(q) ==
      [f \in Surface |-> IF f = "holdings" THEN q.holdings ELSE account[s]["orders"]]
<1>1. PICK q \in reading[s] :
        receipts' = receipts \cup
          {[service |-> s, baseline |-> q.env.baseline, seen |-> seen(q),
            clean |-> Clean(q, seen(q)), at |-> clock]}
  BY DEF FinishReading, ReceiptOf
<1>2. q \in Request /\ q.env.baseline \in Fingerprint
  BY <1>0, <1>1 DEF RecoveryTypeOK, Request, Setting
<1>3. seen(q) \in Observation
  BY <1>0, <1>2 DEF RecoveryTypeOK, Observation, Surface, Request
<1>4. Clean(q, seen(q)) \in BOOLEAN
  BY DEF Clean
<1> DEFINE new == [service |-> s, baseline |-> q.env.baseline, seen |-> seen(q),
                   clean |-> Clean(q, seen(q)), at |-> clock]
<1>5. new \in Receipt
  BY <1>0, <1>2, <1>3, <1>4 DEF RecoveryTypeOK, Receipt
<1>6. new.baseline[1] = new.service /\ new.at <= clock
  BY <1>0, <1>1 DEF OfService, RecoveryTypeOK
<1> HIDE DEF new
<1>7. receipts' = receipts \cup {new}
  BY <1>1 DEF new
<1>8. RecoveryTypeOK'
  BY <1>0, <1>5, <1>7 DEF FinishReading, RecoveryTypeOK
<1>9. OfService'
  BY <1>0, <1>6, <1>7 DEF FinishReading, OfService, RecoveryTypeOK
<1>10. ChainOK'
  BY <1>0, <1>7, FilesStay DEF FinishReading, ChainOK
<1>11. ASSUME NEW v \in Service PROVE Traced(v)'
  BY <1>0 DEF FinishReading, Traced, Activated
<1> QED BY <1>8, <1>9, <1>10, <1>11 DEF RecoveryInv

\* A candidate has a record of what it was made from.
LEMMA EnrollInv == ASSUME RecoveryInv, Enroll PROVE RecoveryInv'
<1> USE RecoveryAssumption DEF inventoryVars
<1>0. RecoveryTypeOK /\ OfService /\ ChainOK /\ \A v \in Service : Traced(v)
  BY DEF RecoveryInv
<1>1. PICK payloads \in SUBSET receipts, records \in SUBSET receipts,
           designated \in SUBSET receipts :
        /\ SourcesBound(payloads, records, designated)
        /\ Enrollable(payloads)
        /\ \E r \in payloads :
             candidates' = candidates \cup
               {[baseline |-> r.baseline, digests |-> r.seen, sources |-> records]}
  BY DEF Enroll
<1>2. PICK r \in payloads :
        candidates' = candidates \cup
          {[baseline |-> r.baseline, digests |-> r.seen, sources |-> records]}
  BY <1>1
<1>3. r \in Receipt /\ records \subseteq Receipt
  BY <1>0, <1>1, <1>2 DEF RecoveryTypeOK
<1>4. PICK q \in records : Evidence(q) = Evidence(r)
  <2>1. Evidence(r) \in {Evidence(p) : p \in payloads}
    BY <1>2
  <2>2. {Evidence(p) : p \in payloads} = {Evidence(p) : p \in records}
    BY <1>1 DEF SourcesBound, Canonical, Designation
  <2> QED BY <2>1, <2>2
<1>5. q.clean = r.clean /\ q.baseline = r.baseline /\ q.seen = r.seen
  BY <1>4 DEF Evidence
<1>6. r.clean
  BY <1>1, <1>2 DEF Enrollable
<1> DEFINE new == [baseline |-> r.baseline, digests |-> r.seen, sources |-> records]
<1>7. new \in Candidate
  BY <1>3 DEF Receipt, Candidate
<1>8. Sourced(new)
  BY <1>1, <1>4, <1>5, <1>6 DEF Sourced
<1> HIDE DEF new
<1>9. candidates' = candidates \cup {new}
  BY <1>2 DEF new
<1>10. RecoveryTypeOK'
  BY <1>0, <1>7, <1>9 DEF Enroll, RecoveryTypeOK
<1>11. OfService'
  BY <1>0 DEF Enroll, OfService
<1>12. ChainOK'
  BY <1>0, <1>8, <1>9 DEF Enroll, ChainOK, Sourced, Proven
<1>13. ASSUME NEW v \in Service PROVE Traced(v)'
  BY <1>0 DEF Enroll, Traced, Activated
<1> QED BY <1>10, <1>11, <1>12, <1>13 DEF RecoveryInv

LEMMA PublishInv == ASSUME RecoveryInv, NEW c \in candidates, Publish(c) PROVE RecoveryInv'
<1> USE RecoveryAssumption DEF inventoryVars
<1>0. RecoveryTypeOK /\ OfService /\ ChainOK /\ \A v \in Service : Traced(v)
  BY DEF RecoveryInv
<1>1. RecoveryTypeOK'
  BY <1>0 DEF Publish, RecoveryTypeOK
<1>2. OfService'
  BY <1>0 DEF Publish, OfService
<1>3. ChainOK'
  BY <1>0 DEF Publish, ChainOK, Sourced, Proven
<1>4. ASSUME NEW v \in Service PROVE Traced(v)'
  BY <1>0 DEF Publish, Traced, Activated
<1> QED BY <1>1, <1>2, <1>3, <1>4 DEF RecoveryInv

LEMMA ConfirmInv == ASSUME RecoveryInv, NEW c \in console, Confirm(c) PROVE RecoveryInv'
<1> USE RecoveryAssumption DEF inventoryVars
<1>0. RecoveryTypeOK /\ OfService /\ ChainOK /\ \A v \in Service : Traced(v)
  BY DEF RecoveryInv
<1> DEFINE new == [candidate |-> c, at |-> clock]
<1>1. new \in Confirmation /\ new.candidate = c
  BY <1>0 DEF RecoveryTypeOK, Confirmation
<1> HIDE DEF new
<1>2. confirmations' = confirmations \cup {new}
  BY DEF Confirm, new
<1>3. RecoveryTypeOK'
  BY <1>0, <1>1, <1>2 DEF Confirm, RecoveryTypeOK
<1>4. OfService'
  BY <1>0 DEF Confirm, OfService
<1>5. Sourced(c)
  BY <1>0 DEF ChainOK
<1>6. ChainOK'
  BY <1>0, <1>1, <1>2, <1>5, FilesStay DEF Confirm, ChainOK
<1>7. ASSUME NEW v \in Service PROVE Traced(v)'
  BY <1>0 DEF Confirm, Traced, Activated
<1> QED BY <1>3, <1>4, <1>6, <1>7 DEF RecoveryInv

\* The receipt a plan was verified with is younger than the confirmation, and not by much.
LEMMA VerifyInv ==
  ASSUME RecoveryInv, NEW c \in candidates, NEW f \in confirmations, Verify(c, f)
  PROVE  RecoveryInv'
<1> USE RecoveryAssumption DEF inventoryVars
<1>0. RecoveryTypeOK /\ OfService /\ ChainOK /\ \A v \in Service : Traced(v)
  BY DEF RecoveryInv
<1>1. PICK r \in receipts : Reobserved(c, f, r)
  BY DEF Verify
<1>2. r.at \in Int /\ f.at \in Int /\ clock \in Int /\ r.at <= clock
  <2>1. r \in Receipt /\ f \in Confirmation /\ clock \in 0 .. MaxTime
    BY <1>0 DEF RecoveryTypeOK
  <2>2. r.at \in 0 .. MaxTime /\ f.at \in 0 .. MaxTime
    BY <2>1 DEF Receipt, Confirmation
  <2> QED BY <1>0, <2>1, <2>2 DEF OfService
<1>3. r.at > f.at /\ r.at - f.at <= MaxAge
  BY <1>1, <1>2 DEF Reobserved, Fresh
<1>4. Proven(f)
  BY <1>1, <1>3 DEF Verify, Confirms, Reobserved, Proven
<1>5. RecoveryTypeOK'
  BY <1>0 DEF Verify, RecoveryTypeOK
<1>6. OfService'
  BY <1>0 DEF Verify, OfService
<1>7. ChainOK'
  BY <1>0, <1>4, FilesStay DEF Verify, ChainOK
<1>8. ASSUME NEW v \in Service PROVE Traced(v)'
  BY <1>0 DEF Verify, Traced, Activated
<1> QED BY <1>5, <1>6, <1>7, <1>8 DEF RecoveryInv

LEMMA ArchiveLedgerInv ==
  ASSUME RecoveryInv, NEW p \in plans, NEW s \in Service, NEW o \in Object,
         ArchiveLedger(p, s, o)
  PROVE  RecoveryInv'
<1> USE RecoveryAssumption DEF inventoryVars
<1>0. RecoveryTypeOK /\ OfService /\ ChainOK /\ \A v \in Service : Traced(v)
  BY DEF RecoveryInv
<1> DEFINE new == [plan |-> p, service |-> s]
<1>1. new \in Ledger /\ new.plan \in plans
  BY <1>0 DEF RecoveryTypeOK, Ledger
<1> HIDE DEF new
<1>2. ledgers' = [ledgers EXCEPT ![o] = {new}]
  BY DEF ArchiveLedger, new
<1>3. RecoveryTypeOK'
  BY <1>0, <1>1, <1>2 DEF ArchiveLedger, RecoveryTypeOK
<1>4. OfService'
  BY <1>0 DEF ArchiveLedger, OfService
<1>5. ASSUME NEW n \in Object, NEW l \in ledgers'[n] PROVE l.plan \in plans
  <2>1. CASE n = o
    BY <1>0, <1>1, <1>2, <1>5, <2>1 DEF RecoveryTypeOK
  <2>2. CASE n # o
    BY <1>0, <1>2, <1>5, <2>2 DEF RecoveryTypeOK, ChainOK
  <2> QED BY <2>1, <2>2
<1>6. ChainOK'
  BY <1>0, <1>5, FilesStay DEF ArchiveLedger, ChainOK
<1>7. ASSUME NEW v \in Service PROVE Traced(v)'
  BY <1>0 DEF ArchiveLedger, Traced, Activated
<1> QED BY <1>3, <1>4, <1>6, <1>7 DEF RecoveryInv

\* A process is activated from a ledger of its own baseline only.
LEMMA DeployInv == ASSUME RecoveryInv, Deploy PROVE RecoveryInv'
<1> USE RecoveryAssumption DEF Change, chainVars, inventoryVars
<1>0. RecoveryTypeOK /\ OfService /\ ChainOK /\ \A v \in Service : Traced(v)
  BY DEF RecoveryInv
<1>1. PICK used \in {{}} \cup {ledgers[o] : o \in Object} :
        /\ \A l \in used : Admissible(l.service, l)
        /\ \E reached \in SUBSET Service :
             running' = [s \in Service |->
               IF s \in reached /\ actual[s] = setting[s].baseline THEN Planned(s, used) ELSE running[s]]
        /\ UNCHANGED <<clock, account, inventoryVars, reading, chainVars>>
  BY DEF Deploy
<1>2. PICK reached \in SUBSET Service :
        running' = [s \in Service |->
          IF s \in reached /\ actual[s] = setting[s].baseline THEN Planned(s, used) ELSE running[s]]
  BY <1>1
<1>3. used \in SUBSET Ledger /\ \A l \in used : l.plan \in plans
  BY <1>0, <1>1 DEF RecoveryTypeOK, ChainOK
<1>4. \A s \in Service :
        \/ running'[s] = running[s]
        \/ running'[s] = Planned(s, used)
  BY <1>2
<1>5. running' \in [Service -> Setting]
  <2>1. ASSUME NEW s \in Service PROVE running'[s] \in Setting
    BY <1>0, <1>3, <1>4, PlannedSetting DEF RecoveryTypeOK
  <2> QED BY <1>2, <2>1
<1>6. changes' = changes + 1 /\ changes' \in 0 .. MaxChanges
  BY <1>0 DEF Deploy, RecoveryTypeOK
<1>7. RecoveryTypeOK'
  BY <1>0, <1>1, <1>5, <1>6 DEF RecoveryTypeOK
<1>8. OfService'
  <2>1. ASSUME NEW s \in Service PROVE running'[s].baseline[1] = s
    BY <1>0, <1>3, <1>4, PlannedSetting DEF OfService
  <2>2. \A s \in Service : actual[s] \in {s} \X (0 .. changes + 1)
    BY <1>0 DEF OfService, RecoveryTypeOK
  <2> QED BY <1>0, <1>1, <1>6, <2>1, <2>2 DEF OfService
<1>9. ChainOK'
  BY <1>0, <1>1 DEF ChainOK, Sourced, Proven
<1>10. ASSUME NEW s \in Service PROVE Traced(s)'
  <2>1. CASE running'[s] = running[s]
    BY <1>0, <1>1, <2>1 DEF Traced, Activated
  <2>2. CASE running'[s] = Planned(s, used) /\ Planned(s, used).state = "ACTIVE_LKG"
    <3>1. PICK l \in used : l.service = s /\ Planned(s, used).digests = l.plan.candidate.digests
      BY <1>0, <1>3, <2>2, PlannedSetting
    <3>2. setting[s].baseline = l.plan.candidate.baseline
      BY <1>1, <3>1 DEF Admissible
    <3>3. Planned(s, used).baseline = l.plan.candidate.baseline
      BY <1>0, <1>3, <3>2, PlannedSetting
    <3> QED BY <1>1, <1>3, <2>2, <3>1, <3>3 DEF Traced
  <2>3. CASE running'[s] = Planned(s, used) /\ Planned(s, used).state # "ACTIVE_LKG"
    BY <2>3 DEF Traced, Activated
  <2> QED BY <1>4, <2>1, <2>2, <2>3
<1> QED BY <1>7, <1>8, <1>9, <1>10 DEF RecoveryInv

LEMMA TickInv == ASSUME RecoveryInv, Tick PROVE RecoveryInv'
<1> USE RecoveryAssumption DEF inventoryVars, chainVars
<1>0. RecoveryTypeOK /\ OfService /\ ChainOK /\ \A v \in Service : Traced(v)
  BY DEF RecoveryInv
<1>1. clock \in Int /\ clock' = clock + 1 /\ clock' \in 0 .. MaxTime
  BY <1>0 DEF Tick, RecoveryTypeOK
<1>2. RecoveryTypeOK'
  BY <1>0, <1>1 DEF Tick, RecoveryTypeOK
<1>3. \A r \in receipts : r.at <= clock + 1
  <2>1. \A r \in receipts : r.at \in 0 .. MaxTime
    BY <1>0 DEF RecoveryTypeOK, Receipt
  <2> QED BY <1>0, <1>1, <2>1 DEF OfService
<1>4. OfService'
  BY <1>0, <1>1, <1>3 DEF Tick, OfService
<1>5. ChainOK'
  BY <1>0 DEF Tick, ChainOK, Sourced, Proven
<1>6. ASSUME NEW v \in Service PROVE Traced(v)'
  BY <1>0 DEF Tick, Traced, Activated
<1> QED BY <1>2, <1>4, <1>5, <1>6 DEF RecoveryInv

LEMMA DriftInv == ASSUME RecoveryInv, NEW s \in Service, Drift(s) PROVE RecoveryInv'
<1> USE RecoveryAssumption DEF Change, inventoryVars, chainVars
<1>0. RecoveryTypeOK /\ OfService /\ ChainOK /\ \A v \in Service : Traced(v)
  BY DEF RecoveryInv
<1>1. PICK o \in Observation : account' = [account EXCEPT ![s] = o]
  BY DEF Drift
<1>2. changes' = changes + 1 /\ changes' \in 0 .. MaxChanges
  BY <1>0 DEF Drift, RecoveryTypeOK
<1>3. RecoveryTypeOK'
  BY <1>0, <1>1, <1>2 DEF Drift, RecoveryTypeOK
<1>4. OfService'
  <2>1. \A v \in Service : actual[v] \in {v} \X (0 .. changes + 1)
    BY <1>0 DEF OfService, RecoveryTypeOK
  <2> QED BY <1>0, <1>2, <2>1 DEF Drift, OfService
<1>5. ChainOK'
  BY <1>0 DEF Drift, ChainOK, Sourced, Proven
<1>6. ASSUME NEW v \in Service PROVE Traced(v)'
  BY <1>0 DEF Drift, Traced, Activated
<1> QED BY <1>3, <1>4, <1>5, <1>6 DEF RecoveryInv

LEMMA EditInv == ASSUME RecoveryInv, NEW s \in Service, Edit(s) PROVE RecoveryInv'
<1> USE RecoveryAssumption DEF Change, chainVars
<1>0. RecoveryTypeOK /\ OfService /\ ChainOK /\ \A v \in Service : Traced(v)
  BY DEF RecoveryInv
<1>1. changes' = changes + 1 /\ changes' \in 0 .. MaxChanges /\ changes \in Int
  BY <1>0 DEF Edit, RecoveryTypeOK
<1>2. actual' = [actual EXCEPT ![s] = <<s, actual[s][2] + 1>>]
  BY DEF Edit
<1>3. actual[s][2] \in 0 .. changes
  BY <1>0 DEF OfService
<1>4. \A v \in Service : actual'[v] \in {v} \X (0 .. changes')
  <2> TAKE v \in Service
  <2>1. actual[v] \in {v} \X (0 .. changes')
    BY <1>0, <1>1 DEF OfService
  <2>2. actual[s][2] + 1 \in 0 .. changes'
    BY <1>1, <1>3
  <2> QED BY <1>0, <1>2, <2>1, <2>2 DEF RecoveryTypeOK
<1>5. actual' \in [Service -> Fingerprint]
  <2>1. \A v \in Service : actual'[v] \in Fingerprint
    BY <1>1, <1>4 DEF Fingerprint
  <2> QED BY <1>0, <1>2, <2>1 DEF RecoveryTypeOK
<1>6. RecoveryTypeOK'
  BY <1>0, <1>1, <1>5 DEF Edit, RecoveryTypeOK
<1>7. OfService'
  BY <1>0, <1>4 DEF Edit, OfService
<1>8. ChainOK'
  BY <1>0 DEF Edit, ChainOK, Sourced, Proven
<1>9. ASSUME NEW v \in Service PROVE Traced(v)'
  BY <1>0 DEF Edit, Traced, Activated
<1> QED BY <1>6, <1>7, <1>8, <1>9 DEF RecoveryInv

LEMMA FreezeInv == ASSUME RecoveryInv, NEW s \in Service, Freeze(s) PROVE RecoveryInv'
<1> USE RecoveryAssumption DEF Change, chainVars
<1>0. RecoveryTypeOK /\ OfService /\ ChainOK /\ \A v \in Service : Traced(v)
  BY DEF RecoveryInv
<1>1. changes' = changes + 1 /\ changes' \in 0 .. MaxChanges
  BY <1>0 DEF Freeze, RecoveryTypeOK
<1> DEFINE frozen == [state |-> "RECONCILE_ONLY", baseline |-> actual[s],
                      keys |-> 6, digests |-> account[s]]
<1>2. frozen \in Setting /\ frozen.baseline[1] = s /\ frozen.state = "RECONCILE_ONLY"
  BY <1>0 DEF RecoveryTypeOK, OfService, Setting, State
<1> HIDE DEF frozen
<1>3. setting' = [setting EXCEPT ![s] = frozen]
  BY DEF Freeze, frozen
<1>4. RecoveryTypeOK'
  BY <1>0, <1>1, <1>2, <1>3 DEF Freeze, RecoveryTypeOK
<1>5. OfService'
  <2>1. \A v \in Service : actual[v] \in {v} \X (0 .. changes + 1)
    BY <1>0 DEF OfService, RecoveryTypeOK
  <2>2. ASSUME NEW v \in Service
        PROVE  setting'[v].baseline[1] = v /\ setting'[v].state = "RECONCILE_ONLY"
    BY <1>0, <1>2, <1>3 DEF OfService, RecoveryTypeOK
  <2> QED BY <1>0, <1>1, <2>1, <2>2 DEF Freeze, OfService
<1>6. ChainOK'
  BY <1>0 DEF Freeze, ChainOK, Sourced, Proven
<1>7. ASSUME NEW v \in Service PROVE Traced(v)'
  BY <1>0 DEF Freeze, Traced, Activated
<1> QED BY <1>4, <1>5, <1>6, <1>7 DEF RecoveryInv

LEMMA RecoveryStepInv == RecoveryInv /\ [RecoveryNext]_recoveryVars => RecoveryInv'
<1> SUFFICES ASSUME RecoveryInv, [RecoveryNext]_recoveryVars PROVE RecoveryInv'
  OBVIOUS
<1>1. CASE UNCHANGED recoveryVars
  BY <1>1 DEF recoveryVars, inventoryVars, chainVars, RecoveryInv, RecoveryTypeOK, OfService,
     ChainOK, Sourced, Proven, Traced, Activated
<1>2. Busy \subseteq Service
  BY RecoveryAssumption
<1> QED
  BY <1>1, <1>2, TickInv, EnrollInv, DeployInv, ReadHoldingsInv, FailReadingInv,
     FinishReadingInv, DriftInv, EditInv, FreezeInv, PublishInv, ConfirmInv, VerifyInv,
     ArchiveLedgerInv DEF RecoveryNext

\* Every variable keeps its type in every behaviour of the recovery, for any bound.
THEOREM RecoveryTypes == RecoverySpec => []RecoveryTypeOK
<1>1. RecoveryInv => RecoveryTypeOK
  BY DEF RecoveryInv
<1> QED BY <1>1, RecoveryInitInv, RecoveryStepInv, PTL DEF RecoverySpec

\* A service that trades again was reviewed at every stage of the chain, with its own
\* files, for any services, files, edits and order of the scripts.
THEOREM ActivationIsAlwaysReviewed == RecoverySpec => []ActivationIsReviewed
<1>1. RecoveryInv => ActivationIsReviewed
  <2> SUFFICES ASSUME RecoveryInv, NEW s \in Service, Activated(s)
               PROVE  \E f \in confirmations, r, q \in receipts :
                        /\ q \in f.candidate.sources /\ q.clean
                        /\ r.at > f.at /\ r.at - f.at <= MaxAge
                        /\ q.service = s /\ r.service = s
                        /\ q.baseline = running[s].baseline /\ r.baseline = running[s].baseline
                        /\ q.seen = running[s].digests /\ r.seen = running[s].digests
    BY DEF ActivationIsReviewed
  <2>1. PICK p \in plans : /\ running[s].baseline = p.candidate.baseline
                           /\ running[s].digests = p.candidate.digests
    BY DEF RecoveryInv, Traced
  <2>2. Proven(p) /\ Sourced(p.candidate)
    BY <2>1 DEF RecoveryInv, ChainOK, Proven
  <2>3. PICK r \in receipts : /\ r.at > p.at /\ r.at - p.at <= MaxAge
                              /\ r.baseline = p.candidate.baseline
                              /\ r.seen = p.candidate.digests
    BY <2>2 DEF Proven
  <2>4. PICK q \in p.candidate.sources : /\ q.clean /\ q.baseline = p.candidate.baseline
                                         /\ q.seen = p.candidate.digests
    BY <2>2 DEF Sourced
  <2>5. p \in confirmations /\ q \in receipts
    BY <2>2, <2>4 DEF Proven, Sourced
  <2>6. q.service = s /\ r.service = s
    BY <2>1, <2>3, <2>4, <2>5 DEF RecoveryInv, OfService
  <2> QED BY <2>1, <2>3, <2>4, <2>5, <2>6
<1> QED BY <1>1, RecoveryInitInv, RecoveryStepInv, PTL DEF RecoverySpec

-----------------------------------------------------------------------------
(* The refinement. *)

LEMMA NothingTradesYet == RecoveryInit => Reviewed!Init
<1> SUFFICES ASSUME RecoveryInit PROVE Reviewed!Init
  OBVIOUS
<1>1. \A s \in Service : ~Activated(s)
  BY DEF RecoveryInit, Activated
<1>2. tradingBar = [s \in Service |-> {}]
  BY <1>1 DEF tradingBar
<1>3. endorsementsBar = {}
  BY DEF RecoveryInit, endorsementsBar
<1> QED BY <1>2, <1>3 DEF RecoveryInit, Reviewed!Init, Reviewed!Idle

\* The bars see confirmations and serving processes only.
LEMMA BarsKept ==
  /\ UNCHANGED confirmations => UNCHANGED endorsementsBar
  /\ UNCHANGED running => UNCHANGED tradingBar
  BY DEF endorsementsBar, tradingBar, Activated

\* The person's word is for what some clean receipt of the same service showed.
LEMMA ConfirmEndorses ==
  ASSUME RecoveryInv, NEW c \in console, Confirm(c)
  PROVE  \E q \in receipts : Reviewed!Endorse(q)
<1>1. PICK q \in c.sources : q.clean /\ q.baseline = c.baseline /\ q.seen = c.digests
  BY DEF RecoveryInv, ChainOK, Sourced
<1>2. q \in receipts /\ c.baseline[1] = q.service
  BY <1>1 DEF RecoveryInv, ChainOK, Sourced, OfService
<1> DEFINE f == [candidate |-> c, at |-> clock]
           e == [service |-> q.service, baseline |-> q.baseline, seen |-> q.seen, at |-> clock]
<1>3. EndorsementOf(f) = e
  BY <1>1, <1>2 DEF EndorsementOf
<1>4. confirmations' = confirmations \cup {f}
  BY DEF Confirm
<1> HIDE DEF f
<1>5. endorsementsBar' = endorsementsBar \cup {EndorsementOf(f)}
  BY <1>4 DEF endorsementsBar, EndorsementOf
<1>6. UNCHANGED <<clock, receipts, tradingBar>>
  BY BarsKept DEF Confirm, inventoryVars
<1> QED BY <1>1, <1>2, <1>3, <1>5, <1>6 DEF Reviewed!Endorse

\* What a service trades on was endorsed for it and confirmed.
LEMMA ActivatedIsOffered ==
  ASSUME RecoveryInv, NEW s \in Service, Activated(s)
  PROVE  \E e \in endorsementsBar :
           e.service = s /\ Reviewed!Confirmed(e) /\ tradingBar[s] = Reviewed!On(e)
<1>1. PICK p \in plans : /\ running[s].baseline = p.candidate.baseline
                         /\ running[s].digests = p.candidate.digests
  BY DEF RecoveryInv, Traced
<1>2. p \in confirmations
  BY <1>1 DEF RecoveryInv, ChainOK, Proven
<1>3. PICK r \in receipts : /\ r.at > p.at /\ r.at - p.at <= MaxAge
                            /\ r.baseline = p.candidate.baseline
                            /\ r.seen = p.candidate.digests
  BY <1>1 DEF RecoveryInv, ChainOK, Proven
<1>4. running[s].baseline[1] = s /\ r.service = s
  BY <1>1, <1>3 DEF RecoveryInv, OfService
<1> DEFINE e == EndorsementOf(p)
<1>5. e \in endorsementsBar
  BY <1>2 DEF endorsementsBar
<1>6. /\ e.service = s /\ e.at = p.at
      /\ e.baseline = p.candidate.baseline /\ e.seen = p.candidate.digests
  BY <1>1, <1>4 DEF EndorsementOf
<1> HIDE DEF e
<1>7. Reviewed!Confirmed(e)
  BY <1>3, <1>4, <1>6 DEF Reviewed!Confirmed
<1>8. tradingBar[s] = Reviewed!On(e)
  BY <1>1, <1>6 DEF tradingBar, Reviewed!On
<1> QED BY <1>5, <1>6, <1>7, <1>8

LEMMA ActivatedIsOfferedNext ==
  RecoveryInv' => \A s \in Service : Activated(s)' =>
    \E e \in endorsementsBar' :
      e.service = s /\ Reviewed!Confirmed(e)' /\ tradingBar'[s] = Reviewed!On(e)
<1>1. RecoveryInv => \A s \in Service : Activated(s) =>
        \E e \in endorsementsBar :
          e.service = s /\ Reviewed!Confirmed(e) /\ tradingBar[s] = Reviewed!On(e)
  BY ActivatedIsOffered
<1>2. (RecoveryInv => \A s \in Service : Activated(s) =>
        \E e \in endorsementsBar :
          e.service = s /\ Reviewed!Confirmed(e) /\ tradingBar[s] = Reviewed!On(e))'
  BY <1>1, PTL
<1> QED BY <1>2 DEF Reviewed!On

\* A deployment restarts the services it reaches, each on what it is offered.
LEMMA DeployRestarts == ASSUME RecoveryInv, RecoveryInv', Deploy PROVE Reviewed!Restart
<1>1. UNCHANGED <<clock, receipts, endorsementsBar>>
  BY BarsKept DEF Deploy, chainVars
<1>2. ASSUME NEW s \in Service PROVE tradingBar'[s] \in Reviewed!Offered(s)
  <2>1. CASE Activated(s)'
    <3>1. PICK e \in endorsementsBar' :
            e.service = s /\ Reviewed!Confirmed(e)' /\ tradingBar'[s] = Reviewed!On(e)
      BY <2>1, ActivatedIsOfferedNext
    <3>2. Reviewed!Confirmed(e)
      BY <1>1, <3>1 DEF Reviewed!Confirmed
    <3> QED BY <1>1, <3>1, <3>2 DEF Reviewed!Offered
  <2>2. CASE ~Activated(s)'
    BY <2>2 DEF tradingBar, Reviewed!Offered, Reviewed!Idle
  <2> QED BY <2>1, <2>2
<1>3. tradingBar' \in [Service -> UNION {Reviewed!Offered(s) : s \in Service}]
  BY <1>2 DEF tradingBar
<1> QED BY <1>1, <1>2, <1>3 DEF Reviewed!Restart

\* Every step of the recovery is a step of the review or one it does not see.
LEMMA RecoveryStepMaps ==
  RecoveryInv /\ RecoveryInv' /\ [RecoveryNext]_recoveryVars => [Reviewed!Next]_Reviewed!vars
<1> SUFFICES ASSUME RecoveryInv, RecoveryInv', [RecoveryNext]_recoveryVars
             PROVE  [Reviewed!Next]_Reviewed!vars
  OBVIOUS
<1> USE DEF Reviewed!vars
<1>1. CASE UNCHANGED <<clock, receipts, confirmations, running>>
  BY <1>1, BarsKept
<1>2. CASE Tick
  BY <1>2, BarsKept DEF Tick, chainVars, Reviewed!Next, Reviewed!Wait
<1>3. ASSUME NEW s \in Service, FinishReading(s) PROVE Reviewed!Next
  <2>1. PICK r : r.at = clock /\ receipts' = receipts \cup {r}
    BY <1>3 DEF FinishReading, ReceiptOf
  <2> QED BY <1>3, <2>1, BarsKept DEF FinishReading, Reviewed!Next, Reviewed!Observe
<1>4. ASSUME NEW c \in console, Confirm(c) PROVE Reviewed!Next
  BY <1>4, ConfirmEndorses DEF Reviewed!Next
<1>5. CASE Deploy
  BY <1>5, DeployRestarts DEF Reviewed!Next
<1>6. CASE UNCHANGED recoveryVars
  BY <1>1, <1>6 DEF recoveryVars, chainVars
<1>7. ASSUME NEW s \in Service, ReadHoldings(s) \/ FailReading(s) \/ Drift(s) \/ Edit(s) \/ Freeze(s)
      PROVE  UNCHANGED <<clock, receipts, confirmations, running>>
  BY <1>7 DEF ReadHoldings, FailReading, Drift, Edit, Freeze, chainVars
<1>8. ASSUME \/ Enroll
             \/ \E c \in candidates : Publish(c) \/ \E f \in confirmations : Verify(c, f)
             \/ \E p \in plans, s \in Service, o \in Object : ArchiveLedger(p, s, o)
      PROVE  UNCHANGED <<clock, receipts, confirmations, running>>
  BY <1>8 DEF Enroll, Publish, Verify, ArchiveLedger
<1>9. Busy \subseteq Service
  BY RecoveryAssumption
<1> QED
  BY <1>1, <1>2, <1>3, <1>4, <1>5, <1>6, <1>7, <1>8, <1>9 DEF RecoveryNext

\* The recovery, with all its files and scripts, does what the review promises: reading,
\* person's word and second reading come in this order, and are of the service that
\* trades on them, for any services, files, edits, drifts and deployments.
THEOREM RecoveryImplements == RecoverySpec => ImplementsReviewed
<1>1. RecoveryInit => Reviewed!Init
  BY NothingTradesYet
<1>2. RecoveryInv /\ RecoveryInv' /\ [RecoveryNext]_recoveryVars
        => [Reviewed!Next]_Reviewed!vars
  BY RecoveryStepMaps
<1> QED
  BY <1>1, <1>2, RecoveryInitInv, RecoveryStepInv, PTL
     DEF RecoverySpec, ImplementsReviewed, Reviewed!Spec
=============================================================================
