------------------- MODULE ReconciliationRecoveryRefinement -------------------
(***************************************************************************)
(* The requests, files, scripts and deployments of ReconciliationRecovery  *)
(* implement ReviewedActivation.                                           *)
(***************************************************************************)
EXTENDS ReconciliationRecovery

\* A candidate is its baseline's service's.
EndorsementOf(f) ==
  [service |-> f.candidate.baseline[1], baseline |-> f.candidate.baseline,
   seen |-> f.candidate.digests, at |-> f.at]

endorsementsBar == {EndorsementOf(f) : f \in confirmations}

tradingBar ==
  [s \in Service |->
     IF Activated(s) THEN {[baseline |-> running[s].baseline, seen |-> running[s].digests]}
     ELSE {}]

Reviewed == INSTANCE ReviewedActivation
  WITH now <- clock, readings <- receipts,
       endorsements <- endorsementsBar, trading <- tradingBar

\* Whatever files the scripts are given, in whatever order they and the deployments
\* run, a service is activated only by the steps of ReviewedActivation: first a clean
\* reading of its own account, then a person's word, then the reading after it
\* (broker_reconciliation, the reconciliation scripts, apply_recovery_state_ledger).
ImplementsReviewed == Reviewed!Spec
=============================================================================
