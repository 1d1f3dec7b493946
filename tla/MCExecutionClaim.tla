-------------------------- MODULE MCExecutionClaim --------------------------
(***************************************************************************)
(* Instances of ExecutionClaim and of its refinement for TLC.              *)
(***************************************************************************)
EXTENDS ExecutionClaimRefinement, TLC

CONSTANTS i1, i2, i3, i4, i5, pA, pB, sA, sB, acct

Service(p, s, a, d) == [profile |-> p, scope |-> s, account |-> a, dedup |-> d]

\* Two revisions of one service, a rival strategy deployed on its broker
\* account, a service whose account configuration is not one physical account,
\* and one with dedup switched off.
Mixed ==
  [i \in Instance |->
     CASE i \in {i1, i2} -> Service(pA, sA, acct, TRUE)
       [] i = i3         -> Service(pB, sB, acct, TRUE)
       [] i = i4         -> Service(pA, sA, NoAccount, TRUE)
       [] i = i5         -> Service(pA, sA, acct, FALSE)]

CycleSymmetry == Permutations(Cycle)
=============================================================================
