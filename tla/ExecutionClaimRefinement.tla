----------------------- MODULE ExecutionClaimRefinement -----------------------
(***************************************************************************)
(* The cycles, the store and the broker of ExecutionClaim implement        *)
(* OneShotExecution.                                                       *)
(***************************************************************************)
EXTENDS ExecutionClaim

CONSTANTS Nobody, Burnt

ASSUME HolderAssumption ==
  /\ Nobody \notin Cycle
  /\ Burnt \notin Cycle
  /\ Nobody # Burnt

Holders(k) == {c \in Cycle : acquired[c] /\ KeyOf(c) = k}

\* The cycle whose claim was granted holds the key; a marker nobody was granted
\* (a claim whose answer was lost, the record of a dry run) has burnt it.
holderBar ==
  [k \in Key |->
     IF Holders(k) # {} THEN CHOOSE c \in Holders(k) : TRUE
     ELSE IF marker[k] # "absent" THEN Burnt ELSE Nobody]

placedBar == {v \in Cycle \X Symbol : order[v[1]][v[2]] # "none"}

OneShot == INSTANCE OneShotExecution WITH holder <- holderBar, placed <- placedBar

\* The whole protocol (run lock, lock file, marker read, owner fence, claim,
\* submission, crashes) only ever does what the one-shot specification allows.
ImplementsOneShot == OneShot!Spec
=============================================================================
