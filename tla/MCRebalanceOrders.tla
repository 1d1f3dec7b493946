------------------------- MODULE MCRebalanceOrders -------------------------
(***************************************************************************)
(* Instances of RebalanceOrders for TLC.                                   *)
(***************************************************************************)
EXTENDS RebalanceOrders

NoOption == [o \in {} |-> 0]
OneOption == [o \in Option |-> 18]
Solvent == {0, 9, 26}
Indebted == {-6}
=============================================================================
