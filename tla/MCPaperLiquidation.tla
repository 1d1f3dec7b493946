------------------------- MODULE MCPaperLiquidation -------------------------
(***************************************************************************)
(* Instances of PaperLiquidation for TLC.                                  *)
(***************************************************************************)
EXTENDS PaperLiquidation

Positions == {-2, 0, 4}
=============================================================================
