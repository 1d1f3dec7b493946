-------------------------- MODULE MCGatewaySession --------------------------
(***************************************************************************)
(* Instances of GatewaySession for TLC.                                    *)
(***************************************************************************)
EXTENDS GatewaySession

\* Two revisions of one service: the same ib_client_id.
SameBase == [w \in Worker |-> 1]
=============================================================================
