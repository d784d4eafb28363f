--------------------------- MODULE MCGatewayDaemon ---------------------------
(***************************************************************************)
(* The instance of GatewayDaemon that TLC checks: two sources, one that    *)
(* reconnects and one that does not (and whose transport may raise), a     *)
(* queue of one or two frames, and a restart.                              *)
(***************************************************************************)
EXTENDS GatewayDaemon
=============================================================================
