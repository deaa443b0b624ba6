--------------------------- MODULE MCRelayTunnels ----------------------------
(* Instances of RelayTunnels for TLC.                                      *)
EXTENDS RelayTunnels

CONSTANTS a, b
=============================================================================
