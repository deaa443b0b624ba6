--------------------------- MODULE MCConnections -----------------------------
(* Instances of Connections for TLC.                                       *)
EXTENDS Connections

CONSTANTS low, high, s1, s2, s3
=============================================================================
