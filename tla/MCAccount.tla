------------------------------ MODULE MCAccount ------------------------------
(* Instances of Account for TLC.                                           *)
EXTENDS Account

CONSTANTS u1, u2, home, other

=============================================================================
