---------------------------- MODULE MCMembership -----------------------------
(* Instances of Membership for TLC.                                        *)
EXTENDS Membership

CONSTANTS d1, d2, d3, d4

AnyPair == {{d, e} : d, e \in Device}
Chain   == {{d3, d1}, {d1, d2}, {d2, d4}}

NoSkew == [d \in Device |-> 0]
=============================================================================
