--------------------------- MODULE MCRelaySession ----------------------------
(* Instances of RelaySession for TLC.                                      *)
EXTENDS RelaySession

CONSTANTS u1, u2, d1, d2

Sockets == 1..3
\* Both devices of one user, or of two.
Accounts == {a \in [Device -> User] : a[d1] = u1}
TwoRequests == 1..2
=============================================================================
