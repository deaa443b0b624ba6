--------------------------- MODULE MCClipboardSync ----------------------------
(* Instances of ClipboardSync for TLC.                                     *)
EXTENDS ClipboardSync, TLC

CONSTANTS d1, d2, d3, ca, cb, cz, private

(* Two contents no one confuses.                                           *)
DistinctIdentity == [c \in Content |-> c]

(* With these, contents are interchangeable.                               *)
Contents == Permutations(Content)

(* cz is cb with trailing whitespace.                                      *)
TrailingIdentity == [c \in Content |-> IF c = cz THEN cb ELSE c]

Ranks  == [d \in Device |-> CASE d = d1 -> 0 [] d = d2 -> 1 [] d = d3 -> 2]
NoSkew == [d \in Device |-> 0]

(* How often the users copy.                                               *)
CopyOnce     == [d \in Device |-> 1]
UnevenCopies == [d \in Device |-> CASE d = d1 -> 2 [] d = d2 -> 1 [] d = d3 -> 0]

AnySnapshot == Snapshot
EmptyOnly   == {Empty}
=============================================================================
