--------------------------- MODULE ClipboardContent ---------------------------
(***************************************************************************)
(* What crates/cled-clipboard sees on a clipboard, and how it decides that *)
(* the clipboard changed.                                                  *)
(***************************************************************************)

CONSTANTS
  Content,    \* text or an image: what Cled reads, writes and sends
  Skipped,    \* what Cled refuses to read: sensitive, or too large
  Empty,      \* nothing, or only formats Cled does not support
  Identity,   \* content up to trailing whitespace, which is what gets hashed
  None        \* Option::None

ASSUME IdentityAssumption == Identity \in [Content -> Content]
ASSUME SnapshotAssumption ==
  /\ Content \cap Skipped = {}
  /\ Empty \notin Content \cup Skipped
  /\ None \notin Content \cup Skipped \cup {Empty}

Snapshot == Content \cup Skipped \cup {Empty}

(* What change detection compares: contents that differ only in trailing   *)
(* whitespace are the same, and all sensitive copies look alike.           *)
Fingerprint(snapshot) ==
  CASE snapshot = Empty       -> None
    [] snapshot \in Skipped   -> snapshot
    [] snapshot \in Content   -> Identity[snapshot]

Fingerprints == Content \cup Skipped \cup {None}

(* ChangeDetector.observe: is snapshot a change from the fingerprint of    *)
(* the last observation?  The detector always moves on to the new one.     *)
IsChange(last, snapshot) ==
  /\ Fingerprint(snapshot) # None
  /\ Fingerprint(snapshot) # last
=============================================================================
