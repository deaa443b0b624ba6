-------------------------- MODULE MCClipboardService --------------------------
(* Instances of ClipboardService for TLC.                                  *)
EXTENDS ClipboardService

CONSTANTS ca, cb, cz, private

(* cz is cb with trailing whitespace.                                      *)
TrailingIdentity == [c \in Content |-> IF c = cz THEN cb ELSE c]

On(token, watched, maxFailures) ==
  [token |-> token, watched |-> watched, maxFailures |-> maxFailures,
   baselineFails |-> maxFailures > 0 /\ token = "none", dies |-> token = "none"]

(* Windows, macOS, X11, and what has neither token nor watcher.  Reads     *)
(* fail only where no token is kept: what a failed read costs where one is *)
(* BusyWindows shows.                                                      *)
Platforms   == {On("counter", TRUE, 0), On("counter", FALSE, 0),
                On("none", TRUE, 1), On("none", FALSE, 2)}
BusyWindows == {On("counter", TRUE, 1)}
=============================================================================
