---------------------------- MODULE ClipboardWatch ----------------------------
(***************************************************************************)
(* What crates/cled-clipboard promises the rest of the program: on_change  *)
(* runs whenever the clipboard changes, for what is on it then, and never  *)
(* for nothing, nor for what could be read at startup.  ClipboardService   *)
(* is how it keeps the promise; ClipboardSync relies on it (its actions    *)
(* UserCopy and Check).                                                    *)
(***************************************************************************)
EXTENDS ClipboardContent, Integers

CONSTANT BaselineFails   \* the clipboard may be unreadable at startup

VARIABLES
  running,   \* the app has not exited
  clip,      \* the OS clipboard
  last,      \* ChangeDetector.last: the fingerprint last observed
  reported   \* calls of on_change: how many, and the latest snapshot

watchVars == <<running, clip, last, reported>>

NoReport == [calls |-> 0, snapshot |-> Empty]

WatchInit ==
  /\ running = TRUE
  /\ clip \in Snapshot
  /\ last = Fingerprint(clip) \/ (BaselineFails /\ last = None)
  /\ reported = NoReport

(* Anyone, Cled included, replaces or clears the clipboard.                *)
Replace(snapshot) ==
  /\ clip' = snapshot
  /\ UNCHANGED <<running, last, reported>>

(* The change is noticed and, unless the clipboard is empty, reported.     *)
Observe ==
  /\ running
  /\ Fingerprint(clip) # last
  /\ last' = Fingerprint(clip)
  /\ reported' = IF IsChange(last, clip)
                 THEN [calls |-> reported.calls + 1, snapshot |-> clip] ELSE reported
  /\ UNCHANGED <<running, clip>>

(* The app exits; its content may go with it.                              *)
Exit ==
  /\ running
  /\ running' = FALSE
  /\ clip' \in {clip, Empty}
  /\ UNCHANGED <<last, reported>>

WatchNext == Observe \/ Exit \/ \E snapshot \in Snapshot : Replace(snapshot)

WatchSpec == WatchInit /\ [][WatchNext]_watchVars /\ WF_watchVars(Observe)
=============================================================================
