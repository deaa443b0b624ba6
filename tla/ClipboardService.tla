--------------------------- MODULE ClipboardService ---------------------------
(***************************************************************************)
(* The clipboard thread of crates/cled-clipboard/src/service.rs: it serves *)
(* requests from a channel and, when none is left and the next check is    *)
(* due, looks whether the clipboard changed.  Other programs replace the   *)
(* clipboard at any moment, also between two calls of a check.             *)
(*                                                                         *)
(* Time is counted in ticks down to the next check.  Read requests change  *)
(* nothing here and are left out.  At the end the app has its content      *)
(* handed to a holder process (holder.rs), which keeps it pasteable where  *)
(* it would go with the process that wrote it, and exits.                  *)
(***************************************************************************)
EXTENDS ClipboardContent, Integers, Sequences

CONSTANTS
  Platform,        \* the platforms considered: what change_token returns there
                   \* ("none"; "counter" on Windows and macOS; "content", a
                   \* hash of what is offered, on Wayland), whether the OS
                   \* announces changes, else they are polled for, how many
                   \* reads and writes may fail, for example because another
                   \* program holds the clipboard (ClipboardError::Busy), and
                   \* whether the first read at startup may, and whether
                   \* content goes with its process (CONTENT_DIES_WITH_PROCESS)
  Interval,        \* ticks between checks (poll interval or safety check)
  Debounce,        \* ticks from a notification to its check
  MaxChanges       \* bound: changes by other programs and received items

ASSUME ServiceAssumption ==
  /\ Platform \subseteq [token: {"none", "counter", "content"}, watched: BOOLEAN,
                        maxFailures: Nat, baselineFails: BOOLEAN, dies: BOOLEAN]
  /\ {Interval, Debounce} \subseteq Nat \ {0}
  /\ Debounce <= Interval
  /\ MaxChanges \in Nat
  /\ None \notin Int \cup BOOLEAN

VARIABLES
  platform,   \* the one this runs on
  clip,       \* the OS clipboard
  changes,    \* how often it changed: the OS's counter
  announced,  \* the watcher has announced the latest change
  owner,      \* whose content it is: "other", "cled" or "holder"
  requests,   \* the channel: notifications, contents to write, and the wish
              \* to keep the content after the exit
  pc,         \* "waiting" in recv_timeout, "checking" before the token is
              \* read, "reading" before the content is, "keeping" until the
              \* holder is ready, "exited"
  due,        \* Schedule.next: ticks until the next check
  lastToken,  \* token of the last check
  last,       \* ChangeDetector.last
  reported,   \* calls of on_change: how many, and the latest snapshot
  failures,   \* reads and writes that failed so far
  lastWritten,\* the content last written through the service, or None
  holder,     \* the holder process, or None: its content, and whether it has
              \* "started", has "declined" because something newer was copied,
              \* has "checked" that nothing was, is "holding" the clipboard,
              \* or has "left" it to another program
  answer,     \* what keep_content_after_exit returned, or None
  wroteAfter, \* history: an item was written after that answer
  sinceCheck, \* history: ticks since the last check
  sinceNotice \* history: ticks since the first notification after it, or None

threadVars == <<requests, pc, due, lastToken, last, reported, failures>>
timeVars   == <<sinceCheck, sinceNotice>>
clipVars   == <<clip, changes, announced, owner>>
exitVars   == <<lastWritten, holder, answer, wroteAfter>>
vars       == <<platform, clipVars, threadVars, timeVars, exitVars>>

Changed == [kind |-> "changed"]
WriteOf(content) == [kind |-> "write", content |-> content]
Keep    == [kind |-> "keep"]   \* KeepAfterExit
Request == {Changed, Keep} \cup {WriteOf(content) : content \in Content}

NoReport == [calls |-> 0, snapshot |-> Empty]

TypeOK ==
  /\ platform \in Platform
  /\ clip \in Snapshot
  /\ changes \in Nat
  /\ announced \in BOOLEAN
  /\ requests \in Seq(Request)
  /\ owner \in {"other", "cled", "holder"}
  /\ pc \in {"waiting", "checking", "reading", "keeping", "exited"}
  /\ due \in 0..Interval
  /\ lastToken \in Int \cup Snapshot \cup {None}
  /\ last \in Fingerprints
  /\ reported \in [calls: Nat, snapshot: Snapshot]
  /\ failures \in 0..platform.maxFailures
  /\ sinceCheck \in 0..Interval
  /\ sinceNotice \in 0..Interval \cup {None}
  /\ lastWritten \in Content \cup {None}
  /\ holder \in {None} \cup [state: {"started", "declined", "checked", "holding", "left"},
                             content: Content]
  /\ answer \in {None, TRUE, FALSE}
  /\ wroteAfter \in BOOLEAN

ChangeToken ==
  CASE platform.token = "none"    -> None
    [] platform.token = "counter" -> changes
    [] platform.token = "content" -> clip

(* At startup the token is read first and the baseline second: the token   *)
(* may be of what was there before.                                        *)
Init ==
  /\ platform \in Platform
  /\ clip \in Snapshot
  /\ changes = 0
  /\ announced = TRUE
  /\ requests = <<>>
  /\ pc = "waiting"
  /\ due = Interval
  /\ lastToken \in CASE platform.token = "none"    -> {None}
                     [] platform.token = "counter" -> {0, -1}
                     [] platform.token = "content" -> Snapshot
  /\ last = Fingerprint(clip) \/ (platform.baselineFails /\ last = None)
  /\ reported = NoReport
  /\ failures = 0
  /\ sinceCheck = 0
  /\ sinceNotice = None
  /\ owner = "other"
  /\ lastWritten = None /\ holder = None /\ answer = None /\ wroteAfter = FALSE
-----------------------------------------------------------------------------
(* Bound: every write in the channel can still be carried out.             *)
MayChange ==
  changes + Len(SelectSeq(requests, LAMBDA r : r \notin {Changed, Keep})) < MaxChanges

(* The clipboard changes hands.                                            *)
SetClip(snapshot, by) ==
  /\ clip' = snapshot
  /\ owner' = by
  /\ changes' = changes + 1
  /\ announced' = ~platform.watched

(* Another program replaces or clears the clipboard.                       *)
Replace(snapshot) ==
  /\ MayChange
  /\ SetClip(snapshot, "other")
  /\ UNCHANGED <<platform, threadVars, timeVars, exitVars>>

(* A request arrives in the channel.                                       *)
Send(request) ==
  /\ pc # "exited"
  /\ requests' = Append(requests, request)
  /\ UNCHANGED <<platform, clip, changes, owner, pc, due, lastToken, last, reported,
                 failures, timeVars, exitVars>>

(* The watcher announces the change, or the announcement is lost.          *)
Announce(lost) ==
  /\ ~announced
  /\ announced' = TRUE
  /\ IF lost THEN UNCHANGED <<platform, clip, changes, owner, threadVars, timeVars, exitVars>>
     ELSE Send(Changed)

RequestWrite(content) ==
  /\ MayChange
  /\ Send(WriteOf(content))
  /\ UNCHANGED announced

(* The app is about to exit.                                               *)
RequestKeep ==
  /\ answer = None /\ pc # "keeping"
  /\ \A i \in DOMAIN requests : requests[i] # Keep
  /\ Send(Keep)
  /\ UNCHANGED announced

(* Time passes while the thread waits.                                     *)
Tick ==
  /\ due > 0
  /\ due' = due - 1
  /\ sinceCheck' = sinceCheck + 1
  /\ sinceNotice' = IF sinceNotice = None THEN None ELSE sinceNotice + 1
  /\ UNCHANGED <<platform, clipVars, requests, pc, lastToken,
                 last,
                 reported, failures, exitVars>>

Sooner(a, b) == IF a <= b THEN a ELSE b

(* Mutant: every notification restarts the delay.                          *)
NotifiedRestartsDelay == Debounce

(* Schedule.notified: further notifications do not push the check back.    *)
Notified == Sooner(due, Debounce)

Serve(kind) ==
  /\ pc = "waiting"
  /\ requests # <<>> /\ Head(requests).kind = kind
  /\ requests' = Tail(requests)
  /\ UNCHANGED platform

ServeNotification ==
  /\ Serve("changed")
  /\ due' = Notified
  /\ sinceNotice' = IF sinceNotice = None THEN 0 ELSE sinceNotice
  /\ UNCHANGED <<clipVars, pc, lastToken, last, reported, failures, sinceCheck, exitVars>>

ServeWrite ==
  /\ Serve("write")
  /\ \/ /\ SetClip(Head(requests).content, "cled")
        /\ lastWritten' = Head(requests).content
        /\ wroteAfter' = (answer # None)
        /\ UNCHANGED failures
     \/ /\ failures < platform.maxFailures
        /\ failures' = failures + 1
        /\ UNCHANGED <<clipVars, lastWritten, wroteAfter>>
  /\ UNCHANGED <<pc, due, lastToken, last, reported, timeVars, holder, answer>>

(* keep_after_exit: a holder is started if what Cled wrote is still on the *)
(* clipboard.                                                              *)
ServeKeep ==
  /\ Serve("keep")
  /\ \/ /\ platform.dies /\ lastWritten # None /\ clip = lastWritten
        /\ holder' = [state |-> "started", content |-> lastWritten]
        /\ pc' = "keeping"
        /\ UNCHANGED <<answer, failures>>
     \/ /\ \/ /\ ~platform.dies \/ lastWritten = None \/ clip # lastWritten
              /\ UNCHANGED failures
           \/ /\ platform.dies /\ lastWritten # None
              /\ failures < platform.maxFailures
              /\ failures' = failures + 1
        /\ answer' = FALSE
        /\ UNCHANGED <<holder, pc>>
  /\ UNCHANGED <<clipVars, due, lastToken, last, reported, timeVars, lastWritten, wroteAfter>>

(* The receive times out, which it does only when the channel is empty.    *)
StartCheck ==
  /\ pc = "waiting"
  /\ requests = <<>>
  /\ due = 0
  /\ pc' = "checking"
  /\ due' = Interval
  /\ sinceCheck' = 0
  /\ sinceNotice' = None
  /\ UNCHANGED <<platform, clipVars, requests, lastToken,
                 last, reported, failures, exitVars>>

(* Skip the read when the token says that nothing changed.                 *)
ReadToken ==
  /\ pc = "checking"
  /\ pc' = IF ChangeToken # None /\ ChangeToken = lastToken THEN "waiting" ELSE "reading"
  /\ lastToken' = ChangeToken
  /\ UNCHANGED <<platform, clipVars, requests, due, last,
                 reported, failures, timeVars, exitVars>>

(* Mutant: an empty clipboard does not reset the detector.                 *)
ReadContentIgnoresEmpty ==
  /\ pc = "reading"
  /\ pc' = "waiting"
  /\ last' = IF clip = Empty THEN last ELSE Fingerprint(clip)
  /\ reported' = IF IsChange(last, clip)
                 THEN [calls |-> reported.calls + 1, snapshot |-> clip] ELSE reported
  /\ UNCHANGED <<platform, clipVars, requests, due,
                 lastToken, failures, timeVars, exitVars>>

ReadContent ==
  /\ pc = "reading"
  /\ pc' = "waiting"
  /\ last' = Fingerprint(clip)
  /\ reported' = IF IsChange(last, clip)
                 THEN [calls |-> reported.calls + 1, snapshot |-> clip] ELSE reported
  /\ UNCHANGED <<platform, clipVars, requests, due,
                 lastToken, failures, timeVars, exitVars>>

(* Mutant: a failed read counts as an empty clipboard.                     *)
ReadFailsForgets ==
  /\ pc = "reading"
  /\ failures < platform.maxFailures
  /\ failures' = failures + 1
  /\ pc' = "waiting"
  /\ last' = None
  /\ UNCHANGED <<platform, clipVars, requests, due,
                 lastToken, reported, timeVars, exitVars>>

(* The read fails: the detector keeps what it had, and so does lastToken.  *)
ReadFails ==
  /\ pc = "reading"
  /\ failures < platform.maxFailures
  /\ failures' = failures + 1
  /\ pc' = "waiting"
  /\ UNCHANGED <<platform, clipVars, requests, due,
                 lastToken, last, reported, timeVars, exitVars>>
-----------------------------------------------------------------------------
HolderIs(state) == holder # None /\ holder.state = state

HolderBecomes(state) ==
  /\ holder' = [holder EXCEPT !.state = state]
  /\ UNCHANGED <<platform, threadVars, timeVars, lastWritten, answer, wroteAfter>>

(* hold_from_stdin: "Something newer was copied; leave it alone."          *)
HolderReads ==
  /\ HolderIs("started")
  /\ HolderBecomes(IF clip = holder.content THEN "checked" ELSE "declined")
  /\ UNCHANGED clipVars

HolderWrites ==
  /\ HolderIs("checked")
  /\ SetClip(holder.content, "holder")
  /\ HolderBecomes("holding")

(* Its own clipboard service reports something else than its content.      *)
HolderLeaves ==
  /\ HolderIs("holding")
  /\ clip \notin {holder.content, Empty}
  /\ HolderBecomes("left")
  /\ UNCHANGED clipVars

(* Mutant: the holder counts as ready as soon as it runs.                  *)
ReadyOnceStarted == TRUE

(* The holder has said that it took over; it may have left since.          *)
Ready == HolderIs("holding") \/ HolderIs("left")

(* spawn returns: the holder is ready, or has declined, or is too late.    *)
AnswerKeep ==
  /\ pc = "keeping"
  /\ pc' = "waiting"
  /\ answer' \in {Ready, FALSE}
  /\ UNCHANGED <<platform, clipVars, requests, due, lastToken, last, reported, failures,
                 timeVars, lastWritten, holder, wroteAfter>>

(* The process exits once keep_content_after_exit returned, whatever its   *)
(* threads are at.                                                         *)
Exit ==
  /\ answer # None /\ pc # "exited"
  /\ pc' = "exited"
  /\ IF platform.dies /\ owner = "cled" THEN SetClip(Empty, owner) ELSE UNCHANGED clipVars
  /\ UNCHANGED <<platform, requests, due, lastToken, last, reported, failures, timeVars,
                 exitVars>>
-----------------------------------------------------------------------------
Next ==
  \/ \E snapshot \in Snapshot : Replace(snapshot)
  \/ \E lost \in BOOLEAN : Announce(lost)
  \/ \E content \in Content : RequestWrite(content)
  \/ RequestKeep
  \/ Tick
  \/ ServeNotification
  \/ ServeWrite
  \/ ServeKeep
  \/ AnswerKeep
  \/ Exit
  \/ HolderReads
  \/ HolderWrites
  \/ HolderLeaves
  \/ StartCheck
  \/ ReadToken
  \/ ReadContent
  \/ ReadFails

Spec == Init /\ [][Next]_vars

(* The thread keeps running and time passes; nothing else has to happen.   *)
Fairness ==
  /\ WF_vars(Tick)
  /\ WF_vars(ServeNotification \/ ServeWrite \/ ServeKeep)
  /\ WF_vars(AnswerKeep)
  /\ WF_vars(StartCheck)
  /\ WF_vars(ReadToken)
  /\ WF_vars(ReadContent \/ ReadFails)

FairSpec == Spec /\ Fairness
-----------------------------------------------------------------------------
(* The service implements ClipboardWatch: whatever the channel, the timing *)
(* and the tokens do, it reports exactly the changes it observes, each     *)
(* once, and observes every change that lasts.                             *)
Watch == INSTANCE ClipboardWatch WITH
           BaselineFails <- \E p \in Platform : p.baselineFails,
           running <- pc # "exited",
           clip <- clip, last <- last, reported <- reported
KeepsWatch == Watch!WatchSpec

(* A check is never more than Interval after the last one, nor more than   *)
(* Debounce after the first notification since ("whichever comes first",   *)
(* Schedule): a burst of notifications cannot put it off.                  *)
CheckInTime ==
  /\ sinceCheck + due <= Interval
  /\ sinceNotice # None => sinceNotice + due <= Debounce

(* "Returns whether a holder took over" (keep_content_after_exit): when it  *)
(* did and nothing was written since, the exit takes nothing off the       *)
(* clipboard, however late the holder was and whoever else copied.         *)
HandedOver == answer = TRUE /\ ~wroteAfter => owner # "cled"

(* "on_change runs on the clipboard thread whenever the clipboard changes" *)
(* (ClipboardService::spawn): what differs from the last observation is    *)
(* observed in the end, or replaced by what does not.                      *)
EveryChangeObserved ==
  (Fingerprint(clip) # last) ~> (Fingerprint(clip) = last \/ pc = "exited")

=============================================================================
