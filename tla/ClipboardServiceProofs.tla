------------------------ MODULE ClipboardServiceProofs ------------------------
(***************************************************************************)
(* Proofs about ClipboardService, for every platform, any intervals, any   *)
(* contents and any number of changes and failures.                        *)
(***************************************************************************)
EXTENDS ClipboardService, TLAPS

LEMMA FingerprintType ==
  ASSUME NEW snapshot \in Snapshot
  PROVE  Fingerprint(snapshot) \in Fingerprints
BY IdentityAssumption, SnapshotAssumption DEF Fingerprint, Fingerprints, Snapshot

LEMMA RequestTypes ==
  /\ Changed \in Request /\ Keep \in Request
  /\ \A content \in Content : WriteOf(content) \in Request
BY DEF Request

LEMMA ServedType ==
  ASSUME TypeOK, requests # <<>>
  PROVE  /\ Tail(requests) \in Seq(Request)
         /\ Head(requests).kind = "write" => Head(requests).content \in Content
<1>1. Tail(requests) \in Seq(Request) /\ Head(requests) \in Request
  BY DEF TypeOK
<1> QED
  BY <1>1 DEF Request, Changed, Keep, WriteOf

(* The type invariant in four parts: a step disturbs one or two of them.   *)
ClipTyped ==
  /\ platform \in Platform /\ clip \in Snapshot /\ changes \in Nat /\ announced \in BOOLEAN
  /\ owner \in {"other", "cled", "holder"}

ThreadTyped ==
  /\ requests \in Seq(Request)
  /\ pc \in {"waiting", "checking", "reading", "keeping", "exited"}
  /\ due \in 0..Interval
  /\ lastToken \in Int \cup Snapshot \cup {None} /\ last \in Fingerprints
  /\ reported \in [calls: Nat, snapshot: Snapshot] /\ failures \in 0..platform.maxFailures

TimeTyped == sinceCheck \in 0..Interval /\ sinceNotice \in 0..Interval \cup {None}

ExitTyped ==
  /\ lastWritten \in Content \cup {None}
  /\ holder \in {None} \cup [state: {"started", "declined", "checked", "holding", "left"},
                             content: Content]
  /\ answer \in {None, TRUE, FALSE} /\ wroteAfter \in BOOLEAN

LEMMA TypeParts == TypeOK <=> ClipTyped /\ ThreadTyped /\ TimeTyped /\ ExitTyped
BY DEF TypeOK, ClipTyped, ThreadTyped, TimeTyped, ExitTyped

LEMMA PartsNext == ClipTyped' /\ ThreadTyped' /\ TimeTyped' /\ ExitTyped' => TypeOK'
BY DEF TypeOK, ClipTyped, ThreadTyped, TimeTyped, ExitTyped

LEMMA PartsKept ==
  /\ ClipTyped /\ UNCHANGED <<platform, clipVars>> => ClipTyped'
  /\ ThreadTyped /\ UNCHANGED <<platform, threadVars>> => ThreadTyped'
  /\ TimeTyped /\ UNCHANGED timeVars => TimeTyped'
  /\ ExitTyped /\ UNCHANGED exitVars => ExitTyped'
BY DEF ClipTyped, ThreadTyped, TimeTyped, ExitTyped, clipVars, threadVars, timeVars, exitVars

(* Since the thread waits at most until `due`, a check is never late.      *)
Due == TypeOK /\ CheckInTime

LEMMA SameTimes == CheckInTime /\ UNCHANGED <<due, timeVars>> => CheckInTime'
BY DEF CheckInTime, timeVars

LEMMA NewClipType ==
  ASSUME TypeOK, NEW snapshot \in Snapshot, NEW by \in {"other", "cled", "holder"},
         SetClip(snapshot, by)
  PROVE  /\ clip' \in Snapshot /\ changes' \in Nat /\ announced' \in BOOLEAN
         /\ owner' \in {"other", "cled", "holder"}
<1>1. platform.watched \in BOOLEAN
  BY ServiceAssumption DEF TypeOK
<1> QED
  BY <1>1 DEF SetClip, TypeOK

LEMMA PlatformType ==
  ASSUME TypeOK
  PROVE  /\ platform.maxFailures \in Nat
         /\ platform.watched \in BOOLEAN
         /\ platform.token \in {"none", "counter", "content"}
BY ServiceAssumption DEF TypeOK

LEMMA FailuresType ==
  ASSUME TypeOK
  PROVE  /\ failures \in Nat /\ platform.maxFailures \in Nat
         /\ failures <= platform.maxFailures
<1>1. failures \in 0..platform.maxFailures
  BY DEF TypeOK
<1>2. platform.maxFailures \in Nat
  BY PlatformType
<1> QED
  BY <1>1, <1>2

LEMMA TokenType ==
  ASSUME TypeOK
  PROVE  ChangeToken \in Int \cup Snapshot \cup {None}
<1>1. changes \in Int /\ clip \in Snapshot
  BY DEF TypeOK
<1>2. CASE platform.token = "none"
  BY <1>2 DEF ChangeToken
<1>3. CASE platform.token = "counter"
  BY <1>1, <1>3 DEF ChangeToken
<1>4. CASE platform.token = "content"
  BY <1>1, <1>4 DEF ChangeToken
<1> QED
  BY <1>2, <1>3, <1>4, PlatformType

LEMMA InitDue == Init => Due
<1> SUFFICES ASSUME Init PROVE Due
  OBVIOUS
<1>1. platform \in [token: {"none", "counter", "content"}, watched: BOOLEAN,
                    maxFailures: Nat, baselineFails: BOOLEAN, dies: BOOLEAN]
  BY ServiceAssumption DEF Init
<1>2. last \in Fingerprints
  BY FingerprintType DEF Init, Fingerprints
<1>3. lastToken \in Int \cup Snapshot \cup {None}
  BY <1>1 DEF Init
<1>4. Interval \in Nat /\ Interval > 0
  BY ServiceAssumption
<1>5. requests \in Seq(Request) /\ reported \in [calls: Nat, snapshot: Snapshot]
  BY DEF Init, NoReport, Snapshot
<1>6. /\ failures \in 0..platform.maxFailures /\ due \in 0..Interval /\ sinceCheck \in 0..Interval
      /\ changes \in Nat
  BY <1>1, <1>4 DEF Init
<1>7. TypeOK
  BY <1>2, <1>3, <1>5, <1>6 DEF Init, TypeOK
<1>8. CheckInTime
  BY <1>4 DEF Init, CheckInTime
<1> QED
  BY <1>7, <1>8 DEF Due

(* The clipboard changes, or a request arrives; the thread is not disturbed. *)
LEMMA OutsideDue ==
  ASSUME Due,
         \/ \E snapshot \in Snapshot : Replace(snapshot)
         \/ \E lost \in BOOLEAN : Announce(lost)
         \/ \E content \in Content : RequestWrite(content)
         \/ RequestKeep
  PROVE  Due'
<1> USE DEF Due
<1>1. ASSUME NEW snapshot \in Snapshot, Replace(snapshot) PROVE Due'
  <2>1. /\ clip' \in Snapshot /\ changes' \in Nat /\ announced' \in BOOLEAN
        /\ owner' \in {"other", "cled", "holder"}
    BY <1>1, NewClipType DEF Replace
  <2>2. TypeOK'
    <3>1. ClipTyped'
      BY <1>1, <2>1, TypeParts DEF Replace, ClipTyped
    <3>2. ThreadTyped' /\ TimeTyped' /\ ExitTyped'
      BY <1>1, TypeParts, PartsKept DEF Replace
    <3> QED
      BY <3>1, <3>2, PartsNext
  <2>3. CheckInTime'
    BY <1>1, SameTimes DEF Replace, threadVars
  <2> QED
    BY <2>2, <2>3
<1>2. \A r \in Request : Append(requests, r) \in Seq(Request)
  BY DEF TypeOK
<1>3. ASSUME NEW r \in Request, Send(r), announced' \in BOOLEAN PROVE Due'
  <2>1. ClipTyped'
    BY <1>3 DEF Send, TypeOK, ClipTyped
  <2>2. ThreadTyped'
    BY <1>2, <1>3 DEF Send, TypeOK, ThreadTyped
  <2>3. TimeTyped' /\ ExitTyped'
    BY <1>3, TypeParts, PartsKept DEF Send
  <2> QED
    BY <1>3, <2>1, <2>2, <2>3, PartsNext, SameTimes DEF Send
<1>4. ASSUME NEW lost \in BOOLEAN, Announce(lost) PROVE Due'
  <2>1. CASE lost
    BY <1>4, <2>1 DEF Announce, TypeOK, CheckInTime, threadVars, timeVars, exitVars
  <2>2. CASE ~lost
    BY <1>3, <1>4, <2>2, RequestTypes DEF Announce
  <2> QED
    BY <2>1, <2>2
<1>5. ASSUME NEW content \in Content, RequestWrite(content) PROVE Due'
  BY <1>3, <1>5, RequestTypes DEF RequestWrite, TypeOK
<1>6. CASE RequestKeep
  BY <1>3, <1>6, RequestTypes DEF RequestKeep, TypeOK
<1> QED
  BY <1>1, <1>4, <1>5, <1>6

LEMMA TickDue == Due /\ Tick => Due'
<1> SUFFICES ASSUME Due, Tick PROVE Due'
  OBVIOUS
<1>1. /\ due \in 0..Interval /\ due > 0 /\ sinceCheck \in 0..Interval
      /\ Interval \in Nat /\ Debounce \in Nat /\ Debounce <= Interval
  BY ServiceAssumption DEF Due, TypeOK, Tick
<1>2. due' = due - 1 /\ sinceCheck' = sinceCheck + 1 /\ due' \in 0..Interval
  BY <1>1 DEF Tick
<1>3. sinceCheck' + due' <= Interval /\ sinceCheck' \in 0..Interval
  BY <1>1, <1>2 DEF Due, CheckInTime
<1>6. ClipTyped' /\ ThreadTyped' /\ ExitTyped'
  <2>1. ClipTyped' /\ ExitTyped'
    BY TypeParts, PartsKept DEF Due, Tick
  <2>2. ThreadTyped'
    BY <1>2 DEF Due, TypeOK, Tick, ThreadTyped
  <2> QED
    BY <2>1, <2>2
<1>4. CASE sinceNotice = None
  <2>1. sinceNotice' = None
    BY <1>4 DEF Tick
  <2> QED
    <3>1. TypeOK'
      BY <1>6, <1>3, <2>1, PartsNext DEF TimeTyped
    <3>2. CheckInTime'
      BY <1>3, <2>1 DEF CheckInTime
    <3> QED
      BY <3>1, <3>2 DEF Due
<1>5. CASE sinceNotice # None
  <2>1. sinceNotice' = sinceNotice + 1 /\ sinceNotice \in 0..Interval
    BY <1>5 DEF Tick, Due, TypeOK
  <2>2. sinceNotice' + due' <= Debounce /\ sinceNotice' \in 0..Interval
    BY <1>1, <1>2, <1>5, <2>1 DEF Due, CheckInTime
  <2> QED
    <3>1. TypeOK'
      BY <1>6, <1>3, <2>2, PartsNext DEF TimeTyped
    <3>2. CheckInTime'
      BY <1>3, <2>2 DEF CheckInTime
    <3> QED
      BY <3>1, <3>2 DEF Due
<1> QED
  BY <1>4, <1>5

LEMMA ServeDue ==
  ASSUME Due, ServeNotification \/ ServeWrite \/ ServeKeep
  PROVE  Due'
<1> USE DEF Due
<1>1. CASE ServeNotification
  <2>1. requests' \in Seq(Request)
    BY <1>1, ServedType DEF ServeNotification, Serve
  <2>2. /\ due \in 0..Interval /\ Debounce \in Nat /\ Debounce <= Interval /\ Interval \in Nat
        /\ sinceCheck \in 0..Interval
    BY ServiceAssumption DEF TypeOK
  <2>3. due' \in 0..Interval /\ due' <= due /\ due' <= Debounce
    BY <1>1, <2>2 DEF ServeNotification, Notified, Sooner
  <2>4. CASE sinceNotice = None
    <3>1. sinceNotice' = 0 /\ sinceNotice' \in 0..Interval
      BY <1>1, <2>2, <2>4 DEF ServeNotification
    <3>2. CheckInTime'
      BY <1>1, <2>2, <2>3, <3>1 DEF ServeNotification, CheckInTime
    <3>3. ThreadTyped'
      BY <1>1, <2>1, <2>3, TypeParts DEF ServeNotification, Serve, ThreadTyped
    <3>4. TimeTyped'
      BY <1>1, <2>2, <3>1 DEF ServeNotification, TimeTyped
    <3>5. ClipTyped' /\ ExitTyped'
      BY <1>1, TypeParts, PartsKept DEF ServeNotification, Serve
    <3> QED
      BY <3>2, <3>3, <3>4, <3>5, PartsNext
  <2>5. CASE sinceNotice # None
    <3>1. sinceNotice' = sinceNotice /\ sinceNotice \in 0..Interval
      BY <1>1, <2>5 DEF ServeNotification, TypeOK
    <3>2. CheckInTime'
      BY <1>1, <2>2, <2>3, <3>1 DEF ServeNotification, CheckInTime
    <3>3. ThreadTyped'
      BY <1>1, <2>1, <2>3, TypeParts DEF ServeNotification, Serve, ThreadTyped
    <3>4. TimeTyped'
      BY <1>1, <2>2, <3>1 DEF ServeNotification, TimeTyped
    <3>5. ClipTyped' /\ ExitTyped'
      BY <1>1, TypeParts, PartsKept DEF ServeNotification, Serve
    <3> QED
      BY <3>2, <3>3, <3>4, <3>5, PartsNext
  <2> QED
    BY <2>4, <2>5
<1>2. CASE ServeWrite
  <2>1. /\ requests' \in Seq(Request) /\ Head(requests).content \in Content
        /\ Head(requests).content \in Snapshot
    BY <1>2, ServedType DEF ServeWrite, Serve, Snapshot
  <2>2. /\ clip' \in Snapshot /\ changes' \in Nat /\ announced' \in BOOLEAN
        /\ owner' \in {"other", "cled", "holder"}
        /\ lastWritten' \in Content \cup {None} /\ wroteAfter' \in BOOLEAN
        /\ failures' \in 0..platform.maxFailures
    <3>1. CASE SetClip(Head(requests).content, "cled") /\ lastWritten' = Head(requests).content
               /\ wroteAfter' = (answer # None) /\ failures' = failures
      BY <2>1, <3>1, NewClipType DEF TypeOK
    <3>2. CASE /\ failures < platform.maxFailures /\ failures' = failures + 1
               /\ UNCHANGED <<clipVars, lastWritten, wroteAfter>>
      <4>1. failures \in Nat /\ platform.maxFailures \in Nat
        BY FailuresType
      <4>2. failures' \in 0..platform.maxFailures
        BY <3>2, <4>1
      <4> QED
        BY <3>2, <4>2 DEF TypeOK, clipVars
    <3> QED
      BY <1>2, <3>1, <3>2 DEF ServeWrite
  <2> QED
    <3>1. ClipTyped'
      BY <1>2, <2>2 DEF ServeWrite, Serve, TypeOK, ClipTyped
    <3>2. ThreadTyped'
      BY <1>2, <2>1, <2>2 DEF ServeWrite, Serve, TypeOK, ThreadTyped
    <3>3. TimeTyped' /\ ExitTyped'
      BY <1>2, <2>2, TypeParts, PartsKept DEF ServeWrite, ExitTyped
    <3> QED
      BY <1>2, <3>1, <3>2, <3>3, PartsNext, SameTimes DEF ServeWrite
<1>3. CASE ServeKeep
  <2>1. requests' \in Seq(Request)
    BY <1>3, ServedType DEF ServeKeep, Serve
  <2>2. /\ holder' \in {None} \cup [state: {"started", "declined", "checked", "holding", "left"},
                                    content: Content]
        /\ pc' \in {"waiting", "checking", "reading", "keeping", "exited"}
        /\ answer' \in {None, TRUE, FALSE}
    <3>1. lastWritten \in Content \cup {None} /\ pc = "waiting" /\ answer \in {None, TRUE, FALSE}
      BY <1>3 DEF ServeKeep, Serve, TypeOK
    <3>2. holder \in {None} \cup [state: {"started", "declined", "checked", "holding", "left"},
                                  content: Content]
      BY DEF TypeOK
    <3>3. CASE /\ lastWritten # None /\ UNCHANGED answer /\ pc' = "keeping"
               /\ holder' = [state |-> "started", content |-> lastWritten]
      BY <3>1, <3>3
    <3>4. CASE answer' = FALSE /\ UNCHANGED <<holder, pc>>
      BY <3>1, <3>2, <3>4
    <3> QED
      BY <1>3, <3>3, <3>4 DEF ServeKeep
  <2>3. failures' \in 0..platform.maxFailures
    <3>1. failures \in Nat /\ failures <= platform.maxFailures /\ platform.maxFailures \in Nat
      BY FailuresType
    <3>2. failures' = failures \/ (failures < platform.maxFailures /\ failures' = failures + 1)
      BY <1>3 DEF ServeKeep
    <3> QED
      BY <3>1, <3>2
  <2>4. ClipTyped' /\ TimeTyped'
    BY <1>3, TypeParts, PartsKept DEF ServeKeep, Serve
  <2>5. ThreadTyped'
    BY <1>3, <2>1, <2>2, <2>3 DEF ServeKeep, Serve, TypeOK, ThreadTyped
  <2>6. ExitTyped'
    BY <1>3, <2>2 DEF ServeKeep, TypeOK, ExitTyped
  <2> QED
    BY <1>3, <2>4, <2>5, <2>6, PartsNext, SameTimes DEF ServeKeep
<1> QED
  BY <1>1, <1>2, <1>3

LEMMA CheckDue ==
  ASSUME Due, StartCheck \/ ReadToken \/ ReadContent \/ ReadFails
  PROVE  Due'
<1> USE DEF Due
<1>1. CASE StartCheck
  <2>1. Interval \in Nat
    BY ServiceAssumption
  <2> QED
    <3>3. ThreadTyped' /\ TimeTyped'
      BY <1>1, <2>1 DEF StartCheck, TypeOK, ThreadTyped, TimeTyped
    <3>4. ClipTyped' /\ ExitTyped'
      BY <1>1, TypeParts, PartsKept DEF StartCheck
    <3>1. TypeOK'
      BY <3>3, <3>4, PartsNext
    <3>2. CheckInTime'
      BY <1>1, <2>1 DEF StartCheck, CheckInTime
    <3> QED
      BY <3>1, <3>2
<1>2. CASE ReadToken
  <2>1. ThreadTyped'
    BY <1>2, TokenType, TypeParts DEF ReadToken, ThreadTyped
  <2>2. ClipTyped' /\ TimeTyped' /\ ExitTyped'
    BY <1>2, TypeParts, PartsKept DEF ReadToken
  <2> QED
    BY <1>2, <2>1, <2>2, PartsNext, SameTimes DEF ReadToken
<1>3. CASE ReadContent
  <2>1. last' \in Fingerprints /\ reported' \in [calls: Nat, snapshot: Snapshot]
    BY <1>3, FingerprintType DEF ReadContent, TypeOK
  <2>2. ThreadTyped'
    BY <1>3, <2>1, TypeParts DEF ReadContent, ThreadTyped
  <2>3. ClipTyped' /\ TimeTyped' /\ ExitTyped'
    BY <1>3, TypeParts, PartsKept DEF ReadContent
  <2> QED
    BY <1>3, <2>2, <2>3, PartsNext, SameTimes DEF ReadContent
<1>4. CASE ReadFails
  <2>1. failures \in Nat /\ platform.maxFailures \in Nat
    BY FailuresType
  <2>2. failures' \in 0..platform.maxFailures
    BY <1>4, <2>1 DEF ReadFails
  <2>3. ThreadTyped'
    BY <1>4, <2>2 DEF ReadFails, TypeOK, ThreadTyped
  <2>4. ClipTyped' /\ TimeTyped' /\ ExitTyped'
    BY <1>4, TypeParts, PartsKept DEF ReadFails
  <2> QED
    BY <1>4, <2>3, <2>4, PartsNext, SameTimes DEF ReadFails
<1> QED
  BY <1>1, <1>2, <1>3, <1>4

LEMMA HolderDue ==
  ASSUME Due, HolderReads \/ HolderWrites \/ HolderLeaves \/ AnswerKeep \/ Exit
  PROVE  Due'
<1> USE DEF Due
<1>1. HolderReads \/ HolderWrites \/ HolderLeaves => holder.content \in Content
  BY DEF HolderReads, HolderWrites, HolderLeaves, HolderIs, TypeOK
<1>2. ASSUME NEW state \in {"declined", "checked", "holding", "left"}, HolderBecomes(state),
             holder # None,
             clip' \in Snapshot /\ changes' \in Nat /\ announced' \in BOOLEAN,
             owner' \in {"other", "cled", "holder"}
      PROVE  Due'
  <2>1. holder' \in [state: {"started", "declined", "checked", "holding", "left"},
                     content: Content]
    BY <1>2 DEF HolderBecomes, TypeOK
  <2> QED
    BY <1>2, <2>1 DEF HolderBecomes, TypeOK, CheckInTime, threadVars, timeVars
<1>3. CASE HolderReads
  BY <1>2, <1>3 DEF HolderReads, HolderIs, TypeOK, clipVars
<1>4. CASE HolderWrites
  <2>1. holder.content \in Snapshot
    BY <1>1, <1>4 DEF Snapshot
  <2> QED
    BY <1>2, <1>4, <2>1, NewClipType DEF HolderWrites, HolderIs
<1>5. CASE HolderLeaves
  BY <1>2, <1>5 DEF HolderLeaves, HolderIs, TypeOK, clipVars
<1>6. CASE AnswerKeep
  <2>1. answer' \in {TRUE, FALSE}
    BY <1>6 DEF AnswerKeep, Ready, HolderIs
  <2>2. ExitTyped'
    BY <1>6, <2>1, TypeParts DEF AnswerKeep, ExitTyped
  <2>3. ThreadTyped'
    BY <1>6, TypeParts DEF AnswerKeep, ThreadTyped
  <2>4. ClipTyped' /\ TimeTyped'
    BY <1>6, TypeParts, PartsKept DEF AnswerKeep
  <2> QED
    BY <1>6, <2>2, <2>3, <2>4, PartsNext, SameTimes DEF AnswerKeep
<1>7. CASE Exit
  <2>1. /\ clip' \in Snapshot /\ changes' \in Nat /\ announced' \in BOOLEAN
        /\ owner' \in {"other", "cled", "holder"}
    <3>1. CASE SetClip(Empty, owner)
      BY <3>1, NewClipType DEF Snapshot, TypeOK
    <3>2. CASE UNCHANGED clipVars
      BY <3>2 DEF TypeOK, clipVars
    <3> QED
      BY <1>7, <3>1, <3>2 DEF Exit
  <2> QED
    BY <1>7, <2>1 DEF Exit, TypeOK, CheckInTime, timeVars, exitVars
<1> QED
  BY <1>3, <1>4, <1>5, <1>6, <1>7

LEMMA NextDue == Due /\ [Next]_vars => Due'
<1> SUFFICES ASSUME Due, [Next]_vars PROVE Due'
  OBVIOUS
<1>1. CASE UNCHANGED vars
  <2>1. TypeOK'
    BY <1>1, TypeParts, PartsKept, PartsNext DEF Due, vars
  <2>2. UNCHANGED <<due, timeVars>>
    BY <1>1 DEF vars, threadVars
  <2> QED
    BY <2>1, <2>2, SameTimes DEF Due
<1>2. CASE Next
  BY <1>2, OutsideDue, TickDue, ServeDue, CheckDue, HolderDue DEF Next
<1> QED
  BY <1>1, <1>2

LEMMA AlwaysDue == Spec => []Due
BY InitDue, NextDue, PTL DEF Spec

(* The state types, and the check that is never late                       *)
(* (ClipboardService!TypeOK).                                              *)
THEOREM ServiceTyped == Spec => []TypeOK
BY AlwaysDue, PTL DEF Due

(* However many notifications arrive, a check is never more than Interval  *)
(* after the last one nor more than Debounce after the first notification  *)
(* since (ClipboardService!CheckInTime; Schedule in service.rs).           *)
THEOREM ChecksInTime == Spec => []CheckInTime
BY AlwaysDue, PTL DEF Due
-----------------------------------------------------------------------------
(* HandedOver by itself says nothing of the time before the answer: what   *)
(* is written is written before the holder is asked for, or after it       *)
(* answered, so the owner of a holder's clipboard is not this program.     *)
Handed ==
  /\ HandedOver
  /\ pc = "keeping" /\ Ready => owner # "cled"

LEMMA InitHanded == Init => Handed
BY ServiceAssumption DEF Init, Handed, HandedOver

LEMMA NextHanded == TypeOK /\ Handed /\ [Next]_vars => Handed'
<1> SUFFICES ASSUME TypeOK, Handed, [Next]_vars PROVE Handed'
  OBVIOUS
<1>0. holder # None => holder \in [state: {"started", "declined", "checked", "holding", "left"},
                                   content: Content]
  BY DEF TypeOK
<1>1. ASSUME UNCHANGED <<answer, wroteAfter, pc, holder, owner>> PROVE Handed'
  BY <1>1 DEF Handed, HandedOver, Ready, HolderIs
<1>2. ASSUME NEW snapshot \in Snapshot, Replace(snapshot) PROVE Handed'
  BY <1>2 DEF Replace, SetClip, Handed, HandedOver
<1>3. CASE ServeWrite
  <2>1. UNCHANGED <<answer, holder, pc>> /\ pc = "waiting"
    BY <1>3 DEF ServeWrite, Serve
  <2>2. CASE wroteAfter' = (answer # None)
    BY <2>1, <2>2, ServiceAssumption DEF Handed, HandedOver
  <2>3. CASE UNCHANGED <<clipVars, wroteAfter>>
    BY <1>1, <2>1, <2>3 DEF clipVars
  <2> QED
    BY <1>3, <2>2, <2>3 DEF ServeWrite
<1>4. CASE ServeKeep
  <2>1. UNCHANGED <<owner, wroteAfter>> /\ pc = "waiting"
    BY <1>4 DEF ServeKeep, Serve, clipVars
  <2>2. CASE /\ holder' = [state |-> "started", content |-> lastWritten]
             /\ UNCHANGED answer
    BY <2>1, <2>2 DEF Handed, HandedOver, Ready, HolderIs
  <2>3. CASE answer' = FALSE /\ UNCHANGED <<holder, pc>>
    BY <2>1, <2>3 DEF Handed, HandedOver
  <2> QED
    BY <1>4, <2>2, <2>3 DEF ServeKeep
<1>5. CASE AnswerKeep
  BY <1>5 DEF AnswerKeep, clipVars, Handed, HandedOver, Ready, HolderIs
<1>6. CASE Exit
  <2>1. owner' = owner /\ pc' = "exited" /\ UNCHANGED <<answer, wroteAfter>>
    BY <1>6 DEF Exit, SetClip, clipVars, exitVars
  <2> QED
    BY <2>1 DEF Handed, HandedOver
<1>7. CASE HolderWrites
  BY <1>7 DEF HolderWrites, SetClip, Handed, HandedOver
<1>8. CASE HolderReads \/ HolderLeaves
  <2>1. /\ UNCHANGED <<owner, pc, answer, wroteAfter>>
    BY <1>8 DEF HolderReads, HolderLeaves, HolderBecomes, clipVars, threadVars
  <2>2. CASE HolderReads
    <3>1. \/ holder' = [holder EXCEPT !.state = "checked"]
          \/ holder' = [holder EXCEPT !.state = "declined"]
      BY <2>2 DEF HolderReads, HolderBecomes
    <3>2. ~Ready'
      <4>1. holder # None /\ holder.state = "started"
        BY <2>2 DEF HolderReads, HolderIs
      <4>2. holder'.state # "holding" /\ holder'.state # "left"
        BY <1>0, <4>1, <3>1
      <4> QED
        BY <4>2 DEF Ready, HolderIs
    <3> QED
      BY <2>1, <3>2 DEF Handed, HandedOver
  <2>3. CASE HolderLeaves
    <3>1. Ready
      BY <2>3 DEF HolderLeaves, Ready
    <3> QED
      BY <2>1, <3>1 DEF Handed, HandedOver
  <2> QED
    BY <1>8, <2>2, <2>3
<1>9. CASE \/ \E lost \in BOOLEAN : Announce(lost)
           \/ \E content \in Content : RequestWrite(content)
           \/ RequestKeep
  BY <1>1, <1>9 DEF Announce, RequestWrite, RequestKeep, Send, threadVars, exitVars
<1>10. CASE Tick \/ ServeNotification
  BY <1>1, <1>10 DEF Tick, ServeNotification, clipVars, exitVars
<1>11. CASE StartCheck \/ ReadToken \/ ReadContent \/ ReadFails
  <2>1. UNCHANGED <<owner, exitVars>> /\ pc' # "keeping"
    BY <1>11 DEF StartCheck, ReadToken, ReadContent, ReadFails, clipVars
  <2> QED
    BY <2>1 DEF Handed, HandedOver, exitVars
<1>12. CASE UNCHANGED vars
  BY <1>1, <1>12 DEF vars, clipVars, threadVars, exitVars
<1> QED
  BY <1>2, <1>3, <1>4, <1>5, <1>6, <1>7, <1>8, <1>9, <1>10, <1>11, <1>12 DEF Next

(* When keep_content_after_exit answers that a holder took over, and       *)
(* nothing is written afterwards, the clipboard is not this program's own: *)
(* the exit takes nothing off it (ClipboardService!HandedOver).            *)
THEOREM TakenOver == Spec => []HandedOver
BY InitHanded, NextHanded, ServiceTyped, PTL DEF Spec, Handed
-----------------------------------------------------------------------------
(* The refinement of ClipboardWatch, but for its fairness.                 *)
LEMMA InitWatch == Init => Watch!WatchInit
BY DEF Init, Watch!WatchInit, Watch!Snapshot, Snapshot, Watch!Fingerprint, Fingerprint,
       Watch!NoReport, NoReport

LEMMA NextWatch == TypeOK /\ [Next]_vars => [Watch!WatchNext]_(Watch!watchVars)
<1> SUFFICES ASSUME TypeOK, [Next]_vars PROVE [Watch!WatchNext]_(Watch!watchVars)
  OBVIOUS
<1>1. ASSUME NEW snapshot \in Snapshot, clip' = snapshot, UNCHANGED <<pc, last, reported>>
      PROVE  Watch!WatchNext
  BY <1>1 DEF Watch!WatchNext, Watch!Replace, Watch!Snapshot, Snapshot
<1>2. ASSUME UNCHANGED <<clip, last, reported>>, pc # "exited" <=> pc' # "exited"
      PROVE  UNCHANGED Watch!watchVars
  BY <1>2 DEF Watch!watchVars
<1>3. ASSUME NEW snapshot \in Snapshot, Replace(snapshot) PROVE Watch!WatchNext
  BY <1>1, <1>3 DEF Replace, SetClip, threadVars
<1>4. CASE ServeWrite
  <2>1. UNCHANGED <<pc, last, reported>> /\ requests # <<>> /\ Head(requests).kind = "write"
    BY <1>4 DEF ServeWrite, Serve
  <2>2. Head(requests).content \in Snapshot
    BY <2>1, ServedType DEF Snapshot
  <2>3. clip' = Head(requests).content \/ clip' = clip
    BY <1>4 DEF ServeWrite, SetClip, clipVars
  <2> QED
    BY <1>1, <1>2, <2>1, <2>2, <2>3
<1>5. CASE HolderWrites
  <2>1. holder \in [state: {"started", "declined", "checked", "holding", "left"},
                    content: Content]
    BY <1>5 DEF HolderWrites, HolderIs, TypeOK
  <2>2. holder.content \in Snapshot
    BY <2>1 DEF Snapshot
  <2>3. clip' = holder.content /\ UNCHANGED <<pc, last, reported>>
    BY <1>5 DEF HolderWrites, SetClip, HolderBecomes, threadVars
  <2> QED
    BY <1>1, <2>2, <2>3
<1>6. CASE Exit
  <2>1. /\ pc # "exited" /\ pc' = "exited" /\ UNCHANGED <<last, reported>>
        /\ clip' = Empty \/ clip' = clip
    BY <1>6 DEF Exit, SetClip, clipVars
  <2> QED
    BY <2>1 DEF Watch!WatchNext, Watch!Exit
<1>7. CASE ReadContent
  <2>1. /\ pc = "reading" /\ pc' = "waiting" /\ UNCHANGED clip /\ last' = Fingerprint(clip)
        /\ reported' = IF IsChange(last, clip)
                       THEN [calls |-> reported.calls + 1, snapshot |-> clip] ELSE reported
    BY <1>7 DEF ReadContent, clipVars
  <2>2. CASE Fingerprint(clip) = last
    <3>1. ~IsChange(last, clip)
      BY <2>2 DEF IsChange
    <3> QED
      BY <1>2, <2>1, <2>2, <3>1
  <2>3. CASE Fingerprint(clip) # last
    <3>1. Watch!Observe
      BY <2>1, <2>3 DEF Watch!Observe, Watch!Fingerprint, Fingerprint, Watch!IsChange, IsChange
    <3> QED
      BY <3>1 DEF Watch!WatchNext
  <2> QED
    BY <2>2, <2>3
<1>8. CASE \/ \E lost \in BOOLEAN : Announce(lost)
           \/ \E content \in Content : RequestWrite(content)
           \/ RequestKeep
  BY <1>2, <1>8 DEF Announce, RequestWrite, RequestKeep, Send, threadVars
<1>9. CASE Tick \/ ServeNotification
  BY <1>2, <1>9 DEF Tick, ServeNotification, clipVars
<1>10. CASE ServeKeep \/ AnswerKeep
  <2>1. /\ UNCHANGED <<clip, last, reported>> /\ pc # "exited" /\ pc' # "exited"
    BY <1>10 DEF ServeKeep, Serve, AnswerKeep, clipVars
  <2> QED
    BY <1>2, <2>1
<1>11. CASE StartCheck \/ ReadToken \/ ReadFails
  <2>1. /\ UNCHANGED <<clip, last, reported>> /\ pc # "exited" /\ pc' # "exited"
    BY <1>11 DEF StartCheck, ReadToken, ReadFails, clipVars
  <2> QED
    BY <1>2, <2>1
<1>12. CASE HolderReads \/ HolderLeaves
  BY <1>2, <1>12 DEF HolderReads, HolderLeaves, HolderBecomes, clipVars, threadVars
<1>13. CASE UNCHANGED vars
  BY <1>2, <1>13 DEF vars, clipVars, threadVars
<1> QED
  BY <1>3, <1>4, <1>5, <1>6, <1>7, <1>8, <1>9, <1>10, <1>11, <1>12, <1>13 DEF Next

(* The service reports exactly the changes it observes, each once and what *)
(* is there then: whatever the channel, the tokens, the failures and the   *)
(* other programs do, a run of it is a run of ClipboardWatch (the safety   *)
(* part of ClipboardService!KeepsWatch).                                   *)
THEOREM ImplementsWatch ==
  Spec => Watch!WatchInit /\ [][Watch!WatchNext]_(Watch!watchVars)
BY InitWatch, NextWatch, ServiceTyped, PTL DEF Spec
===============================================================================
