---------------------------- MODULE ClipboardSync -----------------------------
(***************************************************************************)
(* Devices that share a clipboard: on each of them a clipboard thread that *)
(* watches and writes the OS clipboard, an event thread that applies what  *)
(* other devices sent, and the sync engine they share behind a mutex;      *)
(* between them the ordered, lossy connections of a group.                 *)
(*                                                                         *)
(* The clipboard thread is crates/cled-clipboard/src/service.rs, the event *)
(* thread apps/desktop/src-tauri/src/sync.rs, the callback that joins them *)
(* apps/desktop/src-tauri/src/clipboard.rs.                                *)
(***************************************************************************)
EXTENDS SyncEngine

CONSTANTS
  IdRank,          \* [Device -> Nat]: which device's random ID bits sort higher
  ClockSkew,       \* [Device -> Nat]: how far each clock is ahead, in ticks
  TicksPerMs,      \* clock ticks in the millisecond the wire format rounds to
  StartSnapshots,  \* what clipboards may hold when the program starts
  PromptWatcher,   \* TRUE: every clipboard change is checked before the next
                   \* copy or received item, and a copy is at least a tick
                   \* later than what was received; FALSE: any timing
  Breakable,       \* the connections that may break
  MaxCopies,       \* [Device -> Nat]: bounds
  MaxTime, MaxItems, MaxFaults, MaxRestarts   \* bounds

ASSUME ClockAssumption ==
  /\ IdRank \in [Device -> Nat]
  /\ ClockSkew \in [Device -> Nat]
  /\ TicksPerMs \in Nat \ {0}
ASSUME UniqueIdsAssumption ==
  \A d, e \in Device : IdRank[d] = IdRank[e] => d = e
ASSUME BoundsAssumption ==
  /\ StartSnapshots \subseteq Snapshot
  /\ PromptWatcher \in BOOLEAN
  /\ MaxCopies \in [Device -> Nat]
  /\ {MaxTime, MaxItems, MaxFaults, MaxRestarts} \subseteq Nat

VARIABLES
  now,        \* true time, in ticks
  clip,       \* OS clipboard: its snapshot, and the item if Cled wrote it
  unchecked,  \* the clipboard changed and has not been read since
  last,       \* ChangeDetector.last
  reporting,  \* change the clipboard thread is about to hand to the engine
  sending,    \* copy the clipboard thread is about to broadcast; it holds
              \* the engine's mutex meanwhile
  engine,     \* the sync engine
  eventPc,    \* what the event thread is doing
  applying,   \* item the event thread is having written
  handledAt,  \* history: when the event thread last took an item
  outbox,     \* broadcasts still being encoded, by spawned tasks
  connected,  \* pairs of devices with a session
  link,       \* items sent from one device to another and not yet handled
  copied,     \* history: contents the user of a device put on its clipboard
  created,    \* history: items the engine of a device created
  faults,     \* failed writes and disconnections so far
  restarts    \* how often a program was started again

threadVars == <<last, reporting, sending, engine, eventPc, applying, handledAt>>
vars == <<now, clip, unchecked, threadVars, outbox, connected, link,
          copied, created, faults, restarts>>

Pairs == {pair \in SUBSET Device : \E a, b \in Device : a # b /\ pair = {a, b}}
Clip  == [snapshot: Snapshot, writer: Item \cup {None}]

ASSUME NoClipAssumption == None \notin Clip

TypeOK ==
  /\ now \in Nat
  /\ clip \in [Device -> Clip]
  /\ unchecked \in [Device -> BOOLEAN]
  /\ last \in [Device -> Fingerprints]
  /\ reporting \in [Device -> [snapshot: Content, writer: Item \cup {None}] \cup {None}]
  /\ sending \in [Device -> Item \cup {None}]
  /\ engine \in [Device -> Engine]
  /\ eventPc \in [Device -> {"idle", "writing", "failed"}]
  /\ applying \in [Device -> Item \cup {None}]
  /\ handledAt \in [Device -> Nat]
  /\ outbox \in [Device -> SUBSET Item]
  /\ connected \subseteq Pairs
  /\ link \in [Device \X Device -> Seq(Item)]
  /\ copied \in [Device -> Nat]
  /\ created \in [Device -> Nat]
  /\ faults \in Nat /\ restarts \in Nat
  /\ \A d \in Device :
       /\ engine[d].device = d
       /\ applying[d] = None <=> eventPc[d] = "idle"
-----------------------------------------------------------------------------
(* The clipboard thread runs one request or check at a time.               *)
ClipboardThreadIdle(d) == reporting[d] = None /\ sending[d] = None

(* Mutant: the event thread keeps the mutex while it waits for the write.  *)
EngineUnlockedAfterWrite(d) == sending[d] = None /\ applying[d] = None

(* The engine's mutex.  The clipboard thread holds it from handing over a  *)
(* change until the broadcast is spawned; the event thread lets go of it   *)
(* before it waits for the clipboard thread.                               *)
EngineUnlocked(d) == sending[d] = None

(* The timing under which the tests drive the program.                     *)
Settled(d) == ~unchecked[d] /\ ClipboardThreadIdle(d) /\ eventPc[d] = "idle"

LocalTime(d) == now + ClockSkew[d]

FreshItem(d, content) ==
  NewItem(d, content, IdRank[d] * (MaxItems + 1) + created[d] + 1, LocalTime(d))

(* WireItem: the creation time travels in whole milliseconds.              *)
OnTheWire(item) ==
  [item EXCEPT !.created = (item.created \div TicksPerMs) * TicksPerMs]

Init ==
  /\ now = 1
  /\ clip \in [Device -> [snapshot: StartSnapshots, writer: {None}]]
  /\ unchecked = [d \in Device |-> FALSE]
  /\ last = [d \in Device |-> Fingerprint(clip[d].snapshot)]
  /\ reporting = [d \in Device |-> None]
  /\ sending = [d \in Device |-> None]
  /\ engine = [d \in Device |-> NewEngine(d)]
  /\ eventPc = [d \in Device |-> "idle"]
  /\ applying = [d \in Device |-> None]
  /\ handledAt = [d \in Device |-> 0]
  /\ outbox = [d \in Device |-> {}]
  /\ connected = Pairs
  /\ link = [path \in Device \X Device |-> <<>>]
  /\ copied = [d \in Device |-> 0]
  /\ created = [d \in Device |-> 0]
  /\ faults = 0 /\ restarts = 0

(* Bound.                                                                  *)
MayFail == faults + restarts < MaxFaults
-----------------------------------------------------------------------------
Tick ==
  /\ now < MaxTime
  /\ now' = now + 1
  /\ UNCHANGED <<clip, unchecked, threadVars, outbox, connected, link,
                 copied, created, faults, restarts>>

(* An application on d replaces or clears the clipboard.                   *)
UserCopy(d, snapshot) ==
  /\ PromptWatcher => Settled(d) /\ now > handledAt[d]
  /\ snapshot \in Content => copied[d] < MaxCopies[d]
  /\ clip' = [clip EXCEPT ![d] = [snapshot |-> snapshot, writer |-> None]]
  /\ unchecked' = [unchecked EXCEPT ![d] = TRUE]
  /\ copied' = [copied EXCEPT ![d] = IF snapshot \in Content THEN @ + 1 ELSE @]
  /\ UNCHANGED <<now, threadVars, outbox, connected, link, created, faults, restarts>>

(* The clipboard thread's receive times out: it reads the clipboard.  Only *)
(* content goes on to the engine; skipped content is only shown.           *)
Check(d) ==
  /\ ClipboardThreadIdle(d)
  /\ unchecked' = [unchecked EXCEPT ![d] = FALSE]
  /\ last' = [last EXCEPT ![d] = Fingerprint(clip[d].snapshot)]
  /\ reporting' = [reporting EXCEPT ![d] =
       IF IsChange(last[d], clip[d].snapshot) /\ clip[d].snapshot \in Content
       THEN clip[d] ELSE None]
  /\ UNCHANGED <<now, clip, sending, engine, eventPc, applying, handledAt,
                 outbox, connected, link, copied, created, faults, restarts>>

(* process_change: the change goes through the engine.                     *)
ReportChange(d) ==
  /\ reporting[d] # None
  /\ EngineUnlocked(d)
  /\ created[d] < MaxItems
  /\ LET content == reporting[d].snapshot
         item    == FreshItem(d, content)
         copy    == ~IsEcho(engine[d], content)
     IN  /\ engine' = [engine EXCEPT ![d] = OnLocalChange(@, content, item)]
         /\ sending' = [sending EXCEPT ![d] = IF copy THEN item ELSE None]
         /\ created' = [created EXCEPT ![d] = IF copy THEN @ + 1 ELSE @]
  /\ reporting' = [reporting EXCEPT ![d] = None]
  /\ UNCHANGED <<now, clip, unchecked, last, eventPc, applying, handledAt, outbox,
                 connected, link, copied, faults, restarts>>

(* LanNode::broadcast spawns a task that encodes and then sends.           *)
Broadcast(d) ==
  /\ sending[d] # None
  /\ outbox' = [outbox EXCEPT ![d] = @ \cup {sending[d]}]
  /\ sending' = [sending EXCEPT ![d] = None]
  /\ UNCHANGED <<now, clip, unchecked, last, reporting, engine, eventPc,
                 applying, handledAt, connected, link, copied, created, faults, restarts>>

(* One such task finishes; several may finish in any order.  The item goes *)
(* to the devices connected at this moment.                                *)
SendToAll(d, item) ==
  /\ item \in outbox[d]
  /\ outbox' = [outbox EXCEPT ![d] = @ \ {item}]
  /\ link' = [path \in Device \X Device |->
       IF path[1] = d /\ {d, path[2]} \in connected
       THEN Append(link[path], OnTheWire(item)) ELSE link[path]]
  /\ UNCHANGED <<now, clip, unchecked, threadVars, connected, copied, created,
                 faults, restarts>>

(* handle_event, up to the engine's verdict.                               *)
ReceiveItem(s, d) ==
  /\ eventPc[d] = "idle"
  /\ link[<<s, d>>] # <<>>
  /\ EngineUnlocked(d)
  /\ PromptWatcher => Settled(d)
  /\ LET item  == Head(link[<<s, d>>])
         apply == Verdict(engine[d], item) = "Write"
     IN  /\ engine' = [engine EXCEPT ![d] = OnRemoteItem(@, item)]
         /\ eventPc' = [eventPc EXCEPT ![d] = IF apply THEN "writing" ELSE "idle"]
         /\ applying' = [applying EXCEPT ![d] = IF apply THEN item ELSE None]
  /\ handledAt' = [handledAt EXCEPT ![d] = now]
  /\ link' = [link EXCEPT ![<<s, d>>] = Tail(@)]
  /\ UNCHANGED <<now, clip, unchecked, last, reporting, sending, outbox,
                 connected, copied, created, faults, restarts>>

(* The clipboard thread serves the event thread's write request.           *)
WriteClipboard(d) ==
  /\ eventPc[d] = "writing"
  /\ ClipboardThreadIdle(d)
  /\ clip' = [clip EXCEPT ![d] =
       [snapshot |-> applying[d].content, writer |-> applying[d]]]
  /\ unchecked' = [unchecked EXCEPT ![d] = TRUE]
  /\ eventPc' = [eventPc EXCEPT ![d] = "idle"]
  /\ applying' = [applying EXCEPT ![d] = None]
  /\ UNCHANGED <<now, last, reporting, sending, engine, handledAt, outbox,
                 connected, link, copied, created, faults, restarts>>

WriteFails(d) ==
  /\ eventPc[d] = "writing"
  /\ ClipboardThreadIdle(d)
  /\ MayFail
  /\ faults' = faults + 1
  /\ eventPc' = [eventPc EXCEPT ![d] = "failed"]
  /\ UNCHANGED <<now, clip, unchecked, last, reporting, sending, engine,
                 applying, handledAt, outbox, connected, link, copied, created, restarts>>

(* Mutant: the item stays in hand.                                         *)
AbandonWriteKeepsItem(d) ==
  /\ eventPc[d] = "failed"
  /\ EngineUnlocked(d)
  /\ engine' = [engine EXCEPT ![d] = OnWriteFailed(@)]
  /\ eventPc' = [eventPc EXCEPT ![d] = "idle"]
  /\ UNCHANGED <<now, clip, unchecked, last, reporting, sending, applying,
                 handledAt, outbox, connected, link, copied, created, faults, restarts>>

(* The event thread has the error and takes the expectation back.          *)
AbandonWrite(d) ==
  /\ eventPc[d] = "failed"
  /\ EngineUnlocked(d)
  /\ engine' = [engine EXCEPT ![d] = OnWriteFailed(@)]
  /\ eventPc' = [eventPc EXCEPT ![d] = "idle"]
  /\ applying' = [applying EXCEPT ![d] = None]
  /\ UNCHANGED <<now, clip, unchecked, last, reporting, sending, handledAt,
                 outbox, connected, link, copied, created, faults, restarts>>
-----------------------------------------------------------------------------
(* What was sent on a connection that breaks is lost from some point on,   *)
(* and is not sent again.                                                  *)
Disconnect(a, b) ==
  /\ {a, b} \in connected \cap Breakable
  /\ MayFail
  /\ faults' = faults + 1
  /\ connected' = connected \ {{a, b}}
  /\ \E there \in 0..Len(link[<<a, b>>]), back \in 0..Len(link[<<b, a>>]) :
       link' = [link EXCEPT ![<<a, b>>] = SubSeq(@, 1, there),
                            ![<<b, a>>] = SubSeq(@, 1, back)]
  /\ UNCHANGED <<now, clip, unchecked, threadVars, outbox, copied, created, restarts>>

Connect(pair) ==
  /\ pair \in Pairs \ connected
  /\ connected' = connected \cup {pair}
  /\ UNCHANGED <<now, clip, unchecked, threadVars, outbox, link, copied,
                 created, faults, restarts>>

(* The program on d stops and starts again: its engine, its channels and   *)
(* its connections are gone.  On some platforms content that Cled had      *)
(* written leaves the clipboard with it.                                   *)
Restart(d, left) ==
  /\ MayFail /\ restarts < MaxRestarts
  /\ left = clip[d].snapshot \/ (clip[d].writer # None /\ left = Empty)
  /\ restarts' = restarts + 1
  /\ clip' = [clip EXCEPT ![d] = [snapshot |-> left, writer |-> None]]
  /\ unchecked' = [unchecked EXCEPT ![d] = FALSE]
  /\ last' = [last EXCEPT ![d] = Fingerprint(left)]
  /\ reporting' = [reporting EXCEPT ![d] = None]
  /\ sending' = [sending EXCEPT ![d] = None]
  /\ engine' = [engine EXCEPT ![d] = NewEngine(d)]
  /\ eventPc' = [eventPc EXCEPT ![d] = "idle"]
  /\ applying' = [applying EXCEPT ![d] = None]
  /\ outbox' = [outbox EXCEPT ![d] = {}]
  /\ connected' = {pair \in connected : d \notin pair}
  /\ \E kept \in [Device -> 0..MaxItems] :
       /\ \A p \in Device : kept[p] <= Len(link[<<d, p>>])
       /\ link' = [path \in Device \X Device |->
            IF path[2] = d THEN <<>>
            ELSE IF path[1] = d THEN SubSeq(link[path], 1, kept[path[2]])
            ELSE link[path]]
  /\ UNCHANGED <<now, handledAt, copied, created, faults>>
-----------------------------------------------------------------------------
Next ==
  \/ Tick
  \/ \E d \in Device :
       \/ \E snapshot \in Snapshot : UserCopy(d, snapshot)
       \/ Check(d)
       \/ ReportChange(d)
       \/ Broadcast(d)
       \/ \E item \in outbox[d] : SendToAll(d, item)
       \/ \E s \in Device : ReceiveItem(s, d)
       \/ WriteClipboard(d)
       \/ WriteFails(d)
       \/ AbandonWrite(d)
       \/ \E left \in Snapshot : Restart(d, left)
  \/ \E a, b \in Device : Disconnect(a, b)
  \/ \E pair \in Pairs : Connect(pair)

Spec == Init /\ [][Next]_vars

(* Every thread and task keeps running; users, time and failures need not. *)
Fairness ==
  \A d \in Device :
    /\ WF_vars(unchecked[d] /\ Check(d))
    /\ WF_vars(ReportChange(d))
    /\ WF_vars(Broadcast(d))
    /\ WF_vars(\E item \in outbox[d] : SendToAll(d, item))
    /\ WF_vars(\E s \in Device : ReceiveItem(s, d))
    /\ WF_vars(WriteClipboard(d) \/ WriteFails(d))
    /\ WF_vars(AbandonWrite(d))

FairSpec == Spec /\ Fairness
-----------------------------------------------------------------------------
(* The IDs an engine remembers are the members of its queue, each once,    *)
(* never more than its capacity (recent.rs).                               *)
RecentSetOK(recent) ==
  /\ recent.members = {recent.order[i] : i \in 1..Len(recent.order)}
  /\ \A i, j \in 1..Len(recent.order) : recent.order[i] = recent.order[j] => i = j
  /\ Len(recent.order) <= RecentItems
SeenIsRecentIds == \A d \in Device : RecentSetOK(engine[d].seen)

(* The change detector and the engine agree on what is on the clipboard:   *)
(* outside a report, when the last clipboard the thread saw was content,   *)
(* the engine judges remote items against that same content.  They are two *)
(* records kept by two threads, and every path through on_local_change and *)
(* on_remote_item has to keep them together.  (None until the first copy.) *)
EngineTracksDetector ==
  \A d \in Device :
    (reporting[d] = None /\ engine[d].current # None /\ last[d] \in Content)
      => engine[d].current.hash = last[d]

(* "Only the origin broadcasts" (engine.rs): a device creates no more      *)
(* items than its user made copies, so no received item, however late its  *)
(* echo is noticed, ever goes out again as a new one.                      *)
NoFeedback == \A d \in Device : created[d] <= copied[d]

(* "Newest wins" (engine.rs): Cled never replaces an item it has put on a  *)
(* clipboard by an older one.                                              *)
NewestWins ==
  [][\A d \in Device :
       (clip[d].writer # None /\ clip'[d].writer # None)
         => ~IsNewerThan(clip[d].writer, clip'[d].writer)]_vars

(* The expectation of an echo "can never swallow a later genuine copy"     *)
(* (engine.rs): a change the user made is broadcast, never taken for Cled's*)
(* own write.                                                              *)
GenuineCopyIsSent ==
  [][\A d \in Device :
       (reporting[d] # None /\ reporting[d].writer = None /\ reporting'[d] = None)
         => (sending'[d] # None \/ restarts' # restarts)]_vars

Quiescent ==
  \A d \in Device :
    /\ Settled(d)
    /\ outbox[d] = {}
    /\ \A s \in Device : link[<<s, d>>] = <<>>

(* "Devices that copy at the same moment converge" (engine.rs): once all   *)
(* is handled, and nothing failed, the engines of all devices name         *)
(* the same item.                                                          *)
Converged ==
  (Quiescent /\ faults = 0 /\ restarts = 0) =>
    \A d, e \in Device :
      (engine[d].current # None /\ engine[e].current # None)
        => engine[d].current.id = engine[e].current.id

(* Once users stop copying, the work their copies caused comes to an end:  *)
(* every item is encoded, sent, judged and written, every echo recognized, *)
(* and no echo starts another round.                                       *)
UsersStop == <>[][\A d \in Device, snapshot \in Snapshot : ~UserCopy(d, snapshot)]_vars
SettlesDown == UsersStop => <>[]Quiescent
=============================================================================
