------------------------- MODULE ClipboardSyncProofs --------------------------
(***************************************************************************)
(* Proofs about ClipboardSync, for every set of devices and contents, any  *)
(* clocks, any bounds and any timing.                                      *)
(***************************************************************************)
EXTENDS ClipboardSync, TLAPS

(* Item IDs are numbers.                                                   *)
LEMMA FreshItemType ==
  ASSUME TypeOK, NEW d \in Device, NEW content \in Content
  PROVE  /\ FreshItem(d, content) \in Item
         /\ FreshItem(d, content).hash = Identity[content]
         /\ FreshItem(d, content).content = content
<1>1. IdRank[d] \in Nat /\ MaxItems + 1 \in Nat /\ created[d] \in Nat
  BY ClockAssumption, BoundsAssumption DEF TypeOK
<1>2. \A m, n \in Nat : m * n \in Nat
  OBVIOUS
<1>3. IdRank[d] * (MaxItems + 1) + created[d] + 1 \in Nat
  BY <1>1, <1>2
<1>4. LocalTime(d) \in Nat
  BY ClockAssumption DEF LocalTime, TypeOK
<1>5. Identity[content] \in Content
  BY IdentityAssumption
<1> QED
  BY <1>3, <1>4, <1>5 DEF FreshItem, NewItem, Item, ContentHash

LEMMA RememberType ==
  ASSUME NEW recent \in [order: Seq(Nat), members: SUBSET Nat], NEW id \in Nat
  PROVE  Remember(recent, id) \in [order: Seq(Nat), members: SUBSET Nat]
<1> DEFINE order == Append(recent.order, id)
<1>1. recent.order \in Seq(Nat) /\ recent.members \in SUBSET Nat
  OBVIOUS
<1>2. order \in Seq(Nat) /\ order # <<>>
  BY <1>1
<1>3. Tail(order) \in Seq(Nat)
  BY <1>2
<1> HIDE DEF order
<1>4. CASE id \in recent.members
  BY <1>4 DEF Remember
<1>5. CASE id \notin recent.members
  BY <1>1, <1>2, <1>3, <1>5 DEF Remember, order
<1> QED
  BY <1>4, <1>5

LEMMA OnLocalChangeType ==
  ASSUME NEW e \in Engine, NEW content \in Content, NEW fresh \in Item
  PROVE  /\ OnLocalChange(e, content, fresh) \in Engine
         /\ OnLocalChange(e, content, fresh).device = e.device
<1>1. Remember(e.seen, fresh.id) \in [order: Seq(Nat), members: SUBSET Nat]
  BY RememberType DEF Engine, Item
<1>2. CurrentOf(fresh) \in Current
  BY DEF CurrentOf, Current, Item
<1>3. e.pending # None => CurrentOf(e.pending) \in Current
  BY DEF CurrentOf, Current, Item, Engine
<1> QED
  BY <1>1, <1>2, <1>3 DEF OnLocalChange, IsEcho, Engine

LEMMA OnRemoteItemType ==
  ASSUME NEW e \in Engine, NEW item \in Item
  PROVE  /\ OnRemoteItem(e, item) \in Engine
         /\ OnRemoteItem(e, item).device = e.device
<1>1. Remember(e.seen, item.id) \in [order: Seq(Nat), members: SUBSET Nat]
  BY RememberType DEF Engine, Item
<1>2. CurrentOf(item) \in Current
  BY DEF CurrentOf, Current, Item
<1>3. Verdict(e, item) \in {"OwnItem", "Corrupt", "Duplicate", "Stale", "AlreadyOnClipboard", "Write"}
  BY DEF Verdict
<1> QED
  BY <1>1, <1>2, <1>3 DEF OnRemoteItem, Engine


LEMMA OnTheWireType ==
  ASSUME NEW item \in Item
  PROVE  OnTheWire(item) \in Item
<1>1. TicksPerMs \in Nat /\ TicksPerMs > 0 /\ item.created \in Nat
  BY ClockAssumption DEF Item
<1>2. item.created \div TicksPerMs \in Nat
  BY <1>1
<1>3. \A m, n \in Nat : m * n \in Nat
  OBVIOUS
<1>4. (item.created \div TicksPerMs) * TicksPerMs \in Nat
  BY <1>1, <1>2, <1>3
<1> QED
  BY <1>4 DEF OnTheWire, Item

LEMMA FingerprintType ==
  ASSUME NEW snapshot \in Snapshot
  PROVE  /\ Fingerprint(snapshot) \in Fingerprints
         /\ snapshot \in Content => Fingerprint(snapshot) = Identity[snapshot]
         /\ snapshot \notin Content => Fingerprint(snapshot) \notin Content
BY IdentityAssumption, SnapshotAssumption
   DEF Fingerprint, Fingerprints, Snapshot

LEMMA InitType == Init => TypeOK
<1> SUFFICES ASSUME Init PROVE TypeOK
  OBVIOUS
<1>1. \A d \in Device : clip[d] \in Clip /\ clip[d].snapshot \in Snapshot
  BY BoundsAssumption DEF Init, Clip
<1>2. last \in [Device -> Fingerprints]
  BY <1>1, FingerprintType DEF Init
<1>3. \A d \in Device : NewEngine(d) \in Engine /\ NewEngine(d).device = d
  BY DEF NewEngine, Engine, EmptyRecentSet
<1>4. clip \in [Device -> Clip]
  BY BoundsAssumption DEF Init, Clip
<1> QED
  BY <1>2, <1>3, <1>4 DEF Init, TypeOK

LEMMA NextType == TypeOK /\ [Next]_vars => TypeOK'
<1> SUFFICES ASSUME TypeOK, [Next]_vars PROVE TypeOK'
  OBVIOUS
<1>1. CASE Tick
  BY <1>1 DEF Tick, TypeOK, threadVars
<1>2. ASSUME NEW d \in Device, NEW snapshot \in Snapshot, UserCopy(d, snapshot)
      PROVE  TypeOK'
  BY <1>2 DEF UserCopy, TypeOK, threadVars, Clip
<1>3. ASSUME NEW d \in Device, Check(d)
      PROVE  TypeOK'
  <2>1. clip[d] \in Clip /\ clip[d].snapshot \in Snapshot
    BY DEF TypeOK, Clip
  <2>2. last' \in [Device -> Fingerprints]
    BY <1>3, <2>1, FingerprintType DEF Check, TypeOK
  <2>3. reporting' \in [Device -> [snapshot: Content, writer: Item \cup {None}] \cup {None}]
    BY <1>3, <2>1 DEF Check, TypeOK, Clip
  <2> QED
    BY <1>3, <2>2, <2>3 DEF Check, TypeOK
<1>4. ASSUME NEW d \in Device, ReportChange(d)
      PROVE  TypeOK'
  <2> DEFINE content == reporting[d].snapshot
             item    == FreshItem(d, content)
  <2>1. content \in Content
    BY <1>4 DEF ReportChange, TypeOK
  <2>2. item \in Item
    BY <2>1, FreshItemType
  <2>3. engine[d] \in Engine /\ engine[d].device = d
    BY DEF TypeOK
  <2>4. /\ OnLocalChange(engine[d], content, item) \in Engine
        /\ OnLocalChange(engine[d], content, item).device = d
    BY <2>1, <2>2, <2>3, OnLocalChangeType
  <2> HIDE DEF item
  <2>5. engine' = [engine EXCEPT ![d] = OnLocalChange(engine[d], content, item)]
    BY <1>4 DEF ReportChange, item
  <2>6. sending' \in [Device -> Item \cup {None}]
    BY <1>4, <2>2 DEF ReportChange, TypeOK, item
  <2>7. reporting' \in [Device -> [snapshot: Content, writer: Item \cup {None}] \cup {None}]
    BY <1>4 DEF ReportChange, TypeOK
  <2>8. created' \in [Device -> Nat]
    BY <1>4 DEF ReportChange, TypeOK
  <2>9. engine' \in [Device -> Engine] /\ \A e \in Device : engine'[e].device = e
    BY <2>4, <2>5 DEF TypeOK
  <2> QED
    BY <1>4, <2>6, <2>7, <2>8, <2>9 DEF ReportChange, TypeOK
<1>5. ASSUME NEW d \in Device, Broadcast(d)
      PROVE  TypeOK'
  BY <1>5 DEF Broadcast, TypeOK
<1>6. ASSUME NEW d \in Device, NEW item \in outbox[d], SendToAll(d, item)
      PROVE  TypeOK'
  <2>1. item \in Item
    BY DEF TypeOK
  <2>2. link' \in [Device \X Device -> Seq(Item)]
    BY <1>6, <2>1, OnTheWireType DEF SendToAll, TypeOK
  <2> QED
    BY <1>6, <2>2 DEF SendToAll, TypeOK, threadVars
<1>7. ASSUME NEW d \in Device, NEW s \in Device, ReceiveItem(s, d)
      PROVE  TypeOK'
  <2> DEFINE item == Head(link[<<s, d>>])
  <2>1. item \in Item /\ Tail(link[<<s, d>>]) \in Seq(Item)
    BY <1>7 DEF ReceiveItem, TypeOK
  <2>2. engine[d] \in Engine /\ engine[d].device = d
    BY DEF TypeOK
  <2>3. OnRemoteItem(engine[d], item) \in Engine /\ OnRemoteItem(engine[d], item).device = d
    BY <2>1, <2>2, OnRemoteItemType
  <2>4. engine' = [engine EXCEPT ![d] = OnRemoteItem(engine[d], item)]
    BY <1>7 DEF ReceiveItem
  <2> HIDE DEF item
  <2>5. engine' \in [Device -> Engine] /\ \A e \in Device : engine'[e].device = e
    BY <2>3, <2>4 DEF TypeOK
  <2>6. link' \in [Device \X Device -> Seq(Item)]
    BY <1>7, <2>1 DEF ReceiveItem, TypeOK
  <2>7. item # None
    BY <2>1, NoneAssumption
  <2>8. /\ eventPc' \in [Device -> {"idle", "writing", "failed"}]
        /\ applying' \in [Device -> Item \cup {None}]
        /\ \A e \in Device : applying'[e] = None <=> eventPc'[e] = "idle"
    BY <1>7, <2>1, <2>7 DEF ReceiveItem, TypeOK, item
  <2>9. handledAt' \in [Device -> Nat]
    BY <1>7 DEF ReceiveItem, TypeOK
  <2> QED
    BY <1>7, <2>5, <2>6, <2>8, <2>9 DEF ReceiveItem, TypeOK
<1>8. ASSUME NEW d \in Device, WriteClipboard(d)
      PROVE  TypeOK'
  <2>1. applying[d] \in Item
    BY <1>8 DEF WriteClipboard, TypeOK
  <2>2. [snapshot |-> applying[d].content, writer |-> applying[d]] \in Clip
    BY <2>1 DEF Clip, Item, Snapshot
  <2> QED
    BY <1>8, <2>2 DEF WriteClipboard, TypeOK
<1>9. ASSUME NEW d \in Device, WriteFails(d)
      PROVE  TypeOK'
  BY <1>9 DEF WriteFails, TypeOK
<1>10. ASSUME NEW d \in Device, AbandonWrite(d)
       PROVE  TypeOK'
  <2>1. engine[d] \in Engine /\ engine[d].device = d
    BY DEF TypeOK
  <2>2. OnWriteFailed(engine[d]) \in Engine /\ OnWriteFailed(engine[d]).device = d
    BY <2>1 DEF OnWriteFailed, Engine
  <2> QED
    BY <1>10, <2>2 DEF AbandonWrite, TypeOK
<1>11. ASSUME NEW d \in Device, NEW left \in Snapshot, Restart(d, left)
       PROVE  TypeOK'
  <2>1. NewEngine(d) \in Engine /\ NewEngine(d).device = d
    BY DEF NewEngine, Engine, EmptyRecentSet
  <2>2. [snapshot |-> left, writer |-> None] \in Clip
    BY DEF Clip
  <2>3. Fingerprint(left) \in Fingerprints
    BY FingerprintType
  <2>4. link' \in [Device \X Device -> Seq(Item)]
    <3>1. PICK kept \in [Device -> 0..MaxItems] :
            /\ \A p \in Device : kept[p] <= Len(link[<<d, p>>])
            /\ link' = [path \in Device \X Device |->
                 IF path[2] = d THEN <<>>
                 ELSE IF path[1] = d THEN SubSeq(link[path], 1, kept[path[2]])
                 ELSE link[path]]
      BY <1>11 DEF Restart
    <3>2. ASSUME NEW p \in Device
          PROVE  SubSeq(link[<<d, p>>], 1, kept[p]) \in Seq(Item)
      <4>1. kept[p] \in Nat /\ kept[p] <= Len(link[<<d, p>>]) /\ link[<<d, p>>] \in Seq(Item)
        BY <3>1, BoundsAssumption DEF TypeOK
      <4> QED
        BY <4>1
    <3> QED
      BY <3>1, <3>2 DEF TypeOK
  <2> QED
    BY <1>11, <2>1, <2>2, <2>3, <2>4 DEF Restart, TypeOK
<1>12. ASSUME NEW a \in Device, NEW b \in Device, Disconnect(a, b)
       PROVE  TypeOK'
  <2>1. PICK there \in 0..Len(link[<<a, b>>]), back \in 0..Len(link[<<b, a>>]) :
          link' = [link EXCEPT ![<<a, b>>] = SubSeq(@, 1, there),
                               ![<<b, a>>] = SubSeq(@, 1, back)]
    BY <1>12 DEF Disconnect
  <2>2. \A q \in Seq(Item), n \in Nat : n <= Len(q) => SubSeq(q, 1, n) \in Seq(Item)
    OBVIOUS
  <2>3. link[<<a, b>>] \in Seq(Item) /\ link[<<b, a>>] \in Seq(Item)
    BY DEF TypeOK
  <2>4. /\ SubSeq(link[<<a, b>>], 1, there) \in Seq(Item)
        /\ SubSeq(link[<<b, a>>], 1, back) \in Seq(Item)
        /\ \A n \in 0..there : SubSeq(SubSeq(link[<<a, b>>], 1, there), 1, n) \in Seq(Item)
    BY <2>2, <2>3
  <2>5. link' \in [Device \X Device -> Seq(Item)]
    <3>1. CASE a # b
      BY <2>1, <2>4, <3>1 DEF TypeOK
    <3>2. a # b
      <4>1. {a, b} \in Pairs
        BY <1>12 DEF Disconnect, TypeOK
      <4>2. PICK x, y \in Device : x # y /\ {a, b} = {x, y}
        BY <4>1 DEF Pairs
      <4>3. x \in {a, b} /\ y \in {a, b}
        BY <4>2
      <4> QED
        BY <4>2, <4>3
    <3> QED
      BY <3>1, <3>2
  <2>6. connected' \subseteq Pairs /\ faults' \in Nat
    BY <1>12 DEF Disconnect, TypeOK
  <2> QED
    BY <1>12, <2>5, <2>6 DEF Disconnect, TypeOK, threadVars
<1>13. ASSUME NEW pair \in Pairs, Connect(pair)
       PROVE  TypeOK'
  BY <1>13 DEF Connect, TypeOK, threadVars
<1>14. CASE UNCHANGED vars
  BY <1>14 DEF vars, threadVars, TypeOK
<1> QED
  BY <1>1, <1>2, <1>3, <1>4, <1>5, <1>6, <1>7, <1>8, <1>9, <1>10, <1>11,
     <1>12, <1>13, <1>14 DEF Next

(* Every variable keeps its type, and the event thread has an item in hand *)
(* exactly while it waits for a write or takes one back.                   *)
THEOREM TypeCorrect == Spec => []TypeOK
<1> QED
  BY InitType, NextType, PTL DEF Spec

-----------------------------------------------------------------------------
(* EngineTracksDetector needs to know what is being reported: between the  *)
(* check and the engine's call the detector already stands at the content  *)
(* on its way.                                                             *)
ReportMatchesLast ==
  \A d \in Device : reporting[d] # None => last[d] = Identity[reporting[d].snapshot]

TrackingInv == TypeOK /\ ReportMatchesLast /\ EngineTracksDetector

LEMMA LocalChangeSetsHash ==
  ASSUME NEW e \in Engine, NEW content \in Content, NEW fresh \in Item,
         fresh.hash = Identity[content]
  PROVE  OnLocalChange(e, content, fresh).current.hash = Identity[content]
BY DEF OnLocalChange, IsEcho, CurrentOf, ContentHash, Engine

(* A remote item never changes the content the engine takes the clipboard  *)
(* to hold; at most it changes which item that content is.                 *)
LEMMA RemoteItemKeepsHash ==
  ASSUME NEW e \in Engine, NEW item \in Item,
         OnRemoteItem(e, item).current # None
  PROVE  e.current # None /\ OnRemoteItem(e, item).current.hash = e.current.hash
<1>1. CASE Verdict(e, item) = "AlreadyOnClipboard"
  <2>1. e.current # None /\ e.current.hash = item.hash
    BY <1>1 DEF Verdict
  <2>2. OnRemoteItem(e, item).current = CurrentOf(item)
    BY <1>1 DEF OnRemoteItem, Engine
  <2> QED
    BY <2>1, <2>2 DEF CurrentOf
<1>2. CASE Verdict(e, item) # "AlreadyOnClipboard"
  <2>1. Verdict(e, item) \in {"OwnItem", "Corrupt", "Duplicate", "Stale", "Write"}
    BY <1>2 DEF Verdict
  <2>2. OnRemoteItem(e, item).current = e.current
    BY <2>1 DEF OnRemoteItem, Engine
  <2> QED
    BY <2>2
<1> QED
  BY <1>1, <1>2

LEMMA TrackingStep == TrackingInv /\ [Next]_vars => TrackingInv'
<1> SUFFICES ASSUME TrackingInv, [Next]_vars
             PROVE  ReportMatchesLast' /\ EngineTracksDetector'
  BY NextType DEF TrackingInv
<1> USE DEF TrackingInv, ReportMatchesLast, EngineTracksDetector
<1>1. ASSUME UNCHANGED <<last, reporting>>,
             \A d \in Device : engine'[d].current = engine[d].current
      PROVE  ReportMatchesLast' /\ EngineTracksDetector'
  BY <1>1
<1>2. ASSUME NEW d \in Device, Check(d)
      PROVE  ReportMatchesLast' /\ EngineTracksDetector'
  <2>1. clip[d].snapshot \in Snapshot
    BY DEF TypeOK, Clip
  <2>2. /\ clip[d].snapshot \in Content => Fingerprint(clip[d].snapshot) = Identity[clip[d].snapshot]
        /\ clip[d].snapshot \notin Content => Fingerprint(clip[d].snapshot) \notin Content
    BY <2>1, FingerprintType
  <2>3. reporting[d] = None
    BY <1>2 DEF Check, ClipboardThreadIdle
  <2>4. Identity[clip[d].snapshot] # None \/ clip[d].snapshot \notin Content
    BY IdentityAssumption, SnapshotAssumption
  <2>5. ReportMatchesLast'
    BY <1>2, <2>2 DEF Check, TypeOK
  <2>6. ASSUME reporting'[d] = None, engine[d].current # None, last'[d] \in Content
        PROVE  last'[d] = last[d]
    <3>1. clip[d].snapshot \in Content
      BY <1>2, <2>2, <2>6 DEF Check, TypeOK
    <3>2. clip[d] # None
      BY NoClipAssumption DEF TypeOK
    <3> QED
      BY <1>2, <2>2, <2>4, <2>6, <3>1, <3>2 DEF Check, TypeOK, IsChange
  <2>7. EngineTracksDetector'
    BY <1>2, <2>3, <2>6 DEF Check, TypeOK
  <2> QED
    BY <2>5, <2>7
<1>3. ASSUME NEW d \in Device, ReportChange(d)
      PROVE  ReportMatchesLast' /\ EngineTracksDetector'
  <2> DEFINE content == reporting[d].snapshot
             item    == FreshItem(d, content)
  <2>1. content \in Content /\ last[d] = Identity[content] /\ engine[d] \in Engine
    BY <1>3 DEF ReportChange, TypeOK
  <2>2. item \in Item /\ item.hash = Identity[content]
    BY <2>1, FreshItemType
  <2> HIDE DEF item
  <2>3. OnLocalChange(engine[d], content, item).current.hash = Identity[content]
    BY <2>1, <2>2, LocalChangeSetsHash
  <2>4. engine' = [engine EXCEPT ![d] = OnLocalChange(engine[d], content, item)]
    BY <1>3 DEF ReportChange, item
  <2>5. engine'[d].current.hash = last'[d]
    BY <1>3, <2>1, <2>3, <2>4 DEF ReportChange, TypeOK
  <2>6. \A e \in Device \ {d} : engine'[e] = engine[e] /\ reporting'[e] = reporting[e] /\ last'[e] = last[e]
    BY <1>3, <2>4 DEF ReportChange, TypeOK
  <2>7. reporting'[d] = None
    BY <1>3 DEF ReportChange, TypeOK
  <2> QED
    BY <2>5, <2>6, <2>7
<1>4. ASSUME NEW d \in Device, NEW s \in Device, ReceiveItem(s, d)
      PROVE  ReportMatchesLast' /\ EngineTracksDetector'
  <2> DEFINE item == Head(link[<<s, d>>])
  <2>1. item \in Item /\ engine[d] \in Engine
    BY <1>4 DEF ReceiveItem, TypeOK
  <2>2. engine' = [engine EXCEPT ![d] = OnRemoteItem(engine[d], item)]
    BY <1>4 DEF ReceiveItem
  <2> HIDE DEF item
  <2>3. engine'[d] = OnRemoteItem(engine[d], item)
    BY <2>2 DEF TypeOK
  <2>4. engine'[d].current # None =>
          engine[d].current # None /\ engine'[d].current.hash = engine[d].current.hash
    BY <2>1, <2>3, RemoteItemKeepsHash
  <2>5. \A e \in Device \ {d} : engine'[e] = engine[e]
    BY <2>2 DEF TypeOK
  <2>6. UNCHANGED <<last, reporting>>
    BY <1>4 DEF ReceiveItem
  <2> QED
    BY <2>4, <2>5, <2>6
<1>5. ASSUME NEW d \in Device, AbandonWrite(d)
      PROVE  ReportMatchesLast' /\ EngineTracksDetector'
  <2>1. \A e \in Device : engine'[e].current = engine[e].current
    BY <1>5 DEF AbandonWrite, OnWriteFailed, TypeOK, Engine
  <2> QED
    BY <1>5, <2>1, <1>1 DEF AbandonWrite
<1>6. ASSUME NEW d \in Device, NEW left \in Snapshot, Restart(d, left)
      PROVE  ReportMatchesLast' /\ EngineTracksDetector'
  <2>1. engine'[d].current = None /\ reporting'[d] = None
    BY <1>6 DEF Restart, NewEngine, TypeOK
  <2>2. \A e \in Device \ {d} : engine'[e] = engine[e] /\ reporting'[e] = reporting[e] /\ last'[e] = last[e]
    BY <1>6 DEF Restart, TypeOK
  <2> QED
    BY <2>1, <2>2
<1>7. CASE Tick
  BY <1>1, <1>7 DEF Tick, threadVars
<1>8. ASSUME NEW d \in Device, NEW snapshot \in Snapshot, UserCopy(d, snapshot)
      PROVE  ReportMatchesLast' /\ EngineTracksDetector'
  BY <1>1, <1>8 DEF UserCopy, threadVars
<1>9. ASSUME NEW d \in Device,
             Broadcast(d) \/ WriteClipboard(d) \/ WriteFails(d)
      PROVE  ReportMatchesLast' /\ EngineTracksDetector'
  BY <1>1, <1>9 DEF Broadcast, WriteClipboard, WriteFails
<1>10. ASSUME NEW d \in Device, NEW item \in outbox[d], SendToAll(d, item)
       PROVE  ReportMatchesLast' /\ EngineTracksDetector'
  BY <1>1, <1>10 DEF SendToAll, threadVars
<1>11. ASSUME NEW a \in Device, NEW b \in Device, Disconnect(a, b)
       PROVE  ReportMatchesLast' /\ EngineTracksDetector'
  BY <1>1, <1>11 DEF Disconnect, threadVars
<1>12. ASSUME NEW pair \in Pairs, Connect(pair)
       PROVE  ReportMatchesLast' /\ EngineTracksDetector'
  BY <1>1, <1>12 DEF Connect, threadVars
<1>13. CASE UNCHANGED vars
  BY <1>1, <1>13 DEF vars, threadVars
<1> QED
  BY <1>2, <1>3, <1>4, <1>5, <1>6, <1>7, <1>8, <1>9, <1>10, <1>11, <1>12,
     <1>13 DEF Next

LEMMA TrackingInit == Init => TrackingInv
BY InitType DEF TrackingInv, Init, ReportMatchesLast, EngineTracksDetector, NewEngine

(* Under any timing, any failures and any restarts, the engine judges what *)
(* arrives against the content its clipboard thread last saw.              *)
THEOREM EngineAlwaysTracksDetector == Spec => []EngineTracksDetector
<1>1. TrackingInv => EngineTracksDetector
  BY DEF TrackingInv
<1> QED
  BY <1>1, TrackingInit, TrackingStep, PTL DEF Spec

-----------------------------------------------------------------------------
(* NoFeedback holds whenever every clipboard change is checked before the  *)
(* device's next copy or received item.  Then at most one change of a      *)
(* clipboard is on its way to the engine.  If Cled made it, the engine is  *)
(* still expecting its echo; if the user made it, the copy it will become  *)
(* is not counted in created yet.                                          *)

EchoExpected(d, change) ==
  /\ engine[d].pending # None
  /\ change.snapshot \in Content => engine[d].pending.hash = Identity[change.snapshot]

CopyUnderway(d) ==
  \/ unchecked[d] /\ clip[d].writer = None /\ clip[d].snapshot \in Content
  \/ reporting[d] # None /\ reporting[d].writer = None

WriteUnderway(d) ==
  /\ ClipboardThreadIdle(d)
  /\ ~unchecked[d]
  /\ engine[d].pending = applying[d]
  /\ applying[d].hash = Identity[applying[d].content]

PromptInvOf(d) ==
  /\ eventPc[d] # "idle" => WriteUnderway(d)
  /\ unchecked[d] => ClipboardThreadIdle(d)
  /\ ~unchecked[d] => last[d] = Fingerprint(clip[d].snapshot)
  /\ (unchecked[d] /\ clip[d].writer # None) => EchoExpected(d, clip[d])
  /\ (reporting[d] # None /\ reporting[d].writer # None) => EchoExpected(d, reporting[d])
  /\ created[d] <= copied[d]
  /\ CopyUnderway(d) => created[d] < copied[d]

PromptInv == TypeOK /\ \A d \in Device : PromptInvOf(d)

(* What PromptInvOf(e) depends on.                                         *)
StateOf(e) ==
  <<eventPc[e], sending[e], reporting[e], unchecked[e], engine[e].pending,
    applying[e], last[e], clip[e], created[e], copied[e]>>

LEMMA PromptFrame ==
  ASSUME NEW e \in Device, PromptInvOf(e), StateOf(e)' = StateOf(e)
  PROVE  PromptInvOf(e)'
BY DEF PromptInvOf, StateOf, WriteUnderway, CopyUnderway, EchoExpected,
       ClipboardThreadIdle

LEMMA PromptStep ==
  ASSUME PromptWatcher
  PROVE  PromptInv /\ [Next]_vars => PromptInv'
<1> SUFFICES ASSUME PromptInv, [Next]_vars
             PROVE  \A e \in Device : PromptInvOf(e)'
  BY NextType DEF PromptInv
<1> USE DEF PromptInv
<1>1. ASSUME NEW d \in Device, PromptInvOf(d)',
             \A e \in Device \ {d} : StateOf(e)' = StateOf(e)
      PROVE  \A e \in Device : PromptInvOf(e)'
  BY <1>1, PromptFrame
<1>2. ASSUME \A e \in Device : StateOf(e)' = StateOf(e)
      PROVE  \A e \in Device : PromptInvOf(e)'
  BY <1>2, PromptFrame
<1>3. CASE Tick
  BY <1>2, <1>3 DEF Tick, threadVars, StateOf
<1>4. ASSUME NEW d \in Device, NEW snapshot \in Snapshot, UserCopy(d, snapshot)
      PROVE  \A e \in Device : PromptInvOf(e)'
  <2>1. /\ reporting[d] = None /\ sending[d] = None /\ eventPc[d] = "idle"
        /\ created[d] \in Nat /\ copied[d] \in Nat /\ created[d] <= copied[d]
    BY <1>4 DEF UserCopy, Settled, ClipboardThreadIdle, TypeOK, PromptInvOf
  <2>2. /\ clip'[d] = [snapshot |-> snapshot, writer |-> None]
        /\ unchecked'[d] = TRUE
        /\ copied'[d] = IF snapshot \in Content THEN copied[d] + 1 ELSE copied[d]
        /\ UNCHANGED <<threadVars, created>>
    BY <1>4 DEF UserCopy, TypeOK
  <2>3. PromptInvOf(d)'
    BY <2>1, <2>2 DEF PromptInvOf, CopyUnderway, ClipboardThreadIdle, threadVars
  <2>4. \A e \in Device \ {d} : StateOf(e)' = StateOf(e)
    BY <1>4 DEF UserCopy, StateOf, threadVars, TypeOK
  <2> QED
    BY <1>1, <2>3, <2>4
<1>5. ASSUME NEW d \in Device, Check(d)
      PROVE  \A e \in Device : PromptInvOf(e)'
  <2>1. /\ unchecked'[d] = FALSE
        /\ last'[d] = Fingerprint(clip[d].snapshot)
        /\ reporting'[d] = IF IsChange(last[d], clip[d].snapshot) /\ clip[d].snapshot \in Content
                           THEN clip[d] ELSE None
        /\ reporting[d] = None /\ sending[d] = None
        /\ UNCHANGED <<clip, sending, engine, eventPc, applying, created, copied>>
    BY <1>5 DEF Check, TypeOK, ClipboardThreadIdle
  <2>2. ~unchecked[d] => reporting'[d] = None
    BY <2>1 DEF PromptInvOf, IsChange
  <2>3. reporting'[d] # None =>
          reporting'[d] = clip[d] /\ clip[d].snapshot \in Content /\ unchecked[d]
    BY <2>1, <2>2 DEF TypeOK
  <2>4. eventPc'[d] # "idle" => WriteUnderway(d)'
    BY <2>1, <2>2 DEF PromptInvOf, WriteUnderway, ClipboardThreadIdle
  <2>5. (reporting'[d] # None /\ reporting'[d].writer # None) => EchoExpected(d, reporting[d])'
    BY <2>1, <2>3 DEF PromptInvOf, EchoExpected
  <2>6. CopyUnderway(d)' => CopyUnderway(d)
    BY <2>1, <2>3 DEF CopyUnderway
  <2>7. PromptInvOf(d)'
    BY <2>1, <2>4, <2>5, <2>6 DEF PromptInvOf
  <2>8. \A e \in Device \ {d} : StateOf(e)' = StateOf(e)
    BY <1>5 DEF Check, StateOf, TypeOK
  <2> QED
    BY <1>1, <2>7, <2>8
<1>6. ASSUME NEW d \in Device, ReportChange(d)
      PROVE  \A e \in Device : PromptInvOf(e)'
  <2> DEFINE content == reporting[d].snapshot
             item    == FreshItem(d, content)
             copy    == ~IsEcho(engine[d], content)
  <2>1. /\ reporting[d] # None /\ content \in Content /\ reporting'[d] = None
        /\ created'[d] = IF copy THEN created[d] + 1 ELSE created[d]
        /\ created[d] \in Nat /\ copied[d] \in Nat
        /\ UNCHANGED <<clip, unchecked, last, eventPc, applying, copied>>
    BY <1>6 DEF ReportChange, TypeOK
  <2>2. ~unchecked[d] /\ eventPc[d] = "idle"
    BY <2>1 DEF PromptInvOf, WriteUnderway, ClipboardThreadIdle
  <2>3. copy => created[d] < copied[d]
    <3>1. CASE reporting[d].writer = None
      BY <2>1, <3>1 DEF PromptInvOf, CopyUnderway
    <3>2. CASE reporting[d].writer # None
      BY <2>1, <3>2 DEF PromptInvOf, EchoExpected, IsEcho, ContentHash
    <3> QED
      BY <3>1, <3>2
  <2> HIDE DEF copy, content
  <2>4. created'[d] <= copied'[d]
    BY <2>1, <2>3 DEF PromptInvOf
  <2>5. ~CopyUnderway(d)'
    BY <2>1, <2>2 DEF CopyUnderway
  <2>6. PromptInvOf(d)'
    BY <2>1, <2>2, <2>4, <2>5 DEF PromptInvOf
  <2>7. \A e \in Device \ {d} : StateOf(e)' = StateOf(e)
    BY <1>6 DEF ReportChange, StateOf, TypeOK
  <2> QED
    BY <1>1, <2>6, <2>7
<1>7. ASSUME NEW d \in Device, Broadcast(d)
      PROVE  \A e \in Device : PromptInvOf(e)'
  <2>1. /\ sending'[d] = None
        /\ UNCHANGED <<clip, unchecked, last, reporting, engine, eventPc, applying, copied, created>>
    BY <1>7 DEF Broadcast, TypeOK
  <2>2. PromptInvOf(d)'
    BY <2>1 DEF PromptInvOf, WriteUnderway, CopyUnderway, EchoExpected, ClipboardThreadIdle
  <2>3. \A e \in Device \ {d} : StateOf(e)' = StateOf(e)
    BY <1>7 DEF Broadcast, StateOf, TypeOK
  <2> QED
    BY <1>1, <2>2, <2>3
<1>8. ASSUME NEW d \in Device, NEW item \in outbox[d], SendToAll(d, item)
      PROVE  \A e \in Device : PromptInvOf(e)'
  BY <1>2, <1>8 DEF SendToAll, threadVars, StateOf
<1>9. ASSUME NEW d \in Device, NEW s \in Device, ReceiveItem(s, d)
      PROVE  \A e \in Device : PromptInvOf(e)'
  <2> DEFINE item  == Head(link[<<s, d>>])
             apply == Verdict(engine[d], item) = "Write"
  <2>1. /\ eventPc[d] = "idle" /\ Settled(d)
        /\ engine'[d] = OnRemoteItem(engine[d], item)
        /\ eventPc'[d] = IF apply THEN "writing" ELSE "idle"
        /\ applying'[d] = IF apply THEN item ELSE None
        /\ UNCHANGED <<clip, unchecked, last, reporting, sending, copied, created>>
    BY <1>9 DEF ReceiveItem, TypeOK
  <2>2. item \in Item /\ engine[d] \in Engine
    BY <1>9 DEF ReceiveItem, TypeOK
  <2> HIDE DEF item
  <2>3. apply => item.hash = Identity[item.content]
    BY DEF Verdict, IsIntact, ContentHash
  <2>4. apply => engine'[d].pending = item
    BY <2>1, <2>2 DEF OnRemoteItem, Engine
  <2>5. ~unchecked[d] /\ ClipboardThreadIdle(d)
    BY <2>1 DEF Settled
  <2>6. eventPc'[d] # "idle" => WriteUnderway(d)'
    BY <2>1, <2>3, <2>4, <2>5 DEF WriteUnderway, ClipboardThreadIdle
  <2>7. PromptInvOf(d)'
    BY <2>1, <2>5, <2>6 DEF PromptInvOf, CopyUnderway, ClipboardThreadIdle
  <2>8. \A e \in Device \ {d} : StateOf(e)' = StateOf(e)
    BY <1>9 DEF ReceiveItem, StateOf, TypeOK
  <2> QED
    BY <1>1, <2>7, <2>8
<1>10. ASSUME NEW d \in Device, WriteClipboard(d)
       PROVE  \A e \in Device : PromptInvOf(e)'
  <2>1. WriteUnderway(d) /\ applying[d] \in Item
    BY <1>10 DEF WriteClipboard, PromptInvOf, TypeOK
  <2>2. /\ clip'[d] = [snapshot |-> applying[d].content, writer |-> applying[d]]
        /\ unchecked'[d] = TRUE /\ eventPc'[d] = "idle"
        /\ UNCHANGED <<last, reporting, sending, engine, created, copied>>
    BY <1>10 DEF WriteClipboard, TypeOK
  <2>3. EchoExpected(d, clip[d])' /\ clip'[d].writer # None
    BY <2>1, <2>2, NoneAssumption DEF EchoExpected, WriteUnderway
  <2>4. ~CopyUnderway(d)'
    BY <2>1, <2>2, <2>3 DEF CopyUnderway, WriteUnderway, ClipboardThreadIdle
  <2>5. PromptInvOf(d)'
    BY <2>1, <2>2, <2>3, <2>4 DEF PromptInvOf, WriteUnderway, ClipboardThreadIdle
  <2>6. \A e \in Device \ {d} : StateOf(e)' = StateOf(e)
    BY <1>10 DEF WriteClipboard, StateOf, TypeOK
  <2> QED
    BY <1>1, <2>5, <2>6
<1>11. ASSUME NEW d \in Device, WriteFails(d)
       PROVE  \A e \in Device : PromptInvOf(e)'
  <2>1. /\ eventPc[d] = "writing"
        /\ UNCHANGED <<clip, unchecked, last, reporting, sending, engine, applying, copied, created>>
    BY <1>11 DEF WriteFails, TypeOK
  <2>2. PromptInvOf(d)'
    BY <2>1 DEF PromptInvOf, WriteUnderway, CopyUnderway, EchoExpected, ClipboardThreadIdle
  <2>3. \A e \in Device \ {d} : StateOf(e)' = StateOf(e)
    BY <1>11 DEF WriteFails, StateOf, TypeOK
  <2> QED
    BY <1>1, <2>2, <2>3
<1>12. ASSUME NEW d \in Device, AbandonWrite(d)
       PROVE  \A e \in Device : PromptInvOf(e)'
  <2>1. /\ eventPc[d] = "failed" /\ eventPc'[d] = "idle"
        /\ UNCHANGED <<clip, unchecked, last, reporting, sending, copied, created>>
    BY <1>12 DEF AbandonWrite, TypeOK
  <2>2. ~unchecked[d] /\ ClipboardThreadIdle(d)
    BY <2>1 DEF PromptInvOf, WriteUnderway
  <2>3. PromptInvOf(d)'
    BY <2>1, <2>2 DEF PromptInvOf, CopyUnderway, ClipboardThreadIdle
  <2>4. \A e \in Device \ {d} : StateOf(e)' = StateOf(e)
    BY <1>12 DEF AbandonWrite, StateOf, TypeOK
  <2> QED
    BY <1>1, <2>3, <2>4
<1>13. ASSUME NEW d \in Device, NEW left \in Snapshot, Restart(d, left)
       PROVE  \A e \in Device : PromptInvOf(e)'
  <2>1. /\ unchecked'[d] = FALSE /\ clip'[d].snapshot = left
        /\ last'[d] = Fingerprint(left)
        /\ reporting'[d] = None /\ eventPc'[d] = "idle"
        /\ UNCHANGED <<copied, created>>
    BY <1>13 DEF Restart, TypeOK
  <2>2. PromptInvOf(d)'
    BY <2>1 DEF PromptInvOf, CopyUnderway, ClipboardThreadIdle
  <2>3. \A e \in Device \ {d} : StateOf(e)' = StateOf(e)
    BY <1>13 DEF Restart, StateOf, TypeOK
  <2> QED
    BY <1>1, <2>2, <2>3
<1>14. ASSUME NEW a \in Device, NEW b \in Device, Disconnect(a, b)
       PROVE  \A e \in Device : PromptInvOf(e)'
  BY <1>2, <1>14 DEF Disconnect, threadVars, StateOf
<1>15. ASSUME NEW pair \in Pairs, Connect(pair)
       PROVE  \A e \in Device : PromptInvOf(e)'
  BY <1>2, <1>15 DEF Connect, threadVars, StateOf
<1>16. CASE UNCHANGED vars
  BY <1>2, <1>16 DEF vars, threadVars, StateOf
<1> QED
  BY <1>3, <1>4, <1>5, <1>6, <1>7, <1>8, <1>9, <1>10, <1>11, <1>12, <1>13,
     <1>14, <1>15, <1>16 DEF Next

LEMMA PromptInit == Init => PromptInv
<1> SUFFICES ASSUME Init, NEW d \in Device
             PROVE  PromptInvOf(d)
  BY InitType DEF PromptInv
<1> QED
  BY DEF Init, PromptInvOf, CopyUnderway

(* If every clipboard change is checked before the device's next copy or   *)
(* received item, no received item ever goes out again as a new one: for   *)
(* any number of devices, with write failures, lost connections, restarts  *)
(* and clocks that disagree.                                               *)
THEOREM PromptWatcherPreventsFeedback ==
  ASSUME PromptWatcher
  PROVE  Spec => []NoFeedback
<1>1. PromptInv /\ [Next]_vars => PromptInv'
  BY PromptStep
<1>2. PromptInv => NoFeedback
  BY DEF PromptInv, PromptInvOf, NoFeedback
<1> QED
  BY <1>1, <1>2, PromptInit, PTL DEF Spec
-----------------------------------------------------------------------------
(* SeenIsRecentIds holds step by step: the set of members and the queue    *)
(* are changed together, and an ID enters the queue only when it is not a  *)
(* member.                                                                 *)

QueuedIn(order) == {order[i] : i \in 1..Len(order)}

NoIdTwice(order) == \A i, j \in 1..Len(order) : order[i] = order[j] => i = j

LEMMA RecentSetParts ==
  ASSUME NEW recent
  PROVE  RecentSetOK(recent) <=>
           /\ recent.members = QueuedIn(recent.order)
           /\ NoIdTwice(recent.order)
           /\ Len(recent.order) <= RecentItems
BY DEF RecentSetOK, QueuedIn, NoIdTwice

LEMMA RememberKeepsRecentSet ==
  ASSUME NEW recent \in [order: Seq(Nat), members: SUBSET Nat], NEW id \in Nat,
         RecentSetOK(recent)
  PROVE  RecentSetOK(Remember(recent, id))
<1> DEFINE old   == recent.order
           order == Append(old, id)
<1>1. old \in Seq(Nat) /\ Len(old) \in Nat /\ Len(old) <= RecentItems
  BY RecentSetParts
<1>2. recent.members = QueuedIn(old) /\ NoIdTwice(old)
  BY RecentSetParts
<1>3. CASE id \in recent.members
  BY <1>3 DEF Remember
<1>4. CASE id \notin recent.members
  <2>1. /\ order \in Seq(Nat) /\ Len(order) = Len(old) + 1
        /\ order[Len(old) + 1] = id
        /\ \A i \in 1..Len(old) : order[i] = old[i]
    BY <1>1
  <2>2. \A i \in 1..Len(old) : old[i] # id
    BY <1>2, <1>4 DEF QueuedIn
  <2> HIDE DEF order
  <2>3. NoIdTwice(order)
    <3> SUFFICES ASSUME NEW i \in 1..Len(order), NEW j \in 1..Len(order),
                        order[i] = order[j]
                 PROVE  i = j
      BY DEF NoIdTwice
    <3>1. \A k \in 1..Len(order) : k \in 1..Len(old) \/ k = Len(old) + 1
      BY <1>1, <2>1
    <3>2. CASE i \in 1..Len(old) /\ j \in 1..Len(old)
      BY <1>2, <2>1, <3>2 DEF NoIdTwice
    <3>3. CASE i \in 1..Len(old) /\ j = Len(old) + 1
      BY <2>1, <2>2, <3>3
    <3>4. CASE i = Len(old) + 1 /\ j \in 1..Len(old)
      BY <2>1, <2>2, <3>4
    <3> QED
      BY <3>1, <3>2, <3>3, <3>4
  <2>4. recent.members \cup {id} = QueuedIn(order)
    <3>1. 1..Len(order) = 1..Len(old) \cup {Len(old) + 1}
      BY <1>1, <2>1
    <3>2. ASSUME NEW x \in recent.members \cup {id}
          PROVE  \E i \in 1..Len(order) : x = order[i]
      BY <1>2, <2>1, <3>1 DEF QueuedIn
    <3>3. ASSUME NEW i \in 1..Len(order)
          PROVE  order[i] \in recent.members \cup {id}
      BY <1>2, <2>1, <3>1 DEF QueuedIn
    <3> QED
      BY <3>2, <3>3 DEF QueuedIn
  <2>5. CASE Len(order) <= RecentItems
    <3>1. Remember(recent, id) = [order |-> order, members |-> recent.members \cup {id}]
      BY <1>1, <1>4, <2>1, <2>5, RecentItemsAssumption DEF Remember, order
    <3>2. /\ Remember(recent, id).order = order
          /\ Remember(recent, id).members = recent.members \cup {id}
      BY <3>1
    <3> QED
      BY <2>3, <2>4, <2>5, <3>2, RecentSetParts
  <2>6. CASE Len(order) > RecentItems
    <3> DEFINE rest == Tail(order)
    <3>1. Remember(recent, id) =
            [order |-> rest, members |-> (recent.members \cup {id}) \ {Head(order)}]
      BY <1>4, <2>6 DEF Remember, order
    <3>2. Len(order) \in Nat /\ Len(order) >= 1 /\ Len(order) - 1 <= RecentItems
      BY <1>1, <2>1, RecentItemsAssumption
    <3>3. /\ Head(order) = order[1] /\ rest \in Seq(Nat) /\ Len(rest) = Len(order) - 1
          /\ \A i \in 1..Len(rest) : rest[i] = order[i + 1] /\ i + 1 \in 2..Len(order)
      BY <2>1, <3>2
    <3> HIDE DEF rest
    <3>4. NoIdTwice(rest)
      <4> SUFFICES ASSUME NEW i \in 1..Len(rest), NEW j \in 1..Len(rest),
                          rest[i] = rest[j]
                   PROVE  i = j
        BY DEF NoIdTwice
      <4>1. i + 1 \in 1..Len(order) /\ j + 1 \in 1..Len(order)
        BY <3>2, <3>3
      <4>2. i + 1 = j + 1
        BY <2>3, <3>3, <4>1 DEF NoIdTwice
      <4> QED
        BY <4>2
    <3>5. QueuedIn(rest) = {order[k] : k \in 2..Len(order)}
      <4>1. \A k \in 2..Len(order) : k - 1 \in 1..Len(rest) /\ rest[k - 1] = order[k]
        BY <3>2, <3>3
      <4> QED
        BY <3>3, <4>1 DEF QueuedIn
    <3>6. {order[k] : k \in 2..Len(order)} = QueuedIn(order) \ {order[1]}
      <4>1. 1..Len(order) = {1} \cup 2..Len(order) /\ 1 \notin 2..Len(order)
        BY <3>2
      <4>2. \A k \in 2..Len(order) : order[k] # order[1]
        BY <2>3, <4>1 DEF NoIdTwice
      <4> QED
        BY <4>1, <4>2 DEF QueuedIn
    <3>7. Len(rest) <= RecentItems
      BY <3>2, <3>3
    <3>8. /\ Remember(recent, id).order = rest
          /\ Remember(recent, id).members = (recent.members \cup {id}) \ {Head(order)}
      BY <3>1
    <3>9. Remember(recent, id).members = QueuedIn(rest)
      BY <2>4, <3>3, <3>5, <3>6, <3>8
    <3> QED
      BY <3>4, <3>7, <3>8, <3>9, RecentSetParts
  <2>7. Len(order) \in Nat /\ RecentItems \in Nat
    BY <1>1, <2>1, RecentItemsAssumption
  <2> QED
    BY <2>5, <2>6, <2>7
<1> QED
  BY <1>3, <1>4

(* Whatever an engine is asked, it remembers as it should.                 *)
LEMMA NewEngineRecentSet ==
  ASSUME NEW d \in Device
  PROVE  RecentSetOK(NewEngine(d).seen)
<1>1. NewEngine(d).seen.order = <<>> /\ NewEngine(d).seen.members = {}
  BY DEF NewEngine, EmptyRecentSet
<1>2. Len(<<>>) = 0 /\ 1..0 = {} /\ 0 <= RecentItems
  BY RecentItemsAssumption
<1> QED
  BY <1>1, <1>2 DEF RecentSetOK

LEMMA OnLocalChangeRecentSet ==
  ASSUME NEW e \in Engine, NEW content \in Content, NEW fresh \in Item,
         RecentSetOK(e.seen)
  PROVE  RecentSetOK(OnLocalChange(e, content, fresh).seen)
<1>1. RecentSetOK(Remember(e.seen, fresh.id))
  BY RememberKeepsRecentSet DEF Engine, Item
<1>2. OnLocalChange(e, content, fresh).seen \in {e.seen, Remember(e.seen, fresh.id)}
  BY DEF OnLocalChange, Engine
<1> QED
  BY <1>1, <1>2

LEMMA OnRemoteItemRecentSet ==
  ASSUME NEW e \in Engine, NEW item \in Item, RecentSetOK(e.seen)
  PROVE  RecentSetOK(OnRemoteItem(e, item).seen)
<1>1. RecentSetOK(Remember(e.seen, item.id))
  BY RememberKeepsRecentSet DEF Engine, Item
<1>2. Verdict(e, item) \in {"OwnItem", "Corrupt", "Duplicate", "Stale", "AlreadyOnClipboard", "Write"}
  BY DEF Verdict
<1>3. OnRemoteItem(e, item).seen \in {e.seen, Remember(e.seen, item.id)}
  BY <1>2 DEF OnRemoteItem, Engine
<1> QED
  BY <1>1, <1>3

(* What a step may do to an engine, and to which one.                      *)
LEMMA EngineSteps ==
  ASSUME TypeOK, [Next]_vars, NEW d \in Device
  PROVE  \/ engine'[d].seen = engine[d].seen
         \/ \E content \in Content, fresh \in Item :
              engine'[d] = OnLocalChange(engine[d], content, fresh)
         \/ \E item \in Item : engine'[d] = OnRemoteItem(engine[d], item)
         \/ engine'[d] = NewEngine(d)
<1> DEFINE Goal ==
      \/ engine'[d].seen = engine[d].seen
      \/ \E content \in Content, fresh \in Item :
           engine'[d] = OnLocalChange(engine[d], content, fresh)
      \/ \E item \in Item : engine'[d] = OnRemoteItem(engine[d], item)
      \/ engine'[d] = NewEngine(d)
<1>1. CASE UNCHANGED engine
  BY <1>1
<1>2. ASSUME NEW e \in Device, ReportChange(e)
      PROVE  Goal
  <2>1. reporting[e].snapshot \in Content
    BY <1>2 DEF ReportChange, TypeOK
  <2>2. FreshItem(e, reporting[e].snapshot) \in Item
    BY <2>1, FreshItemType
  <2>3. engine' = [engine EXCEPT ![e] =
          OnLocalChange(engine[e], reporting[e].snapshot, FreshItem(e, reporting[e].snapshot))]
    BY <1>2 DEF ReportChange
  <2>4. CASE e = d
    BY <2>1, <2>2, <2>3, <2>4 DEF TypeOK
  <2>5. CASE e # d
    BY <2>3, <2>5 DEF TypeOK
  <2> QED
    BY <2>4, <2>5
<1>3. ASSUME NEW e \in Device, NEW s \in Device, ReceiveItem(s, e)
      PROVE  Goal
  <2>1. Head(link[<<s, e>>]) \in Item
    BY <1>3 DEF ReceiveItem, TypeOK
  <2>2. engine' = [engine EXCEPT ![e] = OnRemoteItem(engine[e], Head(link[<<s, e>>]))]
    BY <1>3 DEF ReceiveItem
  <2>3. CASE e = d
    BY <2>1, <2>2, <2>3 DEF TypeOK
  <2>4. CASE e # d
    BY <2>2, <2>4 DEF TypeOK
  <2> QED
    BY <2>3, <2>4
<1>4. ASSUME NEW e \in Device, AbandonWrite(e)
      PROVE  Goal
  <2>1. engine' = [engine EXCEPT ![e] = OnWriteFailed(engine[e])]
    BY <1>4 DEF AbandonWrite
  <2>2. OnWriteFailed(engine[e]).seen = engine[e].seen
    BY DEF OnWriteFailed, TypeOK, Engine
  <2> QED
    BY <2>1, <2>2 DEF TypeOK
<1>5. ASSUME NEW e \in Device, NEW left \in Snapshot, Restart(e, left)
      PROVE  Goal
  <2>1. engine' = [engine EXCEPT ![e] = NewEngine(e)]
    BY <1>5 DEF Restart
  <2> QED
    BY <2>1 DEF TypeOK
<1>6. UNCHANGED engine \/ \E e \in Device :
        \/ ReportChange(e) \/ AbandonWrite(e)
        \/ \E s \in Device : ReceiveItem(s, e)
        \/ \E left \in Snapshot : Restart(e, left)
  BY DEF Next, vars, threadVars, Tick, UserCopy, Check, Broadcast, SendToAll,
         WriteClipboard, WriteFails, Disconnect, Connect
<1> QED
  BY <1>1, <1>2, <1>3, <1>4, <1>5, <1>6

(* Under any timing, any failures and any restarts, the IDs an engine      *)
(* remembers are those of its queue, each once and never more than it may  *)
(* hold: no ID stays behind as a member after it is evicted, and none is   *)
(* evicted early because it was queued twice.                              *)
THEOREM SeenStaysRecent == Spec => []SeenIsRecentIds
<1> DEFINE Inv == TypeOK /\ SeenIsRecentIds
<1>1. Init => Inv
  BY InitType, NewEngineRecentSet DEF Init, SeenIsRecentIds
<1>2. Inv /\ [Next]_vars => Inv'
  <2> SUFFICES ASSUME Inv, [Next]_vars, NEW d \in Device
               PROVE  RecentSetOK(engine'[d].seen)
    BY NextType DEF SeenIsRecentIds, RecentSetOK
  <2>1. engine[d] \in Engine /\ RecentSetOK(engine[d].seen)
    BY DEF TypeOK, SeenIsRecentIds
  <2> QED
    BY <2>1, EngineSteps, OnLocalChangeRecentSet, OnRemoteItemRecentSet,
       NewEngineRecentSet
<1>3. Inv => SeenIsRecentIds
  OBVIOUS
<1> QED
  BY <1>1, <1>2, <1>3, PTL DEF Spec
-----------------------------------------------------------------------------
(* NewestWins and GenuineCopyIsSent need more than the timing of           *)
(* PromptWatcher: the first clipboard content the program sees must be a   *)
(* change to it.  Then every write of Cled's is noticed by the detector,   *)
(* the engine knows the item on the clipboard once no check is due, and it *)
(* expects no echo but that of the write it is waiting for.                *)

Underway(d) == unchecked[d] \/ reporting[d] # None

WriterKnown(d) ==
  clip[d].writer # None =>
    IF Underway(d)
    THEN engine[d].pending = clip[d].writer
    ELSE engine[d].current # None /\ ~IsNewerThan(clip[d].writer, engine[d].current)

WriteWillShow(d) ==
  (clip[d].writer # None /\ unchecked[d]) =>
    /\ clip[d].snapshot = clip[d].writer.content
    /\ last[d] # Fingerprint(clip[d].snapshot)

WriteIsNewer(d) ==
  eventPc[d] # "idle" =>
    /\ last[d] # Identity[applying[d].content]
    /\ clip[d].writer # None => ~IsNewerThan(clip[d].writer, applying[d])

NoEchoDue(d) ==
  (eventPc[d] = "idle" /\ (clip[d].writer = None \/ ~Underway(d)))
    => engine[d].pending = None

OrderInvOf(d) ==
  /\ reporting[d] # None => ~unchecked[d] /\ reporting[d] = clip[d]
  /\ (reporting[d] = None /\ engine[d].current = None) => last[d] \notin Content
  /\ WriterKnown(d)
  /\ WriteWillShow(d)
  /\ WriteIsNewer(d)
  /\ NoEchoDue(d)

OrderInv == PromptInv /\ TrackingInv /\ \A d \in Device : OrderInvOf(d)

(* What OrderInvOf(e) depends on.                                          *)
OrderStateOf(e) == <<StateOf(e), engine[e].current>>

LEMMA OrderFrame ==
  ASSUME NEW e \in Device, OrderInvOf(e), OrderStateOf(e)' = OrderStateOf(e)
  PROVE  OrderInvOf(e)'
BY DEF OrderInvOf, OrderStateOf, StateOf, Underway, WriterKnown, WriteWillShow,
       WriteIsNewer, NoEchoDue

LEMMA NotOlderTransitive ==
  ASSUME NEW a \in Item, NEW b \in Current, NEW c \in Item,
         ~IsNewerThan(a, b), ~IsNewerThan(b, c)
  PROVE  ~IsNewerThan(a, c)
BY DEF IsNewerThan, Item, Current

(* What a received item may do to an engine: nothing that counts; give the *)
(* content on the clipboard a newer name; or expect the echo of a write,   *)
(* of an item that is newer and different.                                 *)
LEMMA OnRemoteItemEffect ==
  ASSUME NEW e \in Engine, NEW item \in Item
  PROVE  LET new == OnRemoteItem(e, item)
         IN  \/ /\ Verdict(e, item) # "Write"
                /\ new.current = e.current /\ new.pending = e.pending
             \/ /\ Verdict(e, item) # "Write"
                /\ e.current # None /\ ~IsNewerThan(e.current, item)
                /\ new.current = CurrentOf(item) /\ new.pending = e.pending
             \/ /\ Verdict(e, item) = "Write"
                /\ item.hash = Identity[item.content]
                /\ e.current # None =>
                     ~IsNewerThan(e.current, item) /\ e.current.hash # item.hash
                /\ new.current = e.current /\ new.pending = item
<1>1. CASE Verdict(e, item) \in {"OwnItem", "Corrupt", "Duplicate"}
  <2>1. OnRemoteItem(e, item) = e
    BY <1>1 DEF OnRemoteItem
  <2> QED
    BY <1>1, <2>1
<1>2. CASE Verdict(e, item) = "Stale"
  <2>1. /\ OnRemoteItem(e, item).current = e.current
        /\ OnRemoteItem(e, item).pending = e.pending
    BY <1>2 DEF OnRemoteItem, Engine
  <2> QED
    BY <1>2, <2>1
<1>3. CASE Verdict(e, item) = "AlreadyOnClipboard"
  <2>1. e.current # None /\ ~IsNewerThan(e.current, item)
    BY <1>3 DEF Verdict
  <2>2. /\ OnRemoteItem(e, item).current = CurrentOf(item)
        /\ OnRemoteItem(e, item).pending = e.pending
    BY <1>3 DEF OnRemoteItem, Engine
  <2> QED
    BY <1>3, <2>1, <2>2
<1>4. CASE Verdict(e, item) = "Write"
  <2>1. /\ item.hash = Identity[item.content]
        /\ e.current # None =>
             ~IsNewerThan(e.current, item) /\ e.current.hash # item.hash
    BY <1>4 DEF Verdict, IsIntact, ContentHash
  <2>2. /\ OnRemoteItem(e, item).current = e.current
        /\ OnRemoteItem(e, item).pending = item
    BY <1>4 DEF OnRemoteItem, Engine
  <2> QED
    BY <1>4, <2>1, <2>2
<1>5. Verdict(e, item) \in {"OwnItem", "Corrupt", "Duplicate", "Stale", "AlreadyOnClipboard", "Write"}
  BY DEF Verdict
<1> QED
  BY <1>1, <1>2, <1>3, <1>4, <1>5

LEMMA CurrentOfIsNotOlder ==
  ASSUME NEW item \in Item
  PROVE  /\ CurrentOf(item) \in Current /\ CurrentOf(item) # None
         /\ ~IsNewerThan(item, CurrentOf(item))
<1>1. /\ CurrentOf(item).created = item.created /\ CurrentOf(item).id = item.id
      /\ CurrentOf(item) \in Current
      /\ item.created \in Nat /\ item.id \in Nat
  BY DEF CurrentOf, Current, Item
<1>2. ~IsNewerThan(item, CurrentOf(item))
  BY <1>1 DEF IsNewerThan
<1> QED
  BY <1>1, <1>2, NoCurrentAssumption

LEMMA OrderInit ==
  ASSUME StartSnapshots \cap Content = {}
  PROVE  Init => OrderInv
<1> SUFFICES ASSUME Init PROVE OrderInv
  OBVIOUS
<1>1. PromptInv /\ TrackingInv
  BY PromptInit, TrackingInit
<1>2. ASSUME NEW d \in Device PROVE OrderInvOf(d)
  <2>1. /\ clip[d].snapshot \in StartSnapshots /\ clip[d].writer = None
        /\ last[d] = Fingerprint(clip[d].snapshot)
        /\ reporting[d] = None /\ eventPc[d] = "idle" /\ engine[d].pending = None
    BY DEF Init, NewEngine
  <2>2. last[d] \notin Content
    BY <2>1, BoundsAssumption, FingerprintType
  <2> QED
    BY <2>1, <2>2 DEF OrderInvOf, WriterKnown, WriteWillShow, WriteIsNewer, NoEchoDue
<1> QED
  BY <1>1, <1>2 DEF OrderInv

NoRestart == \A d \in Device, left \in Snapshot : ~Restart(d, left)

LEMMA OrderKept ==
  ASSUME PromptWatcher
  PROVE  OrderInv /\ [Next]_vars /\ NoRestart => OrderInv'
<1> SUFFICES ASSUME OrderInv, [Next]_vars, NoRestart
             PROVE  \A e \in Device : OrderInvOf(e)'
  BY PromptStep, TrackingStep DEF OrderInv
<1>0. PromptInv /\ TrackingInv /\ TypeOK /\ \A e \in Device : OrderInvOf(e) /\ PromptInvOf(e)
  BY DEF OrderInv, PromptInv
<1>1. ASSUME NEW d \in Device, OrderInvOf(d)',
             \A e \in Device \ {d} : OrderStateOf(e)' = OrderStateOf(e)
      PROVE  \A e \in Device : OrderInvOf(e)'
  BY <1>0, <1>1, OrderFrame
<1>2. ASSUME \A e \in Device : OrderStateOf(e)' = OrderStateOf(e)
      PROVE  \A e \in Device : OrderInvOf(e)'
  BY <1>0, <1>2, OrderFrame
<1>3. CASE Tick
  BY <1>2, <1>3 DEF Tick, threadVars, StateOf, OrderStateOf
<1>4. ASSUME NEW d \in Device, NEW snapshot \in Snapshot, UserCopy(d, snapshot)
      PROVE  \A e \in Device : OrderInvOf(e)'
  <2>1. reporting[d] = None /\ eventPc[d] = "idle" /\ ~unchecked[d]
    BY <1>4 DEF UserCopy, Settled, ClipboardThreadIdle
  <2>2. engine[d].pending = None
    BY <1>0, <2>1 DEF OrderInvOf, NoEchoDue, Underway
  <2>3. /\ clip'[d].writer = None
        /\ UNCHANGED threadVars
    BY <1>0, <1>4 DEF UserCopy, TypeOK
  <2>4. OrderInvOf(d)'
    BY <1>0, <2>1, <2>2, <2>3
       DEF OrderInvOf, WriterKnown, WriteWillShow, WriteIsNewer, NoEchoDue, threadVars
  <2>5. \A e \in Device \ {d} : OrderStateOf(e)' = OrderStateOf(e)
    BY <1>0, <1>4 DEF UserCopy, StateOf, OrderStateOf, threadVars, TypeOK
  <2> QED
    BY <1>1, <2>4, <2>5
<1>5. ASSUME NEW d \in Device, Check(d)
      PROVE  \A e \in Device : OrderInvOf(e)'
  <2>1. /\ unchecked'[d] = FALSE /\ unchecked[d] \in BOOLEAN
        /\ last'[d] = Fingerprint(clip[d].snapshot)
        /\ reporting'[d] = IF IsChange(last[d], clip[d].snapshot) /\ clip[d].snapshot \in Content
                           THEN clip[d] ELSE None
        /\ reporting[d] = None /\ sending[d] = None
        /\ UNCHANGED <<clip, sending, engine, eventPc, applying>>
    BY <1>0, <1>5 DEF Check, TypeOK, ClipboardThreadIdle
  <2>2. clip[d].snapshot \in Snapshot /\ clip[d].writer \in Item \cup {None} /\ clip[d] # None
    BY <1>0, NoClipAssumption DEF TypeOK, Clip
  <2>3. OrderInvOf(d)
    BY <1>0
  <2>4. reporting'[d] # None => ~unchecked'[d] /\ reporting'[d] = clip'[d]
    BY <2>1
  <2>5. (reporting'[d] = None /\ engine'[d].current = None) => last'[d] \notin Content
    <3>1. CASE clip[d].snapshot \in Content
      <4>1. Fingerprint(clip[d].snapshot) = Identity[clip[d].snapshot]
        BY <2>2, <3>1, FingerprintType
      <4>2. Fingerprint(clip[d].snapshot) # None
        BY <3>1, <4>1, IdentityAssumption, SnapshotAssumption
      <4> QED
        BY <2>1, <2>2, <2>3, <3>1, <4>2 DEF OrderInvOf, IsChange
    <3>2. CASE clip[d].snapshot \notin Content
      BY <2>1, <2>2, <3>2, FingerprintType
    <3> QED
      BY <3>1, <3>2
  <2>6. (clip[d].writer # None /\ unchecked[d]) => reporting'[d] = clip[d]
    <3> SUFFICES ASSUME clip[d].writer # None, unchecked[d]
                 PROVE  reporting'[d] = clip[d]
      OBVIOUS
    <3>1. clip[d].snapshot \in Content /\ last[d] # Fingerprint(clip[d].snapshot)
      BY <2>2, <2>3 DEF OrderInvOf, WriteWillShow, Item
    <3>2. Fingerprint(clip[d].snapshot) \in Content
      BY <2>2, <3>1, FingerprintType, IdentityAssumption
    <3> QED
      BY <2>1, <3>1, <3>2, SnapshotAssumption DEF IsChange
  <2>7. ~unchecked[d] => reporting'[d] = None
    BY <1>0, <2>1 DEF PromptInvOf, IsChange
  <2>8. clip[d].writer # None => Underway(d)' = Underway(d)
    BY <2>1, <2>2, <2>6, <2>7 DEF Underway
  <2>9. WriterKnown(d)'
    BY <2>1, <2>3, <2>8 DEF OrderInvOf, WriterKnown
  <2>10. WriteWillShow(d)'
    BY <2>1 DEF WriteWillShow
  <2>11. WriteIsNewer(d)'
    <3>1. eventPc[d] # "idle" => ~unchecked[d]
      BY <1>0 DEF PromptInvOf, WriteUnderway
    <3>2. eventPc[d] # "idle" => last'[d] = last[d]
      BY <1>0, <2>1, <3>1 DEF PromptInvOf
    <3> QED
      BY <2>1, <2>3, <3>2 DEF OrderInvOf, WriteIsNewer
  <2>12. NoEchoDue(d)'
    BY <2>1, <2>3, <2>8 DEF OrderInvOf, NoEchoDue
  <2>13. OrderInvOf(d)'
    BY <2>4, <2>5, <2>9, <2>10, <2>11, <2>12 DEF OrderInvOf
  <2>14. \A e \in Device \ {d} : OrderStateOf(e)' = OrderStateOf(e)
    BY <1>0, <1>5 DEF Check, StateOf, OrderStateOf, TypeOK
  <2> QED
    BY <1>1, <2>13, <2>14
<1>6. ASSUME NEW d \in Device, ReportChange(d)
      PROVE  \A e \in Device : OrderInvOf(e)'
  <2> DEFINE content == reporting[d].snapshot
             item    == FreshItem(d, content)
  <2>1. /\ reporting[d] # None /\ content \in Content /\ reporting'[d] = None
        /\ engine'[d] = OnLocalChange(engine[d], content, item)
        /\ UNCHANGED <<clip, unchecked, last, eventPc, applying>>
    BY <1>0, <1>6 DEF ReportChange, TypeOK
  <2>2. engine[d] \in Engine /\ item \in Item
    BY <1>0, <2>1, FreshItemType DEF TypeOK
  <2>3. ~unchecked[d] /\ eventPc[d] = "idle" /\ reporting[d] = clip[d]
    BY <1>0, <2>1 DEF OrderInvOf, PromptInvOf, WriteUnderway, ClipboardThreadIdle
  <2> HIDE DEF item
  <2>4. engine'[d].pending = None
    BY <2>1, <2>2 DEF OnLocalChange, Engine
  <2>5. engine'[d].current \in {CurrentOf(item), CurrentOf(engine[d].pending)}
    BY <2>1, <2>2 DEF OnLocalChange, Engine
  <2>6. engine'[d].current # None
    <3>1. CASE IsEcho(engine[d], content)
      <4>1. engine[d].pending \in Item
        BY <2>2, <3>1 DEF IsEcho, Engine
      <4>2. engine'[d].current = CurrentOf(engine[d].pending)
        BY <2>1, <2>2, <3>1 DEF OnLocalChange, Engine
      <4> QED
        BY <4>1, <4>2, CurrentOfIsNotOlder
    <3>2. CASE ~IsEcho(engine[d], content)
      <4>1. engine'[d].current = CurrentOf(item)
        BY <2>1, <2>2, <3>2 DEF OnLocalChange, Engine
      <4> QED
        BY <2>2, <4>1, CurrentOfIsNotOlder
    <3> QED
      BY <3>1, <3>2
  <2>7. clip[d].writer # None => ~IsNewerThan(clip[d].writer, engine'[d].current)
    <3> SUFFICES ASSUME clip[d].writer # None
                 PROVE  ~IsNewerThan(clip[d].writer, engine'[d].current)
      OBVIOUS
    <3>1. engine[d].pending = clip[d].writer /\ clip[d].writer \in Item
      BY <1>0, <2>1 DEF OrderInvOf, WriterKnown, Underway, TypeOK, Clip
    <3>2. EchoExpected(d, reporting[d])
      BY <1>0, <2>1, <2>3 DEF PromptInvOf
    <3>3. IsEcho(engine[d], content)
      BY <2>1, <3>2 DEF EchoExpected, IsEcho, ContentHash
    <3>4. engine'[d].current = CurrentOf(engine[d].pending)
      BY <2>1, <2>2, <3>3 DEF OnLocalChange, Engine
    <3> QED
      BY <3>1, <3>4, CurrentOfIsNotOlder
  <2>8. WriterKnown(d)'
    BY <2>1, <2>3, <2>6, <2>7 DEF WriterKnown, Underway
  <2>9. WriteWillShow(d)' /\ WriteIsNewer(d)' /\ NoEchoDue(d)'
    BY <2>1, <2>3, <2>4 DEF WriteWillShow, WriteIsNewer, NoEchoDue
  <2>10. OrderInvOf(d)'
    BY <2>1, <2>6, <2>8, <2>9 DEF OrderInvOf
  <2>11. \A e \in Device \ {d} : OrderStateOf(e)' = OrderStateOf(e)
    BY <1>0, <1>6 DEF ReportChange, StateOf, OrderStateOf, TypeOK
  <2> QED
    BY <1>1, <2>10, <2>11
<1>7. ASSUME NEW d \in Device, Broadcast(d)
      PROVE  \A e \in Device : OrderInvOf(e)'
  <2>1. UNCHANGED <<clip, unchecked, last, reporting, engine, eventPc, applying>>
    BY <1>7 DEF Broadcast
  <2>2. OrderInvOf(d)'
    BY <1>0, <2>1
       DEF OrderInvOf, Underway, WriterKnown, WriteWillShow, WriteIsNewer, NoEchoDue
  <2>3. \A e \in Device \ {d} : OrderStateOf(e)' = OrderStateOf(e)
    BY <1>0, <1>7 DEF Broadcast, StateOf, OrderStateOf, TypeOK
  <2> QED
    BY <1>1, <2>2, <2>3
<1>8. ASSUME NEW d \in Device, NEW item \in outbox[d], SendToAll(d, item)
      PROVE  \A e \in Device : OrderInvOf(e)'
  BY <1>2, <1>8 DEF SendToAll, threadVars, StateOf, OrderStateOf
<1>9. ASSUME NEW d \in Device, NEW s \in Device, ReceiveItem(s, d)
      PROVE  \A e \in Device : OrderInvOf(e)'
  <2> DEFINE item  == Head(link[<<s, d>>])
             apply == Verdict(engine[d], item) = "Write"
  <2>1. /\ Settled(d)
        /\ engine'[d] = OnRemoteItem(engine[d], item)
        /\ eventPc'[d] = IF apply THEN "writing" ELSE "idle"
        /\ applying'[d] = IF apply THEN item ELSE None
        /\ UNCHANGED <<clip, unchecked, last, reporting>>
    BY <1>0, <1>9 DEF ReceiveItem, TypeOK
  <2>2. item \in Item /\ engine[d] \in Engine
    BY <1>0, <1>9 DEF ReceiveItem, TypeOK
  <2> HIDE DEF item
  <2>3. ~Underway(d) /\ ~unchecked[d] /\ reporting[d] = None /\ eventPc[d] = "idle"
    BY <2>1 DEF Settled, Underway, ClipboardThreadIdle
  <2>4. engine[d].pending = None
    BY <1>0, <2>3 DEF OrderInvOf, NoEchoDue
  <2>5. clip[d].writer \in Item \cup {None} /\ engine[d].current \in Current \cup {None}
    BY <1>0 DEF TypeOK, Clip, Engine
  <2>6. clip[d].writer # None =>
          engine[d].current # None /\ ~IsNewerThan(clip[d].writer, engine[d].current)
    BY <1>0, <2>3 DEF OrderInvOf, WriterKnown
  <2>7. engine[d].current = None => last[d] \notin Content
    BY <1>0, <2>3 DEF OrderInvOf
  <2>8. /\ reporting'[d] # None => ~unchecked'[d] /\ reporting'[d] = clip'[d]
        /\ WriteWillShow(d)'
    BY <2>1, <2>3 DEF WriteWillShow
  <2>9. ASSUME apply
        PROVE  OrderInvOf(d)'
    <3>1. /\ item.hash = Identity[item.content]
          /\ engine[d].current # None =>
               ~IsNewerThan(engine[d].current, item) /\ engine[d].current.hash # item.hash
          /\ engine'[d].current = engine[d].current
      BY <2>1, <2>2, <2>9, OnRemoteItemEffect
    <3>2. last[d] # Identity[item.content]
      <4>1. Identity[item.content] \in Content
        BY <2>2, IdentityAssumption DEF Item
      <4>2. (engine[d].current # None /\ last[d] \in Content) => engine[d].current.hash = last[d]
        BY <1>0, <2>3 DEF TrackingInv, EngineTracksDetector
      <4> QED
        BY <2>7, <3>1, <4>1, <4>2
    <3>3. clip[d].writer # None => ~IsNewerThan(clip[d].writer, item)
      BY <2>2, <2>5, <2>6, <3>1, NotOlderTransitive
    <3>4. WriteIsNewer(d)'
      BY <2>1, <2>9, <3>2, <3>3 DEF WriteIsNewer
    <3>5. WriterKnown(d)'
      BY <2>1, <2>3, <2>6, <3>1 DEF WriterKnown, Underway
    <3>6. NoEchoDue(d)'
      BY <2>1, <2>9 DEF NoEchoDue
    <3> QED
      BY <2>1, <2>7, <2>8, <3>1, <3>4, <3>5, <3>6 DEF OrderInvOf
  <2>10. ASSUME ~apply
         PROVE  OrderInvOf(d)'
    <3>1. /\ engine'[d].pending = None
          /\ \/ engine'[d].current = engine[d].current
             \/ /\ engine[d].current # None /\ ~IsNewerThan(engine[d].current, item)
                /\ engine'[d].current = CurrentOf(item)
      BY <2>1, <2>2, <2>4, <2>10, OnRemoteItemEffect
    <3>2. engine'[d].current = None => engine[d].current = None
      BY <2>2, <3>1, CurrentOfIsNotOlder
    <3>3. clip[d].writer # None =>
            engine'[d].current # None /\ ~IsNewerThan(clip[d].writer, engine'[d].current)
      <4>1. CASE engine'[d].current = engine[d].current
        BY <2>6, <4>1
      <4>2. CASE /\ engine[d].current # None /\ ~IsNewerThan(engine[d].current, item)
                 /\ engine'[d].current = CurrentOf(item)
        <5>1. clip[d].writer # None => ~IsNewerThan(clip[d].writer, item)
          BY <2>2, <2>5, <2>6, <4>2, NotOlderTransitive
        <5>2. ~IsNewerThan(item, CurrentOf(item)) /\ CurrentOf(item) # None
          BY <2>2, CurrentOfIsNotOlder
        <5>3. CurrentOf(item).created = item.created /\ CurrentOf(item).id = item.id
          BY DEF CurrentOf
        <5>4. clip[d].writer # None => ~IsNewerThan(clip[d].writer, CurrentOf(item))
          BY <5>1, <5>3 DEF IsNewerThan
        <5> QED
          BY <4>2, <5>2, <5>4
      <4> QED
        BY <3>1, <4>1, <4>2
    <3>4. WriterKnown(d)'
      BY <2>1, <2>3, <3>3 DEF WriterKnown, Underway
    <3>5. WriteIsNewer(d)' /\ NoEchoDue(d)'
      BY <2>1, <2>10, <3>1 DEF WriteIsNewer, NoEchoDue
    <3> QED
      BY <2>1, <2>7, <2>8, <3>2, <3>4, <3>5 DEF OrderInvOf
  <2>11. \A e \in Device \ {d} : OrderStateOf(e)' = OrderStateOf(e)
    BY <1>0, <1>9 DEF ReceiveItem, StateOf, OrderStateOf, TypeOK
  <2> QED
    BY <1>1, <2>9, <2>10, <2>11
<1>10. ASSUME NEW d \in Device, WriteClipboard(d)
       PROVE  \A e \in Device : OrderInvOf(e)'
  <2>1. WriteUnderway(d) /\ applying[d] \in Item
    BY <1>0, <1>10 DEF WriteClipboard, PromptInvOf, TypeOK
  <2>2. /\ clip'[d].snapshot = applying[d].content /\ clip'[d].writer = applying[d]
        /\ unchecked'[d] = TRUE /\ eventPc'[d] = "idle"
        /\ UNCHANGED <<last, reporting, sending, engine>>
    BY <1>0, <1>10 DEF WriteClipboard, TypeOK
  <2>3. reporting[d] = None /\ engine[d].pending = applying[d] /\ applying[d] # None
    BY <2>1, NoneAssumption DEF WriteUnderway, ClipboardThreadIdle
  <2>4. last[d] # Fingerprint(clip'[d].snapshot)
    <3>1. last[d] # Identity[applying[d].content]
      BY <1>0, <1>10 DEF WriteClipboard, OrderInvOf, WriteIsNewer
    <3>2. applying[d].content \in Content
      BY <2>1 DEF Item
    <3>3. Fingerprint(applying[d].content) = Identity[applying[d].content]
      BY <3>2, FingerprintType DEF Snapshot
    <3> QED
      BY <2>2, <3>1, <3>3
  <2>5. (reporting'[d] = None /\ engine'[d].current = None) => last'[d] \notin Content
    BY <1>0, <2>2, <2>3 DEF OrderInvOf
  <2>6. WriterKnown(d)' /\ WriteWillShow(d)'
    BY <2>2, <2>3, <2>4 DEF WriterKnown, WriteWillShow, Underway
  <2>7. WriteIsNewer(d)' /\ NoEchoDue(d)'
    BY <2>2, <2>3 DEF WriteIsNewer, NoEchoDue, Underway
  <2>8. OrderInvOf(d)'
    BY <2>2, <2>3, <2>5, <2>6, <2>7 DEF OrderInvOf
  <2>9. \A e \in Device \ {d} : OrderStateOf(e)' = OrderStateOf(e)
    BY <1>0, <1>10 DEF WriteClipboard, StateOf, OrderStateOf, TypeOK
  <2> QED
    BY <1>1, <2>8, <2>9
<1>11. ASSUME NEW d \in Device, WriteFails(d)
       PROVE  \A e \in Device : OrderInvOf(e)'
  <2>1. /\ eventPc[d] = "writing" /\ eventPc'[d] = "failed"
        /\ UNCHANGED <<clip, unchecked, last, reporting, engine, applying>>
    BY <1>0, <1>11 DEF WriteFails, TypeOK
  <2>2. OrderInvOf(d)'
    BY <1>0, <2>1
       DEF OrderInvOf, Underway, WriterKnown, WriteWillShow, WriteIsNewer, NoEchoDue
  <2>3. \A e \in Device \ {d} : OrderStateOf(e)' = OrderStateOf(e)
    BY <1>0, <1>11 DEF WriteFails, StateOf, OrderStateOf, TypeOK
  <2> QED
    BY <1>1, <2>2, <2>3
<1>12. ASSUME NEW d \in Device, AbandonWrite(d)
       PROVE  \A e \in Device : OrderInvOf(e)'
  <2>1. /\ eventPc[d] = "failed" /\ eventPc'[d] = "idle"
        /\ engine'[d].pending = None /\ engine'[d].current = engine[d].current
        /\ UNCHANGED <<clip, unchecked, last, reporting>>
    BY <1>0, <1>12 DEF AbandonWrite, OnWriteFailed, TypeOK, Engine
  <2>2. ~Underway(d)
    BY <1>0, <2>1 DEF PromptInvOf, WriteUnderway, ClipboardThreadIdle, Underway
  <2>3. OrderInvOf(d)'
    BY <1>0, <2>1, <2>2
       DEF OrderInvOf, Underway, WriterKnown, WriteWillShow, WriteIsNewer, NoEchoDue
  <2>4. \A e \in Device \ {d} : OrderStateOf(e)' = OrderStateOf(e)
    BY <1>0, <1>12 DEF AbandonWrite, StateOf, OrderStateOf, TypeOK
  <2> QED
    BY <1>1, <2>3, <2>4
<1>13. ASSUME NEW d \in Device, NEW left \in Snapshot, Restart(d, left)
       PROVE  FALSE
  BY <1>13 DEF NoRestart
<1>14. ASSUME NEW a \in Device, NEW b \in Device, Disconnect(a, b)
       PROVE  \A e \in Device : OrderInvOf(e)'
  BY <1>2, <1>14 DEF Disconnect, threadVars, StateOf, OrderStateOf
<1>15. ASSUME NEW pair \in Pairs, Connect(pair)
       PROVE  \A e \in Device : OrderInvOf(e)'
  BY <1>2, <1>15 DEF Connect, threadVars, StateOf, OrderStateOf
<1>16. CASE UNCHANGED vars
  BY <1>2, <1>16 DEF vars, threadVars, StateOf, OrderStateOf
<1> QED
  BY <1>3, <1>4, <1>5, <1>6, <1>7, <1>8, <1>9, <1>10, <1>11, <1>12, <1>13,
     <1>14, <1>15, <1>16 DEF Next

LEMMA OrderStep ==
  ASSUME PromptWatcher, MaxRestarts = 0
  PROVE  OrderInv /\ [Next]_vars => OrderInv'
<1>1. TypeOK => NoRestart
  BY DEF NoRestart, Restart, TypeOK
<1>2. OrderInv => TypeOK
  BY DEF OrderInv, PromptInv
<1> QED
  BY <1>1, <1>2, OrderKept

(* A clipboard that Cled wrote is written again only by an item that is    *)
(* not older, and a write is the only step that makes Cled the writer.     *)
LEMMA WritesInOrder ==
  ASSUME OrderInv, [Next]_vars, NEW d \in Device,
         clip[d].writer # None, clip'[d].writer # None
  PROVE  ~IsNewerThan(clip[d].writer, clip'[d].writer)
<1>1. TypeOK /\ OrderInvOf(d) /\ clip[d].writer \in Item
  BY DEF OrderInv, TrackingInv, TypeOK, Clip
<1>2. CASE clip'[d] = clip[d]
  BY <1>1, <1>2 DEF IsNewerThan, Item
<1>3. CASE WriteClipboard(d)
  <2>1. clip'[d].writer = applying[d] /\ eventPc[d] = "writing"
    BY <1>1, <1>3 DEF WriteClipboard, TypeOK
  <2> QED
    BY <1>1, <2>1 DEF OrderInvOf, WriteIsNewer
<1>4. clip'[d] = clip[d] \/ WriteClipboard(d)
  <2>1. ASSUME NEW e \in Device, NEW snapshot \in Snapshot, UserCopy(e, snapshot)
        PROVE  clip'[d] = clip[d]
    <3>1. clip' = [clip EXCEPT ![e] = [snapshot |-> snapshot, writer |-> None]]
      BY <2>1 DEF UserCopy
    <3>2. CASE e = d
      BY <1>1, <3>1, <3>2 DEF TypeOK
    <3>3. CASE e # d
      BY <1>1, <3>1, <3>3 DEF TypeOK
    <3> QED
      BY <3>2, <3>3
  <2>2. ASSUME NEW e \in Device, NEW left \in Snapshot, Restart(e, left)
        PROVE  clip'[d] = clip[d]
    <3>1. clip' = [clip EXCEPT ![e] = [snapshot |-> left, writer |-> None]]
      BY <2>2 DEF Restart
    <3>2. CASE e = d
      BY <1>1, <3>1, <3>2 DEF TypeOK
    <3>3. CASE e # d
      BY <1>1, <3>1, <3>3 DEF TypeOK
    <3> QED
      BY <3>2, <3>3
  <2>3. ASSUME NEW e \in Device, WriteClipboard(e)
        PROVE  clip'[d] = clip[d] \/ WriteClipboard(d)
    BY <1>1, <2>3 DEF WriteClipboard, TypeOK
  <2>4. UNCHANGED clip \/ \E e \in Device :
          \/ WriteClipboard(e)
          \/ \E snapshot \in Snapshot : UserCopy(e, snapshot) \/ Restart(e, snapshot)
    BY DEF Next, vars, threadVars, Tick, Check, ReportChange, Broadcast, SendToAll,
           ReceiveItem, WriteFails, AbandonWrite, Disconnect, Connect
  <2> QED
    BY <2>1, <2>2, <2>3, <2>4
<1> QED
  BY <1>2, <1>3, <1>4

(* A report of what the user copied leaves only through the engine, and    *)
(* the engine, which expects no echo then, has it broadcast.               *)
LEMMA CopyGoesOut ==
  ASSUME OrderInv, [Next]_vars, NEW d \in Device,
         reporting[d] # None, reporting[d].writer = None, reporting'[d] = None
  PROVE  sending'[d] # None \/ restarts' # restarts
<1>1. TypeOK /\ OrderInvOf(d) /\ PromptInvOf(d)
  BY DEF OrderInv, TrackingInv, PromptInv
<1>2. CASE ReportChange(d)
  <2> DEFINE content == reporting[d].snapshot
             item    == FreshItem(d, content)
  <2>1. clip[d].writer = None /\ eventPc[d] = "idle"
    BY <1>1 DEF OrderInvOf, PromptInvOf, WriteUnderway, ClipboardThreadIdle
  <2>2. engine[d].pending = None
    BY <1>1, <2>1 DEF OrderInvOf, NoEchoDue
  <2>3. ~IsEcho(engine[d], content)
    BY <2>2 DEF IsEcho
  <2>4. content \in Content
    BY <1>1 DEF TypeOK
  <2>5. item \in Item /\ item # None
    BY <1>1, <2>4, FreshItemType, NoneAssumption
  <2>6. sending'[d] = item
    BY <1>1, <1>2, <2>3 DEF ReportChange, TypeOK
  <2> QED
    BY <2>5, <2>6
<1>3. ASSUME NEW e \in Device, NEW left \in Snapshot, Restart(e, left)
      PROVE  restarts' # restarts
  BY <1>1, <1>3 DEF Restart, TypeOK
<1>4. ASSUME NEW e \in Device, Check(e)
      PROVE  FALSE
  <2>1. e # d
    BY <1>4 DEF Check, ClipboardThreadIdle
  <2> QED
    BY <1>1, <1>4, <2>1 DEF Check, TypeOK
<1>5. ASSUME NEW e \in Device, ReportChange(e)
      PROVE  ReportChange(d)
  <2>1. CASE e # d
    <3>1. reporting'[d] = reporting[d]
      BY <1>1, <1>5, <2>1 DEF ReportChange, TypeOK
    <3> QED
      BY <3>1
  <2> QED
    BY <1>5, <2>1
<1>6. UNCHANGED reporting \/ \E e \in Device :
        \/ Check(e) \/ ReportChange(e)
        \/ \E left \in Snapshot : Restart(e, left)
  BY DEF Next, vars, threadVars, Tick, UserCopy, Broadcast, SendToAll,
         ReceiveItem, WriteClipboard, WriteFails, AbandonWrite, Disconnect, Connect
<1> QED
  BY <1>2, <1>3, <1>4, <1>5, <1>6

(* If every clipboard change is checked before the device's next copy or   *)
(* received item, and the program was started without content on the       *)
(* clipboard, Cled never replaces an item it has put on a clipboard by an  *)
(* older one: for any clocks, failed writes and lost connections.  (With   *)
(* content there at the start it may: an item with that same content is    *)
(* written, and the detector sees no change the engine could learn from.)  *)
THEOREM PromptWatcherKeepsNewest ==
  ASSUME PromptWatcher, StartSnapshots \cap Content = {}, MaxRestarts = 0
  PROVE  Spec => NewestWins
<1> DEFINE Step ==
      \A d \in Device :
        (clip[d].writer # None /\ clip'[d].writer # None)
          => ~IsNewerThan(clip[d].writer, clip'[d].writer)
<1>1. Init => OrderInv
  BY OrderInit
<1>2. OrderInv /\ [Next]_vars => OrderInv'
  BY OrderStep
<1>3. OrderInv /\ [Next]_vars => Step
  BY WritesInOrder
<1> HIDE DEF Step
<1>4. Spec => [][Step]_vars
  BY <1>1, <1>2, <1>3, PTL DEF Spec
<1> QED
  BY <1>4 DEF NewestWins, Step

(* Under the same conditions, no copy of the user's is taken for an echo:  *)
(* each one that is reported to the engine is broadcast.                   *)
THEOREM PromptWatcherSendsCopies ==
  ASSUME PromptWatcher, StartSnapshots \cap Content = {}, MaxRestarts = 0
  PROVE  Spec => GenuineCopyIsSent
<1> DEFINE Step ==
      \A d \in Device :
        (reporting[d] # None /\ reporting[d].writer = None /\ reporting'[d] = None)
          => (sending'[d] # None \/ restarts' # restarts)
<1>1. Init => OrderInv
  BY OrderInit
<1>2. OrderInv /\ [Next]_vars => OrderInv'
  BY OrderStep
<1>3. OrderInv /\ [Next]_vars => Step
  BY CopyGoesOut
<1> HIDE DEF Step
<1>4. Spec => [][Step]_vars
  BY <1>1, <1>2, <1>3, PTL DEF Spec
<1> QED
  BY <1>4 DEF GenuineCopyIsSent, Step
-----------------------------------------------------------------------------
(* Converged.  What an item is to the argument is its age and its ID, so   *)
(* the item an engine expects, the one it names as current and the one on  *)
(* the way are compared by these.                                          *)

Same(x, y) == x.created = y.created /\ x.id = y.id

(* The items that the engine of d stands for, or soon will.                *)
Held(d) == {engine[d].current, engine[d].pending} \ {None}

(* The items that s has created and e has still to judge.                  *)
OnItsWay(s, e) ==
  ({sending[s]} \ {None}) \cup outbox[s]
    \cup QueuedIn(link[<<s, e>>])

AllHeld    == UNION {Held(d) : d \in Device}
SentFrom(s) == UNION {OnItsWay(s, e) : e \in Device \ {s}}
AllSent    == UNION {SentFrom(s) : s \in Device}
Around     == AllHeld \cup AllSent

IdNumber(d, k) == IdRank[d] * (MaxItems + 1) + k
OwnId(d, id)   == \E k \in 1..created[d] : id = IdNumber(d, k)

(* d stands for x or for something newer.                                  *)
Covers(d, x) == \E y \in Held(d) : ~IsNewerThan(x, y)

(* Every other device that x concerns has it still to judge, or has done   *)
(* so and stands for it or for something newer.                            *)
AccountedFor(x, e) ==
  \/ Covers(e, x)
  \/ \E s \in Device \ {e} : \E i \in OnItsWay(s, e) : Same(i, x)

NetInv ==
  /\ \A s, e \in Device : s # e =>
       \A i \in OnItsWay(s, e) : i.origin = s /\ IsIntact(i)
  /\ \A x \in Around, d \in Device : x.created <= now + ClockSkew[d]
  /\ \A x \in Around : \E d \in Device : OwnId(d, x.id)
  /\ \A x, y \in Around : x.id = y.id => x.created = y.created
  /\ \A e \in Device : \A id \in engine[e].seen.members : \E d \in Device : OwnId(d, id)
  /\ \A e \in Device : \A x \in Around : x.id \in engine[e].seen.members => Covers(e, x)
  /\ \A e \in Device : \A x \in Around : AccountedFor(x, e)

(* What makes a copy newer than all its device knows.                      *)
LocalInvOf(d) ==
  /\ eventPc[d] # "failed"
  /\ created[d] <= MaxItems
  /\ CopyUnderway(d) => now > handledAt[d]
  /\ engine[d].current # None =>
       \/ OwnId(d, engine[d].current.id)
       \/ engine[d].current.created <= handledAt[d] + ClockSkew[d]
  /\ engine[d].pending # None =>
       engine[d].pending.created <= handledAt[d] + ClockSkew[d]
  /\ (engine[d].pending # None /\ engine[d].current # None) =>
       ~IsNewerThan(engine[d].current, engine[d].pending)

Wired == connected = Pairs /\ \A d \in Device : link[<<d, d>>] = <<>>

ConvergeInv == OrderInv /\ NetInv /\ Wired /\ \A d \in Device : LocalInvOf(d)

NothingFailed == faults = 0 /\ restarts = 0

Stamped(x) == x.created \in Nat /\ x.id \in Nat

LEMMA OrderOfStamps ==
  ASSUME NEW a, NEW b, NEW c, Stamped(a), Stamped(b), Stamped(c)
  PROVE  /\ (~IsNewerThan(a, b) /\ ~IsNewerThan(b, c)) => ~IsNewerThan(a, c)
         /\ IsNewerThan(a, b) => ~IsNewerThan(b, a)
         /\ Same(a, b) => ~IsNewerThan(a, b)
         /\ (~IsNewerThan(a, b) /\ ~IsNewerThan(b, a)) => Same(a, b)
BY DEF Stamped, IsNewerThan, Same

LEMMA CurrentOfIsSame ==
  ASSUME NEW item \in Item
  PROVE  Same(item, CurrentOf(item)) /\ Stamped(item) /\ Stamped(CurrentOf(item))
BY DEF Same, CurrentOf, Stamped, Item

LEMMA AroundMember ==
  ASSUME NEW x
  PROVE  x \in Around <=>
           \/ \E d \in Device : x \in Held(d)
           \/ \E s, e \in Device : s # e /\ x \in OnItsWay(s, e)
<1>1. x \in AllHeld <=> \E d \in Device : x \in Held(d)
  BY DEF AllHeld
<1>2. ASSUME NEW s \in Device
      PROVE  x \in SentFrom(s) <=> \E e \in Device : s # e /\ x \in OnItsWay(s, e)
  BY DEF SentFrom
<1>3. x \in AllSent <=> \E s \in Device : x \in SentFrom(s)
  BY DEF AllSent
<1>4. x \in Around <=> x \in AllHeld \/ x \in AllSent
  BY DEF Around
<1>5. (\E s \in Device : x \in SentFrom(s))
        <=> \E s, e \in Device : s # e /\ x \in OnItsWay(s, e)
  BY <1>2
<1> QED
  BY <1>1, <1>3, <1>4, <1>5

LEMMA AroundMemberNext ==
  ASSUME NEW x
  PROVE  x \in Around' <=>
           \/ \E d \in Device : x \in Held(d)'
           \/ \E s, e \in Device : s # e /\ x \in OnItsWay(s, e)'
<1>1. x \in AllHeld' <=> \E d \in Device : x \in Held(d)'
  BY DEF AllHeld
<1>2. ASSUME NEW s \in Device
      PROVE  x \in SentFrom(s)' <=> \E e \in Device : s # e /\ x \in OnItsWay(s, e)'
  BY DEF SentFrom
<1>3. x \in AllSent' <=> \E s \in Device : x \in SentFrom(s)'
  BY DEF AllSent
<1>4. x \in Around' <=> x \in AllHeld' \/ x \in AllSent'
  BY DEF Around
<1>5. (\E s \in Device : x \in SentFrom(s)')
        <=> \E s, e \in Device : s # e /\ x \in OnItsWay(s, e)'
  BY <1>2
<1> QED
  BY <1>1, <1>3, <1>4, <1>5

LEMMA HeldStamped ==
  ASSUME TypeOK, NEW d \in Device, NEW x \in Held(d)
  PROVE  Stamped(x)
BY DEF Held, Stamped, TypeOK, Engine, Current, Item

LEMMA OnItsWayType ==
  ASSUME TypeOK, NEW s \in Device, NEW e \in Device
  PROVE  OnItsWay(s, e) \subseteq Item
<1>1. sending[s] \in Item \cup {None} /\ outbox[s] \subseteq Item
  BY DEF TypeOK
<1>2. link[<<s, e>>] \in Seq(Item)
  BY DEF TypeOK
<1> QED
  BY <1>1, <1>2 DEF OnItsWay, QueuedIn

LEMMA AroundStamped ==
  ASSUME TypeOK, NEW x \in Around
  PROVE  Stamped(x)
<1>1. ASSUME NEW s \in Device, NEW e \in Device, x \in OnItsWay(s, e)
      PROVE  Stamped(x)
  BY <1>1, OnItsWayType DEF Stamped, Item
<1> QED
  BY <1>1, AroundMember, HeldStamped

LEMMA StampedNext ==
  ASSUME TypeOK'
  PROVE  /\ \A d \in Device : \A x \in Held(d)' : Stamped(x)
         /\ \A x \in Around' : Stamped(x)
<1>1. \A d \in Device : \A x \in Held(d)' : Stamped(x)
  BY DEF Held, Stamped, TypeOK, Engine, Current, Item
<1>2. ASSUME NEW s \in Device, NEW e \in Device
      PROVE  OnItsWay(s, e)' \subseteq Item
  <2>1. sending'[s] \in Item \cup {None} /\ outbox'[s] \subseteq Item
    BY DEF TypeOK
  <2>2. link'[<<s, e>>] \in Seq(Item)
    BY DEF TypeOK
  <2> QED
    BY <2>1, <2>2 DEF OnItsWay, QueuedIn
<1>3. ASSUME NEW x \in Around'
      PROVE  Stamped(x)
  BY <1>1, <1>2, AroundMemberNext DEF Stamped, Item
<1> QED
  BY <1>1, <1>3

(* Who stands for an item stands for what is the same.                     *)
LEMMA CoversSameNext ==
  ASSUME TypeOK', NEW d \in Device, NEW x, NEW y,
         Stamped(x), Stamped(y), Same(x, y), Covers(d, x)'
  PROVE  Covers(d, y)'
<1>1. \A z \in Held(d)' : Stamped(z)
  BY StampedNext
<1>2. \A z : (Stamped(z) /\ ~IsNewerThan(x, z)) => ~IsNewerThan(y, z)
  BY DEF Stamped, IsNewerThan, Same
<1> QED
  BY <1>1, <1>2 DEF Covers

(* A step that creates no item.                                            *)
LEMMA NetStep ==
  ASSUME TypeOK, TypeOK', NetInv, created' = created, now <= now',
         \A e \in Device : \A x \in Around : Covers(e, x) => Covers(e, x)',
         \A x \in Around' : \E y \in Around : Same(x, y),
         \A s, e \in Device : s # e =>
           /\ OnItsWay(s, e)' \subseteq OnItsWay(s, e)
           /\ \A i \in OnItsWay(s, e) : i \in OnItsWay(s, e)' \/ Covers(e, i)',
         \A e \in Device : \A id \in engine'[e].seen.members :
           \/ id \in engine[e].seen.members
           \/ \E y \in Around : y.id = id /\ Covers(e, y)'
  PROVE  NetInv'
<1>0. /\ \A x \in Around : Stamped(x)
      /\ \A x \in Around' : Stamped(x)
      /\ now \in Nat /\ now' \in Nat /\ \A d \in Device : ClockSkew[d] \in Nat
  BY AroundStamped, StampedNext, ClockAssumption DEF TypeOK
<1>1. (\A s, e \in Device : s # e =>
        \A i \in OnItsWay(s, e) : i.origin = s /\ IsIntact(i))'
  BY DEF NetInv
<1>2. ASSUME NEW x \in Around', NEW d \in Device
      PROVE  x.created <= now' + ClockSkew[d]
  <2>1. PICK y \in Around : Same(x, y)
    OBVIOUS
  <2>2. y.created <= now + ClockSkew[d] /\ x.created = y.created /\ y.created \in Nat
    BY <1>0, <2>1 DEF NetInv, Same, Stamped
  <2>3. ClockSkew[d] \in Nat
    BY <1>0
  <2> QED
    BY <1>0, <2>2, <2>3
<1>3. \A x \in Around' : \E d \in Device : OwnId(d, x.id)'
  BY DEF NetInv, Same, OwnId
<1>4. \A x, y \in Around' : x.id = y.id => x.created = y.created
  BY DEF NetInv, Same
<1>5. \A e \in Device : \A id \in engine'[e].seen.members : \E d \in Device : OwnId(d, id)'
  BY DEF NetInv, OwnId
<1>6. ASSUME NEW e \in Device, NEW x \in Around', x.id \in engine'[e].seen.members
      PROVE  Covers(e, x)'
  <2>1. PICK y \in Around : Same(x, y)
    OBVIOUS
  <2>2. ASSUME NEW z \in Around, z.id = x.id, Covers(e, z)'
        PROVE  Covers(e, x)'
    <3>1. z.created = y.created
      BY <2>1, <2>2 DEF NetInv, Same
    <3>2. Same(z, x)
      BY <2>1, <2>2, <3>1 DEF Same
    <3> QED
      BY <1>0, <2>2, <3>2, CoversSameNext
  <2>3. CASE x.id \in engine[e].seen.members
    <3>1. y.id = x.id /\ Covers(e, y)
      BY <2>1, <2>3 DEF NetInv, Same
    <3> QED
      BY <2>2, <3>1
  <2> QED
    BY <1>6, <2>2, <2>3
<1>7. ASSUME NEW e \in Device, NEW x \in Around'
      PROVE  AccountedFor(x, e)'
  <2>1. PICK y \in Around : Same(x, y)
    OBVIOUS
  <2>2. AccountedFor(y, e)
    BY DEF NetInv
  <2>3. CASE Covers(e, y)
    <3>1. Same(y, x) /\ Covers(e, y)'
      BY <2>1, <2>3 DEF Same
    <3> QED
      BY <1>0, <3>1, CoversSameNext DEF AccountedFor
  <2>4. ASSUME NEW s \in Device \ {e}, NEW i \in OnItsWay(s, e), Same(i, y)
        PROVE  AccountedFor(x, e)'
    <3>1. Same(i, x)
      BY <2>1, <2>4 DEF Same
    <3>2. i \in OnItsWay(s, e)' \/ Covers(e, i)'
      OBVIOUS
    <3>3. Stamped(i)
      BY <1>0, AroundMember
    <3> QED
      BY <1>0, <3>1, <3>2, <3>3, CoversSameNext DEF AccountedFor
  <2> QED
    BY <2>2, <2>3, <2>4 DEF AccountedFor
<1> QED
  BY <1>1, <1>2, <1>3, <1>4, <1>5, <1>6, <1>7 DEF NetInv


(* IDs are given once.                                                     *)
LEMMA IdsDiffer ==
  ASSUME NEW d \in Device, NEW e \in Device,
         NEW k \in 1..MaxItems, NEW l \in 1..MaxItems,
         IdNumber(d, k) = IdNumber(e, l)
  PROVE  d = e /\ k = l
<1> DEFINE M == MaxItems + 1
           a == IdRank[d]
           b == IdRank[e]
<1>1. M \in Nat /\ k < M /\ l < M /\ a \in Nat /\ b \in Nat /\ MaxItems \in Nat
  BY BoundsAssumption, ClockAssumption
<1>2. a * M + k = b * M + l
  BY DEF IdNumber
<1> HIDE DEF M, a, b
<1>3. ASSUME NEW p \in Nat, NEW q \in Nat, p < q
      PROVE  p * M + M <= q * M
  <2>1. PICK n \in Nat : q = p + 1 + n
    <3>1. q - p - 1 \in Nat /\ q = p + 1 + (q - p - 1)
      BY <1>3
    <3> QED
      BY <3>1
  <2>2. q * M = p * M + M + n * M
    BY <1>1, <2>1
  <2>3. n * M \in Nat /\ p * M \in Nat
    BY <1>1
  <2> QED
    BY <1>1, <2>2, <2>3
<1>4. a * M \in Nat /\ b * M \in Nat
  BY <1>1
<1>5. ~(a < b)
  <2>1. a < b => a * M + M <= b * M
    BY <1>1, <1>3
  <2> QED
    BY <1>1, <1>2, <1>4, <2>1
<1>6. ~(b < a)
  <2>1. b < a => b * M + M <= a * M
    BY <1>1, <1>3
  <2> QED
    BY <1>1, <1>2, <1>4, <2>1
<1>7. a = b
  BY <1>1, <1>5, <1>6
<1>8. k = l
  BY <1>1, <1>2, <1>4, <1>7
<1>9. d = e
  BY <1>7, UniqueIdsAssumption DEF a, b
<1> QED
  BY <1>8, <1>9

(* A step in which d creates the item f and is about to send it.           *)
LEMMA FreshStep ==
  ASSUME TypeOK, TypeOK', NetInv, NEW d \in Device, NEW f \in Item,
         \A e \in Device : ClockSkew[e] = ClockSkew[d],
         f.origin = d, IsIntact(f), f.created = now + ClockSkew[d],
         f.id = IdNumber(d, created[d] + 1),
         created' = [created EXCEPT ![d] = @ + 1], now' = now,
         created[d] < MaxItems, \A e \in Device : created[e] <= MaxItems,
         \A e \in Device : \A x \in Around : Covers(e, x) => Covers(e, x)',
         Covers(d, f)',
         \A x \in Around' : Same(x, f) \/ \E y \in Around : Same(x, y),
         \A s, e \in Device : s # e =>
           OnItsWay(s, e)' = OnItsWay(s, e) \cup (IF s = d THEN {f} ELSE {}),
         \A e \in Device : \A id \in engine'[e].seen.members :
           id \in engine[e].seen.members \/ (e = d /\ id = f.id)
  PROVE  NetInv'
<1>0. /\ \A x \in Around : Stamped(x)
      /\ \A x \in Around' : Stamped(x)
      /\ Stamped(f)
      /\ now \in Nat /\ \A e \in Device : ClockSkew[e] \in Nat /\ created[e] \in Nat
      /\ MaxItems \in Nat
  <2>1. Stamped(f)
    BY DEF Stamped, Item
  <2>2. now \in Nat /\ \A e \in Device : ClockSkew[e] \in Nat /\ created[e] \in Nat
    BY ClockAssumption DEF TypeOK
  <2> QED
    BY <2>1, <2>2, AroundStamped, StampedNext, BoundsAssumption
<1>1. (\A s, e \in Device : s # e =>
        \A i \in OnItsWay(s, e) : i.origin = s /\ IsIntact(i))'
  <2>1. ASSUME NEW s \in Device, NEW e \in Device, s # e, NEW i \in OnItsWay(s, e)'
        PROVE  i.origin = s /\ IsIntact(i)
    <3>1. i \in OnItsWay(s, e) \/ (s = d /\ i = f)
      BY <2>1
    <3>2. ASSUME i \in OnItsWay(s, e)
          PROVE  i.origin = s /\ IsIntact(i)
      BY <2>1, <3>2 DEF NetInv
    <3> QED
      BY <3>1, <3>2
  <2> QED
    BY <2>1 DEF IsIntact
<1>2. ASSUME NEW x \in Around', NEW e \in Device
      PROVE  x.created <= now' + ClockSkew[e]
  <2>1. CASE Same(x, f)
    BY <1>0, <2>1 DEF Same
  <2>2. ASSUME NEW y \in Around, Same(x, y)
        PROVE  x.created <= now' + ClockSkew[e]
    BY <2>2 DEF NetInv, Same
  <2> QED
    BY <2>1, <2>2
<1>3. OwnId(d, f.id)' /\ \A e \in Device : \A id : OwnId(e, id) => OwnId(e, id)'
  <2>1. created'[d] = created[d] + 1 /\ \A e \in Device \ {d} : created'[e] = created[e]
    BY DEF TypeOK
  <2>2. created[d] + 1 \in 1..created'[d]
    BY <1>0, <2>1
  <2>3. OwnId(d, f.id)'
    BY <2>2 DEF OwnId, IdNumber
  <2>4. \A e \in Device : 1..created[e] \subseteq 1..created'[e]
    BY <1>0, <2>1
  <2>5. \A e \in Device : \A id : OwnId(e, id) => OwnId(e, id)'
    BY <2>4 DEF OwnId, IdNumber
  <2> QED
    BY <2>3, <2>5
<1>4. ASSUME NEW e \in Device
      PROVE  ~OwnId(e, f.id)
  <2> SUFFICES ASSUME NEW k \in 1..created[e], f.id = IdNumber(e, k)
               PROVE  FALSE
    BY DEF OwnId
  <2>1. k \in 1..MaxItems /\ created[d] + 1 \in 1..MaxItems
    BY <1>0
  <2>2. d = e /\ created[d] + 1 = k
    BY <2>1, IdsDiffer
  <2> QED
    BY <1>0, <2>2
<1>5. \A y \in Around : y.id # f.id
  BY <1>4 DEF NetInv
<1>6. \A e \in Device : f.id \notin engine[e].seen.members
  BY <1>4 DEF NetInv
<1>7. \A x \in Around' : \E e \in Device : OwnId(e, x.id)'
  BY <1>3 DEF NetInv, Same
<1>8. ASSUME NEW x \in Around', NEW z \in Around', x.id = z.id
      PROVE  x.created = z.created
  <2>1. CASE Same(x, f)
    <3>1. Same(z, f)
      BY <1>5, <1>8, <2>1 DEF Same
    <3> QED
      BY <2>1, <3>1 DEF Same
  <2>2. ASSUME NEW y \in Around, Same(x, y)
        PROVE  x.created = z.created
    <3>1. ~Same(z, f)
      BY <1>5, <1>8, <2>2 DEF Same
    <3>2. PICK w \in Around : Same(z, w)
      BY <3>1
    <3>3. y.id = w.id /\ x.created = y.created /\ z.created = w.created
      BY <1>8, <2>2, <3>2 DEF Same
    <3>4. y.created = w.created
      BY <3>3 DEF NetInv
    <3> QED
      BY <3>3, <3>4
  <2> QED
    BY <2>1, <2>2
<1>9. \A e \in Device : \A id \in engine'[e].seen.members : \E o \in Device : OwnId(o, id)'
  BY <1>3 DEF NetInv
<1>10. ASSUME NEW e \in Device, NEW x \in Around', x.id \in engine'[e].seen.members
       PROVE  Covers(e, x)'
  <2>1. CASE Same(x, f)
    <3>1. e = d
      BY <1>6, <1>10, <2>1 DEF Same
    <3>2. Same(f, x)
      BY <2>1 DEF Same
    <3> QED
      BY <1>0, <3>1, <3>2, CoversSameNext
  <2>2. ASSUME NEW y \in Around, Same(x, y)
        PROVE  Covers(e, x)'
    <3>1. y.id = x.id /\ x.id # f.id
      BY <1>5, <2>2 DEF Same
    <3>2. y.id \in engine[e].seen.members
      BY <1>10, <3>1
    <3>3. Covers(e, y)'
      BY <3>2 DEF NetInv
    <3>4. Same(y, x)
      BY <2>2 DEF Same
    <3> QED
      BY <1>0, <3>3, <3>4, CoversSameNext
  <2> QED
    BY <2>1, <2>2
<1>11. ASSUME NEW e \in Device, NEW x \in Around'
       PROVE  AccountedFor(x, e)'
  <2>1. CASE Same(x, f)
    <3>1. Same(f, x)
      BY <2>1 DEF Same
    <3>2. CASE e = d
      BY <1>0, <3>1, <3>2, CoversSameNext DEF AccountedFor
    <3>3. CASE e # d
      <4>1. f \in OnItsWay(d, e)'
        BY <3>3
      <4> QED
        BY <3>1, <3>3, <4>1 DEF AccountedFor
    <3> QED
      BY <3>2, <3>3
  <2>2. ASSUME NEW y \in Around, Same(x, y)
        PROVE  AccountedFor(x, e)'
    <3>1. Same(y, x)
      BY <2>2 DEF Same
    <3>2. AccountedFor(y, e)
      BY DEF NetInv
    <3>3. CASE Covers(e, y)
      BY <1>0, <3>1, <3>3, CoversSameNext DEF AccountedFor
    <3>4. ASSUME NEW s \in Device \ {e}, NEW i \in OnItsWay(s, e), Same(i, y)
          PROVE  AccountedFor(x, e)'
      <4>1. i \in OnItsWay(s, e)' /\ Same(i, x)
        BY <3>1, <3>4 DEF Same
      <4> QED
        BY <4>1 DEF AccountedFor
    <3> QED
      BY <3>2, <3>3, <3>4 DEF AccountedFor
  <2> QED
    BY <2>1, <2>2
<1> QED
  BY <1>1, <1>2, <1>7, <1>8, <1>9, <1>10, <1>11 DEF NetInv

LEMMA RememberAdds ==
  ASSUME NEW recent \in [order: Seq(Nat), members: SUBSET Nat], NEW id
  PROVE  Remember(recent, id).members \subseteq recent.members \cup {id}
BY DEF Remember

(* What a received item may do to the memory of an engine.                 *)
LEMMA OnRemoteItemRemembers ==
  ASSUME NEW e \in Engine, NEW item \in Item
  PROVE  OnRemoteItem(e, item).seen.members \subseteq e.seen.members \cup {item.id}
<1>1. Remember(e.seen, item.id).members \subseteq e.seen.members \cup {item.id}
  BY RememberAdds DEF Engine
<1>2. Verdict(e, item) \in {"OwnItem", "Corrupt", "Duplicate", "Stale", "AlreadyOnClipboard", "Write"}
  BY DEF Verdict
<1> QED
  BY <1>1, <1>2 DEF OnRemoteItem, Engine

LEMMA OnLocalChangeRemembers ==
  ASSUME NEW e \in Engine, NEW content, NEW fresh \in Item
  PROVE  OnLocalChange(e, content, fresh).seen.members
           \subseteq e.seen.members \cup
                       (IF IsEcho(e, content) THEN {} ELSE {fresh.id})
<1>1. Remember(e.seen, fresh.id).members \subseteq e.seen.members \cup {fresh.id}
  BY RememberAdds DEF Engine
<1> QED
  BY <1>1 DEF OnLocalChange, Engine

(* A device that has judged an item another one sent stands for it or for  *)
(* something newer, unless it took it for its own or as corrupt, or had    *)
(* met it before.                                                          *)
LEMMA JudgedIsCovered ==
  ASSUME NEW e \in Engine, NEW item \in Item,
         item.origin # e.device, IsIntact(item), item.id \notin e.seen.members
  PROVE  LET new == OnRemoteItem(e, item)
         IN  \E y \in {new.current, new.pending} \ {None} : ~IsNewerThan(item, y)
<1>1. Stamped(item) /\ ~IsNewerThan(item, item)
  BY DEF Stamped, Item, IsNewerThan
<1>2. CASE Verdict(e, item) = "Stale"
  <2>1. /\ OnRemoteItem(e, item).current = e.current
        /\ e.current # None /\ IsNewerThan(e.current, item)
        /\ e.current \in Current
    BY <1>2 DEF OnRemoteItem, Verdict, Engine
  <2>2. ~IsNewerThan(item, e.current)
    BY <1>1, <2>1 DEF IsNewerThan, Stamped, Current
  <2> QED
    BY <2>1, <2>2
<1>3. CASE Verdict(e, item) = "AlreadyOnClipboard"
  <2>1. OnRemoteItem(e, item).current = CurrentOf(item)
    BY <1>3 DEF OnRemoteItem, Engine
  <2> QED
    BY <2>1, CurrentOfIsNotOlder
<1>4. CASE Verdict(e, item) = "Write"
  <2>1. OnRemoteItem(e, item).pending = item
    BY <1>4 DEF OnRemoteItem, Engine
  <2> QED
    BY <1>1, <2>1, NoneAssumption
<1>5. Verdict(e, item) \in {"Stale", "AlreadyOnClipboard", "Write"}
  BY DEF Verdict
<1> QED
  BY <1>2, <1>3, <1>4, <1>5


LEMMA NetFrame ==
  ASSUME TypeOK, TypeOK', NetInv, created' = created, now <= now',
         \A e \in Device : Held(e)' = Held(e) /\ engine'[e].seen = engine[e].seen,
         \A s, e \in Device : s # e => OnItsWay(s, e)' = OnItsWay(s, e)
  PROVE  NetInv'
<1>1. \A e \in Device : \A x \in Around : Covers(e, x) => Covers(e, x)'
  BY DEF Covers
<1>2. \A x \in Around' : x \in Around
  BY AroundMember, AroundMemberNext
<1>3. \A x \in Around' : \E y \in Around : Same(x, y)
  BY <1>2 DEF Same
<1> QED
  BY <1>1, <1>3, NetStep

LEMMA LocalFrame ==
  ASSUME TypeOK, TypeOK', NEW e \in Device, LocalInvOf(e), now <= now',
         CopyUnderway(e)' => CopyUnderway(e),
         UNCHANGED <<eventPc[e], created[e], handledAt[e],
                     engine[e].current, engine[e].pending>>
  PROVE  LocalInvOf(e)'
<1>1. CopyUnderway(e)' => now' > handledAt'[e]
  BY DEF LocalInvOf, TypeOK
<1>2. \A id : OwnId(e, id)' <=> OwnId(e, id)
  BY DEF OwnId
<1> QED
  BY <1>1, <1>2 DEF LocalInvOf

(* What LocalInvOf(e) depends on, but for the time.                        *)
LocalStateOf(e) ==
  <<eventPc[e], created[e], handledAt[e], engine[e].current, engine[e].pending,
    unchecked[e], clip[e], reporting[e]>>

LEMMA LocalSame ==
  ASSUME TypeOK, TypeOK', NEW e \in Device, LocalInvOf(e), now <= now',
         LocalStateOf(e)' = LocalStateOf(e)
  PROVE  LocalInvOf(e)'
<1>1. CopyUnderway(e)' => CopyUnderway(e)
  BY DEF LocalStateOf, CopyUnderway
<1>2. UNCHANGED <<eventPc[e], created[e], handledAt[e],
                  engine[e].current, engine[e].pending>>
  BY DEF LocalStateOf
<1> QED
  BY <1>1, <1>2, LocalFrame

ClocksAgree == \A d, e \in Device : ClockSkew[d] = ClockSkew[e]

(* A report of what the user copied makes an item that is newer than all   *)
(* its device stands for.                                                  *)
LEMMA CopyConverges ==
  ASSUME ClocksAgree, TypeOK, TypeOK', ConvergeInv, NEW d \in Device,
         ReportChange(d), ~IsEcho(engine[d], reporting[d].snapshot)
  PROVE  NetInv' /\ LocalInvOf(d)'
<1> DEFINE content == reporting[d].snapshot
<1>0. PICK f : f = FreshItem(d, content)
  OBVIOUS
<1>1. /\ reporting[d] # None /\ content \in Content /\ reporting'[d] = None
      /\ sending[d] = None /\ sending' = [sending EXCEPT ![d] = f]
      /\ created' = [created EXCEPT ![d] = @ + 1] /\ created[d] < MaxItems
      /\ engine' = [engine EXCEPT ![d] = OnLocalChange(engine[d], content, f)]
      /\ UNCHANGED <<now, clip, unchecked, eventPc, handledAt, outbox, link>>
  BY <1>0 DEF ReportChange, TypeOK, EngineUnlocked
<1>2. /\ f \in Item /\ f # None /\ engine[d] \in Engine
      /\ f.hash = Identity[content] /\ f.content = content
      /\ f.origin = d /\ f.created = now + ClockSkew[d]
      /\ f.id = IdNumber(d, created[d] + 1)
  <2>1. f.origin = d /\ f.created = now + ClockSkew[d]
    BY <1>0 DEF FreshItem, NewItem, LocalTime
  <2>2. f.id = IdRank[d] * (MaxItems + 1) + created[d] + 1
    BY <1>0 DEF FreshItem, NewItem
  <2>3. IdRank[d] * (MaxItems + 1) \in Nat /\ created[d] \in Nat
    <3>1. IdRank[d] \in Nat /\ MaxItems + 1 \in Nat /\ created[d] \in Nat
      BY ClockAssumption, BoundsAssumption DEF TypeOK
    <3>2. \A m, n \in Nat : m * n \in Nat
      OBVIOUS
    <3> QED
      BY <3>1, <3>2
  <2>4. IdNumber(d, created[d] + 1) = IdRank[d] * (MaxItems + 1) + (created[d] + 1)
    BY DEF IdNumber
  <2>5. f.id = IdNumber(d, created[d] + 1)
    BY <2>2, <2>3, <2>4
  <2>6. f \in Item /\ f.hash = Identity[content] /\ f.content = content
    BY <1>0, <1>1, FreshItemType
  <2>7. engine[d] \in Engine
    BY DEF TypeOK
  <2> QED
    BY <2>1, <2>5, <2>6, <2>7, NoneAssumption
<1>3. IsIntact(f)
  BY <1>2 DEF IsIntact, ContentHash
<1>4. /\ reporting[d] = clip[d] /\ ~unchecked[d] /\ eventPc[d] = "idle"
      /\ reporting[d].writer = None
      /\ engine[d].pending = None
  <2>1. OrderInvOf(d) /\ PromptInvOf(d)
    BY DEF ConvergeInv, OrderInv, PromptInv
  <2>2. reporting[d] = clip[d] /\ ~unchecked[d]
    BY <1>1, <2>1 DEF OrderInvOf
  <2>5. eventPc[d] = "idle"
    BY <1>1, <2>1 DEF PromptInvOf, WriteUnderway, ClipboardThreadIdle
  <2>3. reporting[d].writer = None
    BY <1>1, <2>1 DEF PromptInvOf, EchoExpected, IsEcho, ContentHash
  <2>4. engine[d].pending = None
    BY <2>1, <2>2, <2>3, <2>5 DEF OrderInvOf, NoEchoDue
  <2> QED
    BY <2>2, <2>3, <2>4, <2>5
<1>5. /\ engine'[d].pending = None /\ engine'[d].current = CurrentOf(f)
      /\ \A e \in Device \ {d} : engine'[e] = engine[e]
  <2>1. engine'[d] = OnLocalChange(engine[d], content, f)
    BY <1>1 DEF TypeOK
  <2> QED
    BY <1>1, <1>2, <2>1 DEF OnLocalChange, Engine, TypeOK
<1>6. /\ now > handledAt[d] /\ now \in Nat /\ handledAt[d] \in Nat
      /\ created[d] \in Nat /\ ClockSkew[d] \in Nat
  <2>1. now > handledAt[d]
    BY <1>1, <1>4 DEF ConvergeInv, LocalInvOf, CopyUnderway
  <2>2. now \in Nat /\ handledAt[d] \in Nat /\ created[d] \in Nat
    BY DEF TypeOK
  <2> QED
    BY <2>1, <2>2, ClockAssumption
<1>7. engine[d].current # None => ~IsNewerThan(engine[d].current, f)
  <2> SUFFICES ASSUME engine[d].current # None
               PROVE  ~IsNewerThan(engine[d].current, f)
    OBVIOUS
  <2> DEFINE c == engine[d].current
  <2>1. c \in Held(d) /\ Stamped(c) /\ Stamped(f)
    BY <1>2, HeldStamped DEF Held, Stamped, Item
  <2>2. c.created <= now + ClockSkew[d]
    BY <2>1, AroundMember DEF ConvergeInv, NetInv
  <2>3. CASE OwnId(d, c.id)
    <3>1. PICK k \in 1..created[d] : c.id = IdNumber(d, k)
      BY <2>3 DEF OwnId
    <3>2. IdNumber(d, k) < IdNumber(d, created[d] + 1)
      <4>1. IdRank[d] * (MaxItems + 1) \in Nat
        <5>1. IdRank[d] \in Nat /\ MaxItems + 1 \in Nat
          BY ClockAssumption, BoundsAssumption
        <5>2. \A m, n \in Nat : m * n \in Nat
          OBVIOUS
        <5> QED
          BY <5>1, <5>2
      <4>2. k \in Nat /\ k < created[d] + 1
        BY <1>6
      <4> QED
        BY <1>6, <4>1, <4>2 DEF IdNumber
    <3> QED
      BY <1>2, <1>6, <2>1, <2>2, <3>1, <3>2 DEF IsNewerThan, Stamped
  <2>4. CASE c.created <= handledAt[d] + ClockSkew[d]
    BY <1>2, <1>6, <2>1, <2>4 DEF IsNewerThan, Stamped
  <2> QED
    BY <2>3, <2>4 DEF ConvergeInv, LocalInvOf
<1>8. CurrentOf(f) # None /\ Same(f, CurrentOf(f)) /\ Stamped(f) /\ Stamped(CurrentOf(f))
  BY <1>2, CurrentOfIsNotOlder, CurrentOfIsSame
<1>9. Held(d)' = {CurrentOf(f)} /\ \A e \in Device \ {d} : Held(e)' = Held(e)
  BY <1>5, <1>8 DEF Held
<1>10. Covers(d, f)'
  <2>1. ~IsNewerThan(f, CurrentOf(f))
    BY <1>2, CurrentOfIsNotOlder
  <2> QED
    BY <1>9, <2>1 DEF Covers
<1>11. \A e \in Device : \A x \in Around : Covers(e, x) => Covers(e, x)'
  <2>1. ASSUME NEW x \in Around, Covers(d, x)
        PROVE  Covers(d, x)'
    <3>1. PICK y \in Held(d) : ~IsNewerThan(x, y)
      BY <2>1 DEF Covers
    <3>2. y = engine[d].current /\ y # None
      BY <1>4 DEF Held
    <3>3. ~IsNewerThan(y, f)
      BY <1>7, <3>2
    <3>4. Stamped(x) /\ Stamped(y)
      BY AroundStamped, HeldStamped
    <3>5. ~IsNewerThan(y, CurrentOf(f))
      BY <3>3 DEF IsNewerThan, CurrentOf
    <3>6. ~IsNewerThan(x, CurrentOf(f))
      BY <1>8, <3>1, <3>4, <3>5, OrderOfStamps
    <3> QED
      BY <1>9, <3>6 DEF Covers
  <2> QED
    BY <1>9, <2>1 DEF Covers
<1>12. \A s, e \in Device : s # e =>
         OnItsWay(s, e)' = OnItsWay(s, e) \cup (IF s = d THEN {f} ELSE {})
  <2>1. sending'[d] = f /\ \A s \in Device \ {d} : sending'[s] = sending[s]
    BY <1>1 DEF TypeOK
  <2> QED
    BY <1>1, <1>2, <2>1 DEF OnItsWay
<1>13. ASSUME NEW x \in Around'
       PROVE  Same(x, f) \/ \E y \in Around : Same(x, y)
  <2>1. CASE \E e \in Device : x \in Held(e)'
    <3>1. x = CurrentOf(f) \/ \E e \in Device : x \in Held(e)
      BY <1>9, <2>1
    <3> QED
      BY <1>8, <3>1, AroundMember DEF Same
  <2>2. CASE \E s, e \in Device : s # e /\ x \in OnItsWay(s, e)'
    <3>1. x = f \/ \E s, e \in Device : s # e /\ x \in OnItsWay(s, e)
      BY <1>12, <2>2
    <3> QED
      BY <3>1, AroundMember DEF Same
  <2> QED
    BY <2>1, <2>2, AroundMemberNext
<1>14. \A e \in Device : \A id \in engine'[e].seen.members :
         id \in engine[e].seen.members \/ (e = d /\ id = f.id)
  <2>1. engine'[d] = OnLocalChange(engine[d], content, f)
    BY <1>1 DEF TypeOK
  <2> QED
    BY <1>2, <1>5, <2>1, OnLocalChangeRemembers
<1>15. NetInv'
  <2>1. \A e \in Device : ClockSkew[e] = ClockSkew[d]
    BY DEF ClocksAgree
  <2>2. NetInv /\ \A e \in Device : created[e] <= MaxItems
    BY DEF ConvergeInv, LocalInvOf
  <2>3. \A x \in Around' : Same(x, f) \/ \E y \in Around : Same(x, y)
    BY <1>13
  <2>4. created' = [created EXCEPT ![d] = @ + 1] /\ created[d] < MaxItems /\ now' = now
    BY <1>1
  <2> HIDE DEF content
  <2> QED
    BY <1>2, <1>3, <1>10, <1>11, <1>12, <1>14, <2>1, <2>2, <2>3, <2>4, FreshStep
<1>16. LocalInvOf(d)'
  <2>1. created'[d] = created[d] + 1 /\ MaxItems \in Nat
    BY <1>1, BoundsAssumption DEF TypeOK
  <2>2. OwnId(d, engine[d].current.id)'
    <3>1. engine'[d].current.id = IdNumber(d, created[d] + 1)
      BY <1>2, <1>5 DEF CurrentOf
    <3>2. created[d] + 1 \in 1..created'[d]
      BY <1>6, <2>1
    <3> QED
      BY <3>1, <3>2 DEF OwnId, IdNumber
  <2>3. ~CopyUnderway(d)'
    BY <1>1, <1>4 DEF CopyUnderway
  <2>4. created'[d] <= MaxItems
    BY <1>1, <1>6, <2>1
  <2> QED
    BY <1>1, <1>4, <1>5, <2>2, <2>3, <2>4 DEF LocalInvOf
<1> QED
  BY <1>15, <1>16


(* The echo of a write only gives the written item its place.              *)
LEMMA EchoConverges ==
  ASSUME TypeOK, TypeOK', ConvergeInv, NEW d \in Device,
         ReportChange(d), IsEcho(engine[d], reporting[d].snapshot)
  PROVE  NetInv' /\ LocalInvOf(d)'
<1>0. PICK p : p = engine[d].pending
  OBVIOUS
<1>1. /\ reporting'[d] = None /\ sending[d] = None /\ sending' = sending
      /\ created' = created
      /\ engine' = [engine EXCEPT ![d] =
           OnLocalChange(engine[d], reporting[d].snapshot,
                         FreshItem(d, reporting[d].snapshot))]
      /\ UNCHANGED <<now, clip, unchecked, eventPc, handledAt, outbox, link>>
  BY DEF ReportChange, TypeOK, EngineUnlocked
<1>2. p \in Item /\ p # None /\ engine[d] \in Engine /\ p \in Held(d)
  BY <1>0, NoneAssumption DEF IsEcho, TypeOK, Engine, Held
<1>3. /\ engine'[d].pending = None /\ engine'[d].current = CurrentOf(p)
      /\ engine'[d].seen = engine[d].seen
      /\ \A e \in Device \ {d} : engine'[e] = engine[e]
  BY <1>0, <1>1, <1>2 DEF OnLocalChange, Engine, TypeOK
<1>4. /\ CurrentOf(p) # None /\ Same(p, CurrentOf(p))
      /\ Stamped(p) /\ Stamped(CurrentOf(p)) /\ ~IsNewerThan(p, CurrentOf(p))
  BY <1>2, CurrentOfIsNotOlder, CurrentOfIsSame
<1>5. Held(d)' = {CurrentOf(p)} /\ \A e \in Device \ {d} : Held(e)' = Held(e)
  BY <1>3, <1>4 DEF Held
<1>6. \A e \in Device : \A x \in Around : Covers(e, x) => Covers(e, x)'
  <2>1. ASSUME NEW x \in Around, Covers(d, x)
        PROVE  Covers(d, x)'
    <3>1. PICK y \in Held(d) : ~IsNewerThan(x, y)
      BY <2>1 DEF Covers
    <3>2. ~IsNewerThan(y, p)
      <4>1. CASE y = p
        BY <1>4, <4>1 DEF IsNewerThan, Stamped
      <4>2. CASE y # p
        <5>1. y = engine[d].current /\ y # None
          BY <1>0, <4>2 DEF Held
        <5> QED
          BY <1>0, <1>2, <5>1 DEF ConvergeInv, LocalInvOf
      <4> QED
        BY <4>1, <4>2
    <3>3. Stamped(x) /\ Stamped(y)
      BY AroundStamped, HeldStamped
    <3>4. ~IsNewerThan(x, p)
      BY <1>4, <3>1, <3>2, <3>3, OrderOfStamps
    <3>5. ~IsNewerThan(x, CurrentOf(p))
      BY <3>4 DEF IsNewerThan, CurrentOf
    <3> QED
      BY <1>5, <3>5 DEF Covers
  <2> QED
    BY <1>5, <2>1 DEF Covers
<1>7. \A s, e \in Device : OnItsWay(s, e)' = OnItsWay(s, e)
  BY <1>1 DEF OnItsWay
<1>8. ASSUME NEW x \in Around'
      PROVE  \E y \in Around : Same(x, y)
  <2>1. CASE \E e \in Device : x \in Held(e)'
    <3>1. x = CurrentOf(p) \/ \E e \in Device : x \in Held(e)
      BY <1>5, <2>1
    <3>2. p \in Around
      BY <1>2, AroundMember
    <3> QED
      BY <1>4, <3>1, <3>2, AroundMember DEF Same
  <2>2. CASE \E s, e \in Device : s # e /\ x \in OnItsWay(s, e)'
    BY <1>7, <2>2, AroundMember DEF Same
  <2> QED
    BY <2>1, <2>2, AroundMemberNext
<1>9. NetInv'
  <2>1. NetInv /\ now <= now'
    BY <1>1 DEF ConvergeInv, TypeOK
  <2>2. \A e \in Device : engine'[e].seen = engine[e].seen
    BY <1>3
  <2> QED
    BY <1>1, <1>6, <1>7, <1>8, <2>1, <2>2, NetStep
<1>10. LocalInvOf(d)'
  <2>1. LocalInvOf(d) /\ PromptInvOf(d)
    BY DEF ConvergeInv, OrderInv, PromptInv
  <2>2. ~unchecked'[d]
    BY <1>1, <2>1 DEF PromptInvOf, ClipboardThreadIdle, ReportChange
  <2>3. ~CopyUnderway(d)'
    BY <1>1, <2>2 DEF CopyUnderway
  <2>4. engine'[d].current.created <= handledAt'[d] + ClockSkew[d]
    BY <1>0, <1>1, <1>2, <1>3, <2>1 DEF LocalInvOf, CurrentOf
  <2> QED
    BY <1>1, <1>3, <2>1, <2>3, <2>4 DEF LocalInvOf
<1> QED
  BY <1>9, <1>10

LEMMA HeadAndTail ==
  ASSUME NEW S, NEW q \in Seq(S), q # <<>>
  PROVE  QueuedIn(q) = {Head(q)} \cup QueuedIn(Tail(q))
<1> DEFINE rest == Tail(q)
<1>1. /\ Len(q) \in Nat /\ Len(q) > 0 /\ Len(rest) = Len(q) - 1
      /\ Head(q) = q[1]
      /\ \A k \in 1..Len(rest) : rest[k] = q[k + 1]
  OBVIOUS
<1> HIDE DEF rest
<1>2. ASSUME NEW x \in QueuedIn(q)
      PROVE  x \in {Head(q)} \cup QueuedIn(rest)
  <2>1. PICK k \in 1..Len(q) : x = q[k]
    BY DEF QueuedIn
  <2>2. CASE k = 1
    BY <1>1, <2>1, <2>2
  <2>3. CASE k # 1
    <3>1. k - 1 \in 1..Len(rest) /\ rest[k - 1] = q[(k - 1) + 1] /\ (k - 1) + 1 = k
      BY <1>1, <2>3
    <3> QED
      BY <2>1, <3>1 DEF QueuedIn
  <2> QED
    BY <2>2, <2>3
<1>3. QueuedIn(rest) \subseteq QueuedIn(q)
  <2>1. \A k \in 1..Len(rest) : k + 1 \in 1..Len(q)
    BY <1>1
  <2> QED
    BY <1>1, <2>1 DEF QueuedIn
<1>4. Head(q) \in QueuedIn(q)
  <2>1. 1 \in 1..Len(q)
    BY <1>1
  <2> QED
    BY <1>1, <2>1 DEF QueuedIn
<1> QED
  BY <1>2, <1>3, <1>4 DEF rest

LEMMA AppendQueues ==
  ASSUME NEW S, NEW q \in Seq(S), NEW x \in S
  PROVE  QueuedIn(Append(q, x)) = QueuedIn(q) \cup {x}
<1> DEFINE more == Append(q, x)
<1>1. /\ Len(q) \in Nat /\ Len(more) = Len(q) + 1 /\ more[Len(q) + 1] = x
      /\ \A k \in 1..Len(q) : more[k] = q[k]
  OBVIOUS
<1> HIDE DEF more
<1>2. 1..Len(more) = 1..Len(q) \cup {Len(q) + 1}
  BY <1>1
<1>3. QueuedIn(more) \subseteq QueuedIn(q) \cup {x}
  BY <1>1, <1>2 DEF QueuedIn
<1>4. QueuedIn(q) \cup {x} \subseteq QueuedIn(more)
  BY <1>1, <1>2 DEF QueuedIn
<1> QED
  BY <1>3, <1>4 DEF more

(* A received item leaves the link when its device stands for it.          *)
LEMMA ReceiveConverges ==
  ASSUME PromptWatcher, ClocksAgree, TypeOK, TypeOK', ConvergeInv,
         NEW d \in Device, NEW s \in Device, ReceiveItem(s, d)
  PROVE  NetInv' /\ LocalInvOf(d)' /\ link'[<<d, d>>] = <<>>
<1>0. PICK item : item = Head(link[<<s, d>>])
  OBVIOUS
<1> DEFINE apply == Verdict(engine[d], item) = "Write"
<1>1. /\ s # d /\ link[<<s, d>>] # <<>> /\ Settled(d)
      /\ engine' = [engine EXCEPT ![d] = OnRemoteItem(engine[d], item)]
      /\ eventPc'[d] = IF apply THEN "writing" ELSE "idle"
      /\ handledAt'[d] = now
      /\ link' = [link EXCEPT ![<<s, d>>] = Tail(link[<<s, d>>])]
      /\ UNCHANGED <<now, clip, unchecked, reporting, sending, outbox, created>>
  BY <1>0 DEF ReceiveItem, TypeOK, ConvergeInv, Wired
<1>2. /\ link[<<s, d>>] \in Seq(Item) /\ item \in Item /\ item # None
      /\ engine[d] \in Engine /\ engine[d].device = d
  <2>1. /\ link[<<s, d>>] \in Seq(Item)
        /\ engine[d] \in Engine /\ engine[d].device = d
    BY DEF TypeOK
  <2>2. item \in Item
    BY <1>0, <1>1, <2>1
  <2> QED
    BY <2>1, <2>2, NoneAssumption
<1>3. /\ OnItsWay(s, d) = OnItsWay(s, d)' \cup {item}
      /\ \A o, e \in Device : <<o, e>> # <<s, d>> => OnItsWay(o, e)' = OnItsWay(o, e)
  <2>1. QueuedIn(link[<<s, d>>]) = {item} \cup QueuedIn(link'[<<s, d>>])
    <3>1. link'[<<s, d>>] = Tail(link[<<s, d>>])
      BY <1>1 DEF TypeOK
    <3> QED
      BY <1>0, <1>1, <1>2, <3>1, HeadAndTail
  <2>2. OnItsWay(s, d) = OnItsWay(s, d)' \cup {item}
    BY <1>1, <2>1 DEF OnItsWay
  <2>3. ASSUME NEW o \in Device, NEW e \in Device, <<o, e>> # <<s, d>>
        PROVE  OnItsWay(o, e)' = OnItsWay(o, e)
    <3>1. link'[<<o, e>>] = link[<<o, e>>]
      BY <1>1, <2>3 DEF TypeOK
    <3> QED
      BY <1>1, <3>1 DEF OnItsWay
  <2> QED
    BY <2>2, <2>3
<1>4. /\ item \in OnItsWay(s, d) /\ item \in Around
      /\ item.origin = s /\ IsIntact(item)
      /\ \A e \in Device : item.created <= now + ClockSkew[e]
  <2>1. item \in OnItsWay(s, d) /\ item \in Around
    BY <1>1, <1>3, AroundMember
  <2>2. item.origin = s /\ IsIntact(item)
    BY <1>1, <2>1 DEF ConvergeInv, NetInv
  <2> QED
    BY <2>1, <2>2 DEF ConvergeInv, NetInv
<1>5. /\ engine'[d] = OnRemoteItem(engine[d], item)
      /\ \A e \in Device \ {d} : engine'[e] = engine[e]
  BY <1>1 DEF TypeOK
<1>6. engine[d].pending = None
  BY <1>1 DEF ConvergeInv, OrderInv, OrderInvOf, NoEchoDue, Settled, Underway, ClipboardThreadIdle
<1>7. \/ engine'[d].current = engine[d].current /\ engine'[d].pending = None
      \/ /\ engine[d].current # None /\ ~IsNewerThan(engine[d].current, item)
         /\ engine'[d].current = CurrentOf(item) /\ engine'[d].pending = None
      \/ /\ engine[d].current # None => ~IsNewerThan(engine[d].current, item)
         /\ engine'[d].current = engine[d].current /\ engine'[d].pending = item
  BY <1>2, <1>5, <1>6, OnRemoteItemEffect
<1>8. /\ CurrentOf(item) # None /\ Same(item, CurrentOf(item))
      /\ Stamped(item) /\ Stamped(CurrentOf(item)) /\ ~IsNewerThan(item, CurrentOf(item))
  BY <1>2, CurrentOfIsNotOlder, CurrentOfIsSame
<1>9. \A e \in Device \ {d} : Held(e)' = Held(e) /\ engine'[e].seen = engine[e].seen
  BY <1>5 DEF Held
<1>10. \A e \in Device : \A x \in Around : Covers(e, x) => Covers(e, x)'
  <2>1. ASSUME NEW x \in Around, Covers(d, x)
        PROVE  Covers(d, x)'
    <3>1. PICK y \in Held(d) : ~IsNewerThan(x, y)
      BY <2>1 DEF Covers
    <3>2. y = engine[d].current /\ y # None
      BY <1>6 DEF Held
    <3>3. CASE engine'[d].current = engine[d].current
      BY <3>1, <3>2, <3>3 DEF Covers, Held
    <3>4. CASE engine'[d].current # engine[d].current
      <4>1. ~IsNewerThan(y, item) /\ engine'[d].current = CurrentOf(item)
        BY <1>7, <3>2, <3>4
      <4>2. Stamped(x) /\ Stamped(y)
        BY AroundStamped, HeldStamped
      <4>3. ~IsNewerThan(x, item)
        BY <1>8, <3>1, <4>1, <4>2, OrderOfStamps
      <4>4. ~IsNewerThan(x, CurrentOf(item))
        BY <4>3 DEF IsNewerThan, CurrentOf
      <4> QED
        BY <1>8, <4>1, <4>4 DEF Covers, Held
    <3> QED
      BY <3>3, <3>4
  <2> QED
    BY <1>9, <2>1 DEF Covers
<1>11. Covers(d, item)'
  <2>1. CASE item.id \in engine[d].seen.members
    <3>1. Covers(d, item)
      BY <1>4, <2>1 DEF ConvergeInv, NetInv
    <3> QED
      BY <1>4, <1>10, <3>1
  <2>2. CASE item.id \notin engine[d].seen.members
    <3>1. \E y \in {engine'[d].current, engine'[d].pending} \ {None} : ~IsNewerThan(item, y)
      BY <1>1, <1>2, <1>4, <1>5, <2>2, JudgedIsCovered
    <3> QED
      BY <3>1 DEF Covers, Held
  <2> QED
    BY <2>1, <2>2
<1>12. ASSUME NEW x \in Around'
       PROVE  \E y \in Around : Same(x, y)
  <2>1. CASE \E e \in Device : x \in Held(e)'
    <3>1. \/ x \in {item, CurrentOf(item)}
          \/ \E e \in Device : x \in Held(e)
      <4>1. ASSUME x \in Held(d)'
            PROVE  x \in {item, CurrentOf(item)} \/ x \in Held(d)
        BY <1>7, <4>1 DEF Held
      <4> QED
        BY <1>9, <2>1, <4>1
    <3> QED
      BY <1>4, <1>8, <3>1, AroundMember DEF Same
  <2>2. CASE \E o, e \in Device : o # e /\ x \in OnItsWay(o, e)'
    <3>1. \E o, e \in Device : o # e /\ x \in OnItsWay(o, e)
      BY <1>3, <2>2
    <3> QED
      BY <3>1, AroundMember DEF Same
  <2> QED
    BY <2>1, <2>2, AroundMemberNext
<1>13. \A o, e \in Device : o # e =>
         /\ OnItsWay(o, e)' \subseteq OnItsWay(o, e)
         /\ \A i \in OnItsWay(o, e) : i \in OnItsWay(o, e)' \/ Covers(e, i)'
  <2>1. /\ OnItsWay(s, d)' \subseteq OnItsWay(s, d)
        /\ \A i \in OnItsWay(s, d) : i \in OnItsWay(s, d)' \/ Covers(d, i)'
    BY <1>3, <1>11
  <2>2. ASSUME NEW o \in Device, NEW e \in Device, ~(o = s /\ e = d)
        PROVE  OnItsWay(o, e)' = OnItsWay(o, e)
    BY <1>3, <2>2
  <2> QED
    BY <2>1, <2>2
<1>14. \A e \in Device : \A id \in engine'[e].seen.members :
         \/ id \in engine[e].seen.members
         \/ \E y \in Around : y.id = id /\ Covers(e, y)'
  <2>1. \A id \in engine'[d].seen.members : id \in engine[d].seen.members \/ id = item.id
    BY <1>2, <1>5, OnRemoteItemRemembers
  <2> QED
    BY <1>4, <1>9, <1>11, <2>1
<1>15. NetInv'
  <2>1. NetInv /\ now <= now' /\ created' = created
    BY <1>1 DEF ConvergeInv, TypeOK
  <2> QED
    BY <1>10, <1>12, <1>13, <1>14, <2>1, NetStep
<1>16. LocalInvOf(d)'
  <2>1. LocalInvOf(d)
    BY DEF ConvergeInv
  <2>2. ~CopyUnderway(d)'
    BY <1>1 DEF CopyUnderway, Settled, ClipboardThreadIdle
  <2>3. engine'[d].current # None =>
          engine'[d].current.created <= handledAt'[d] + ClockSkew[d]
    <3>1. engine[d].current # None => engine[d].current.created <= now + ClockSkew[d]
      <4>1. engine[d].current # None => engine[d].current \in Around
        BY AroundMember DEF Held
      <4> QED
        BY <4>1 DEF ConvergeInv, NetInv
    <3>2. CurrentOf(item).created = item.created
      BY DEF CurrentOf
    <3> QED
      BY <1>1, <1>4, <1>7, <3>1, <3>2
  <2>4. engine'[d].pending # None =>
          /\ engine'[d].pending.created <= handledAt'[d] + ClockSkew[d]
          /\ engine'[d].current # None => ~IsNewerThan(engine'[d].current, engine'[d].pending)
    BY <1>1, <1>4, <1>7
  <2>5. eventPc'[d] # "failed" /\ created'[d] <= MaxItems
    BY <1>1, <2>1 DEF LocalInvOf
  <2> QED
    BY <2>2, <2>3, <2>4, <2>5 DEF LocalInvOf
<1>17. link'[<<d, d>>] = <<>>
  BY <1>1 DEF ConvergeInv, Wired, TypeOK
<1> QED
  BY <1>15, <1>16, <1>17


(* Encoding and sending move an item from one place on its way to another. *)
LEMMA SendingKeepsItems ==
  ASSUME TicksPerMs = 1, TypeOK, TypeOK', Wired, NEW d \in Device,
         NEW item \in outbox[d], SendToAll(d, item)
  PROVE  /\ \A s, e \in Device : s # e => OnItsWay(s, e)' = OnItsWay(s, e)
         /\ \A e \in Device : link'[<<e, e>>] = <<>>
<1>1. item \in Item /\ OnTheWire(item) = item
  <2>1. item \in Item
    BY DEF TypeOK
  <2>2. item.created \in Nat
    BY <2>1 DEF Item
  <2>3. (item.created \div 1) * 1 = item.created
    BY <2>2
  <2>4. OnTheWire(item) = [item EXCEPT !.created = item.created]
    BY <2>3 DEF OnTheWire
  <2> QED
    BY <2>1, <2>4 DEF Item
<1>2. /\ outbox'[d] = outbox[d] \ {item}
      /\ \A s \in Device \ {d} : outbox'[s] = outbox[s]
      /\ sending' = sending
  BY DEF SendToAll, threadVars, TypeOK
<1>3. ASSUME NEW s \in Device, NEW e \in Device
      PROVE  link'[<<s, e>>] = IF s = d /\ s # e THEN Append(link[<<s, e>>], item)
                               ELSE link[<<s, e>>]
  <2>1. link'[<<s, e>>] = IF s = d /\ {d, e} \in connected
                          THEN Append(link[<<s, e>>], item) ELSE link[<<s, e>>]
    BY <1>1 DEF SendToAll
  <2>2. {d, e} \in connected <=> d # e
    <3>1. connected = Pairs
      BY DEF Wired
    <3>2. d # e => {d, e} \in Pairs
      BY DEF Pairs
    <3>3. {d, e} \in Pairs => d # e
      BY DEF Pairs
    <3> QED
      BY <3>1, <3>2, <3>3
  <2> QED
    BY <2>1, <2>2
<1>4. ASSUME NEW s \in Device, NEW e \in Device, s # e
      PROVE  OnItsWay(s, e)' = OnItsWay(s, e)
  <2>1. CASE s = d
    <3>1. link[<<d, e>>] \in Seq(Item)
      BY DEF TypeOK
    <3>2. QueuedIn(link'[<<d, e>>]) = QueuedIn(link[<<d, e>>]) \cup {item}
      BY <1>1, <1>3, <1>4, <2>1, <3>1, AppendQueues
    <3> QED
      BY <1>2, <2>1, <3>2 DEF OnItsWay
  <2>2. CASE s # d
    BY <1>2, <1>3, <2>2 DEF OnItsWay
  <2> QED
    BY <2>1, <2>2
<1>5. \A e \in Device : link'[<<e, e>>] = <<>>
  BY <1>3 DEF Wired
<1> QED
  BY <1>4, <1>5

LEMMA ConvergeStep ==
  ASSUME PromptWatcher, ClocksAgree, TicksPerMs = 1
  PROVE  ConvergeInv /\ NothingFailed /\ [Next]_vars /\ NothingFailed' => ConvergeInv'
<1> SUFFICES ASSUME ConvergeInv, NothingFailed, [Next]_vars, NothingFailed'
             PROVE  ConvergeInv'
  OBVIOUS
<1>1. /\ OrderInv /\ TypeOK /\ NetInv /\ Wired
      /\ \A e \in Device : LocalInvOf(e) /\ OrderInvOf(e) /\ PromptInvOf(e)
  BY DEF ConvergeInv, OrderInv, PromptInv
<1>2. NoRestart
  BY DEF NoRestart, Restart, NothingFailed
<1>3. OrderInv' /\ TypeOK'
  <2>1. OrderInv'
    BY <1>1, <1>2, OrderKept
  <2> QED
    BY <1>1, <2>1, NextType
<1>4. SUFFICES NetInv' /\ Wired' /\ \A e \in Device : LocalInvOf(e)'
  BY <1>3 DEF ConvergeInv
<1>5. ASSUME created' = created, now <= now',
             \A e \in Device : Held(e)' = Held(e) /\ engine'[e].seen = engine[e].seen,
             \A s, e \in Device : s # e => OnItsWay(s, e)' = OnItsWay(s, e)
      PROVE  NetInv'
  BY <1>1, <1>3, <1>5, NetFrame
<1>6. ASSUME NEW d \in Device, LocalInvOf(d)', now <= now',
             \A e \in Device \ {d} : LocalStateOf(e)' = LocalStateOf(e)
      PROVE  \A e \in Device : LocalInvOf(e)'
  BY <1>1, <1>3, <1>6, LocalSame
<1>7. ASSUME now <= now', \A e \in Device : LocalStateOf(e)' = LocalStateOf(e)
      PROVE  \A e \in Device : LocalInvOf(e)'
  BY <1>1, <1>3, <1>7, LocalSame
<1>8. ASSUME UNCHANGED <<engine, sending, outbox, link>>
      PROVE  /\ \A e \in Device : Held(e)' = Held(e) /\ engine'[e].seen = engine[e].seen
             /\ \A s, e \in Device : s # e => OnItsWay(s, e)' = OnItsWay(s, e)
  BY <1>8 DEF Held, OnItsWay
<1>9. now \in Nat
  BY <1>1 DEF TypeOK
<1>10. CASE Tick
  <2>1. /\ UNCHANGED <<engine, sending, outbox, link, connected, created>>
        /\ now <= now'
        /\ \A e \in Device : LocalStateOf(e)' = LocalStateOf(e)
    BY <1>9, <1>10 DEF Tick, threadVars, LocalStateOf
  <2> QED
    BY <1>1, <1>5, <1>7, <1>8, <2>1 DEF Wired
<1>11. ASSUME NEW d \in Device, NEW snapshot \in Snapshot, UserCopy(d, snapshot)
       PROVE  NetInv' /\ Wired' /\ \A e \in Device : LocalInvOf(e)'
  <2>1. /\ UNCHANGED <<now, engine, sending, outbox, link, connected, created,
                        eventPc, handledAt>>
        /\ now > handledAt[d] /\ now <= now'
    BY <1>9, <1>11 DEF UserCopy, threadVars
  <2>2. LocalInvOf(d)'
    <3>1. OwnId(d, engine[d].current.id)' <=> OwnId(d, engine[d].current.id)
      BY <2>1 DEF OwnId
    <3> QED
      BY <1>1, <2>1, <3>1 DEF LocalInvOf
  <2>3. \A e \in Device \ {d} : LocalStateOf(e)' = LocalStateOf(e)
    BY <1>1, <1>11 DEF UserCopy, LocalStateOf, threadVars, TypeOK
  <2> QED
    BY <1>1, <1>5, <1>6, <1>8, <2>1, <2>2, <2>3 DEF Wired
<1>12. ASSUME NEW d \in Device, Check(d)
       PROVE  NetInv' /\ Wired' /\ \A e \in Device : LocalInvOf(e)'
  <2>1. /\ UNCHANGED <<now, clip, engine, sending, outbox, link, connected, created,
                        eventPc, handledAt>>
        /\ now <= now' /\ unchecked'[d] = FALSE /\ unchecked[d] \in BOOLEAN
        /\ reporting'[d] = IF IsChange(last[d], clip[d].snapshot) /\ clip[d].snapshot \in Content
                           THEN clip[d] ELSE None
    BY <1>1, <1>9, <1>12 DEF Check, TypeOK
  <2>2. reporting'[d] # None =>
          reporting'[d] = clip[d] /\ clip[d].snapshot \in Content /\ unchecked[d]
    BY <1>1, <2>1 DEF PromptInvOf, IsChange
  <2>3. CopyUnderway(d)' => CopyUnderway(d)
    BY <2>1, <2>2 DEF CopyUnderway
  <2>4. LocalInvOf(d)'
    BY <1>1, <1>3, <2>1, <2>3, LocalFrame
  <2>5. \A e \in Device \ {d} : LocalStateOf(e)' = LocalStateOf(e)
    BY <1>1, <1>12 DEF Check, LocalStateOf, TypeOK
  <2> QED
    BY <1>1, <1>5, <1>6, <1>8, <2>1, <2>4, <2>5 DEF Wired
<1>13. ASSUME NEW d \in Device, ReportChange(d)
       PROVE  NetInv' /\ Wired' /\ \A e \in Device : LocalInvOf(e)'
  <2>1. NetInv' /\ LocalInvOf(d)'
    <3>1. CASE IsEcho(engine[d], reporting[d].snapshot)
      BY <1>1, <1>3, <1>13, <3>1, EchoConverges
    <3>2. CASE ~IsEcho(engine[d], reporting[d].snapshot)
      BY <1>1, <1>3, <1>13, <3>2, CopyConverges
    <3> QED
      BY <3>1, <3>2
  <2>2. \A e \in Device \ {d} : LocalStateOf(e)' = LocalStateOf(e)
    BY <1>1, <1>13 DEF ReportChange, LocalStateOf, TypeOK
  <2>3. now <= now' /\ UNCHANGED <<connected, link>>
    BY <1>9, <1>13 DEF ReportChange
  <2> QED
    BY <1>1, <1>6, <2>1, <2>2, <2>3 DEF Wired
<1>14. ASSUME NEW d \in Device, Broadcast(d)
       PROVE  NetInv' /\ Wired' /\ \A e \in Device : LocalInvOf(e)'
  <2>1. /\ sending[d] # None /\ sending'[d] = None
        /\ outbox'[d] = outbox[d] \cup {sending[d]}
        /\ \A e \in Device \ {d} : sending'[e] = sending[e] /\ outbox'[e] = outbox[e]
        /\ UNCHANGED <<now, engine, link, connected, created>>
    BY <1>1, <1>14 DEF Broadcast, TypeOK
  <2>2. \A s, e \in Device : OnItsWay(s, e)' = OnItsWay(s, e)
    BY <2>1 DEF OnItsWay
  <2>3. \A e \in Device : Held(e)' = Held(e) /\ engine'[e].seen = engine[e].seen
    BY <2>1 DEF Held
  <2>4. now <= now' /\ \A e \in Device : LocalStateOf(e)' = LocalStateOf(e)
    BY <1>9, <1>14 DEF Broadcast, LocalStateOf
  <2> QED
    BY <1>1, <1>5, <1>7, <2>1, <2>2, <2>3, <2>4 DEF Wired
<1>15. ASSUME NEW d \in Device, NEW item \in outbox[d], SendToAll(d, item)
       PROVE  NetInv' /\ Wired' /\ \A e \in Device : LocalInvOf(e)'
  <2>1. UNCHANGED <<now, engine, connected, created>>
    BY <1>15 DEF SendToAll, threadVars
  <2>2. /\ \A s, e \in Device : s # e => OnItsWay(s, e)' = OnItsWay(s, e)
        /\ \A e \in Device : link'[<<e, e>>] = <<>>
    BY <1>1, <1>3, <1>15, SendingKeepsItems
  <2>3. \A e \in Device : Held(e)' = Held(e) /\ engine'[e].seen = engine[e].seen
    BY <2>1 DEF Held
  <2>4. now <= now' /\ \A e \in Device : LocalStateOf(e)' = LocalStateOf(e)
    BY <1>9, <1>15 DEF SendToAll, threadVars, LocalStateOf
  <2> QED
    BY <1>1, <1>5, <1>7, <2>1, <2>2, <2>3, <2>4 DEF Wired
<1>16. ASSUME NEW d \in Device, NEW s \in Device, ReceiveItem(s, d)
       PROVE  NetInv' /\ Wired' /\ \A e \in Device : LocalInvOf(e)'
  <2>1. NetInv' /\ LocalInvOf(d)'
    BY <1>1, <1>3, <1>16, ReceiveConverges
  <2>2. \A e \in Device \ {d} : LocalStateOf(e)' = LocalStateOf(e)
    BY <1>1, <1>16 DEF ReceiveItem, LocalStateOf, TypeOK
  <2>3. now <= now' /\ connected' = connected
    BY <1>9, <1>16 DEF ReceiveItem
  <2>4. \A e \in Device : link'[<<e, e>>] = <<>>
    <3>1. \A e \in Device \ {d} : link'[<<e, e>>] = link[<<e, e>>]
      BY <1>1, <1>16 DEF ReceiveItem, TypeOK
    <3>2. link'[<<d, d>>] = <<>>
      BY <1>1, <1>3, <1>16, ReceiveConverges
    <3> QED
      BY <1>1, <3>1, <3>2 DEF Wired
  <2> QED
    BY <1>1, <1>6, <2>1, <2>2, <2>3, <2>4 DEF Wired
<1>17. ASSUME NEW d \in Device, WriteClipboard(d)
       PROVE  NetInv' /\ Wired' /\ \A e \in Device : LocalInvOf(e)'
  <2>1. /\ UNCHANGED <<now, engine, sending, outbox, link, connected, created,
                        handledAt, reporting>>
        /\ now <= now' /\ eventPc'[d] = "idle" /\ eventPc[d] = "writing"
        /\ clip'[d].writer = applying[d] /\ applying[d] # None
        /\ reporting[d] = None
    BY <1>1, <1>9, <1>17, NoneAssumption
       DEF WriteClipboard, TypeOK, ClipboardThreadIdle
  <2>2. ~CopyUnderway(d)'
    BY <2>1 DEF CopyUnderway
  <2>3. LocalInvOf(d)'
    <3>1. OwnId(d, engine[d].current.id)' <=> OwnId(d, engine[d].current.id)
      BY <2>1 DEF OwnId
    <3> QED
      BY <1>1, <2>1, <2>2, <3>1 DEF LocalInvOf
  <2>4. \A e \in Device \ {d} : LocalStateOf(e)' = LocalStateOf(e)
    BY <1>1, <1>17 DEF WriteClipboard, LocalStateOf, TypeOK
  <2> QED
    BY <1>1, <1>5, <1>6, <1>8, <2>1, <2>3, <2>4 DEF Wired
<1>18. ASSUME NEW d \in Device, WriteFails(d)
       PROVE  FALSE
  BY <1>18 DEF WriteFails, NothingFailed
<1>19. ASSUME NEW d \in Device, AbandonWrite(d)
       PROVE  FALSE
  BY <1>1, <1>19 DEF AbandonWrite, LocalInvOf
<1>20. ASSUME NEW d \in Device, NEW left \in Snapshot, Restart(d, left)
       PROVE  FALSE
  BY <1>2, <1>20 DEF NoRestart
<1>21. ASSUME NEW a \in Device, NEW b \in Device, Disconnect(a, b)
       PROVE  FALSE
  BY <1>21 DEF Disconnect, NothingFailed
<1>22. ASSUME NEW pair \in Pairs, Connect(pair)
       PROVE  FALSE
  BY <1>1, <1>22 DEF Connect, Wired
<1>23. CASE UNCHANGED vars
  <2>1. /\ UNCHANGED <<now, engine, sending, outbox, link, connected, created>>
        /\ now <= now'
        /\ \A e \in Device : LocalStateOf(e)' = LocalStateOf(e)
    BY <1>9, <1>23 DEF vars, threadVars, LocalStateOf
  <2> QED
    BY <1>1, <1>5, <1>7, <1>8, <2>1 DEF Wired
<1> QED
  BY <1>10, <1>11, <1>12, <1>13, <1>14, <1>15, <1>16, <1>17, <1>18, <1>19,
     <1>20, <1>21, <1>22, <1>23 DEF Next

LEMMA ConvergeInit ==
  ASSUME StartSnapshots \cap Content = {}
  PROVE  Init => ConvergeInv
<1> SUFFICES ASSUME Init PROVE ConvergeInv
  OBVIOUS
<1>1. OrderInv
  BY OrderInit
<1>2. \A d \in Device : Held(d) = {} /\ engine[d].seen.members = {}
  BY DEF Init, Held, NewEngine, EmptyRecentSet
<1>3. \A s, e \in Device : OnItsWay(s, e) = {}
  <2>1. QueuedIn(<<>>) = {}
    <3>1. Len(<<>>) = 0 /\ 1..0 = {}
      OBVIOUS
    <3> QED
      BY <3>1 DEF QueuedIn
  <2>2. \A s, e \in Device : sending[s] = None /\ outbox[s] = {} /\ link[<<s, e>>] = <<>>
    BY DEF Init
  <2> QED
    BY <2>1, <2>2 DEF OnItsWay
<1>4. Around = {}
  BY <1>2, <1>3, AroundMember
<1>5. NetInv
  BY <1>2, <1>3, <1>4 DEF NetInv
<1>6. Wired
  BY DEF Init, Wired
<1>7. ASSUME NEW d \in Device
      PROVE  LocalInvOf(d)
  <2>1. ~CopyUnderway(d)
    BY DEF Init, CopyUnderway
  <2> QED
    BY <2>1, BoundsAssumption DEF Init, LocalInvOf, NewEngine
<1> QED
  BY <1>1, <1>5, <1>6, <1>7 DEF ConvergeInv

(* At rest nothing is on its way, so every engine stands for what every    *)
(* other one stands for, or for something newer.                           *)
LEMMA RestMeansAgreement ==
  ConvergeInv /\ Quiescent =>
    \A d, e \in Device :
      (engine[d].current # None /\ engine[e].current # None)
        => engine[d].current.id = engine[e].current.id
<1> SUFFICES ASSUME ConvergeInv, Quiescent
             PROVE  \A d, e \in Device :
                      (engine[d].current # None /\ engine[e].current # None)
                        => engine[d].current.id = engine[e].current.id
  OBVIOUS
<1>1. TypeOK /\ NetInv /\ \A d \in Device : OrderInvOf(d)
  BY DEF ConvergeInv, OrderInv, PromptInv
<1>2. \A d \in Device : engine[d].pending = None
  BY <1>1 DEF Quiescent, Settled, ClipboardThreadIdle, OrderInvOf, NoEchoDue, Underway
<1>3. \A s, e \in Device : OnItsWay(s, e) = {}
  <2>1. QueuedIn(<<>>) = {}
    <3>1. Len(<<>>) = 0 /\ 1..0 = {}
      OBVIOUS
    <3> QED
      BY <3>1 DEF QueuedIn
  <2> QED
    BY <2>1 DEF OnItsWay, Quiescent, Settled, ClipboardThreadIdle
<1>4. ASSUME NEW d \in Device, NEW e \in Device,
             engine[d].current # None, engine[e].current # None
      PROVE  ~IsNewerThan(engine[d].current, engine[e].current)
  <2>1. engine[d].current \in Held(d) /\ Held(e) = {engine[e].current}
    BY <1>2, <1>4 DEF Held
  <2>2. AccountedFor(engine[d].current, e)
    BY <1>1, <2>1, AroundMember DEF NetInv
  <2> QED
    BY <1>3, <2>1, <2>2 DEF AccountedFor, Covers
<1> SUFFICES ASSUME NEW d \in Device, NEW e \in Device,
                    engine[d].current # None, engine[e].current # None
             PROVE  engine[d].current.id = engine[e].current.id
  OBVIOUS
<1>5. Stamped(engine[d].current) /\ Stamped(engine[e].current)
  BY <1>1, HeldStamped DEF Held
<1> QED
  BY <1>4, <1>5, OrderOfStamps DEF Same

(* "Devices that copy at the same moment converge" (engine.rs): with any   *)
(* number of devices whose clocks agree and travel unrounded, each of      *)
(* which checks a change before the next copy or item, all engines name    *)
(* the same item once nothing is left to send or judge, whatever the order *)
(* in which the items met them, and however few IDs an engine remembers.   *)
THEOREM PromptWatcherConverges ==
  ASSUME PromptWatcher, StartSnapshots \cap Content = {}, ClocksAgree, TicksPerMs = 1
  PROVE  Spec => []Converged
<1> DEFINE Inv == TypeOK /\ (NothingFailed => ConvergeInv)
<1>1. Init => Inv
  BY ConvergeInit, InitType
<1>2. Inv /\ [Next]_vars => Inv'
  <2> SUFFICES ASSUME Inv, [Next]_vars PROVE Inv'
    OBVIOUS
  <2>1. TypeOK'
    BY NextType
  <2>2. NothingFailed' => NothingFailed
    <3> DEFINE Counted == /\ faults' = faults \/ faults' = faults + 1
                          /\ restarts' = restarts \/ restarts' = restarts + 1
    <3>1. Counted
      <4>1. CASE Tick \/ UNCHANGED vars \/ (\E a, b \in Device : Disconnect(a, b))
                 \/ (\E pair \in Pairs : Connect(pair))
        BY <4>1 DEF vars, Tick, Disconnect, Connect
      <4>2. ASSUME NEW d \in Device,
                   \/ \E snapshot \in Snapshot : UserCopy(d, snapshot)
                   \/ Check(d) \/ ReportChange(d) \/ Broadcast(d)
                   \/ \E item \in outbox[d] : SendToAll(d, item)
            PROVE  Counted
        BY <4>2 DEF UserCopy, Check, ReportChange, Broadcast, SendToAll
      <4>3. ASSUME NEW d \in Device,
                   \/ \E s \in Device : ReceiveItem(s, d)
                   \/ WriteClipboard(d) \/ WriteFails(d) \/ AbandonWrite(d)
                   \/ \E left \in Snapshot : Restart(d, left)
            PROVE  Counted
        BY <4>3 DEF ReceiveItem, WriteClipboard, WriteFails, AbandonWrite, Restart
      <4> HIDE DEF Counted
      <4> QED
        BY <4>1, <4>2, <4>3 DEF Next
    <3>2. faults \in Nat /\ restarts \in Nat
      BY DEF TypeOK
    <3> QED
      BY <3>1, <3>2 DEF NothingFailed
  <2> QED
    BY <2>1, <2>2, ConvergeStep
<1>3. Inv => Converged
  BY RestMeansAgreement DEF Converged, NothingFailed
<1> QED
  BY <1>1, <1>2, <1>3, PTL DEF Spec

=============================================================================
