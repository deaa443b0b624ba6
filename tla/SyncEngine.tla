------------------------------ MODULE SyncEngine ------------------------------
(***************************************************************************)
(* The sync engine of crates/cled-sync: what one device decides to         *)
(* broadcast and what it decides to apply.  The engine is a plain value    *)
(* behind a mutex (SharedEngine in apps/desktop/src-tauri/src/sync.rs), so *)
(* it is modelled as a record and each of its methods as an operator on    *)
(* that record.  ClipboardSync gives every device one and interleaves the  *)
(* calls.                                                                  *)
(***************************************************************************)
EXTENDS ClipboardContent, Integers, Sequences

CONSTANTS
  Device,       \* installations (DeviceId)
  RecentItems   \* how many item IDs the engine remembers (1000 in the code)

ASSUME RecentItemsAssumption == RecentItems \in Nat \ {0}

(* BLAKE3 over the normalized content.  Two contents that differ only in   *)
(* trailing whitespace hash alike; no other two do.                        *)
ContentHash(content) == Identity[content]

-----------------------------------------------------------------------------
(* Items.  An ItemId is a UUIDv7: unique, and ordered.  created is the     *)
(* origin's clock.                                                         *)

Item == [id: Nat, origin: Device, created: Nat, hash: Content, content: Content]

ASSUME NoneAssumption == None \notin Item

NewItem(device, content, id, time) ==
  [id |-> id, origin |-> device, created |-> time,
   hash |-> ContentHash(content), content |-> content]

IsIntact(item) == ContentHash(item.content) = item.hash

Current == [hash: Content, created: Nat, id: Nat]

ASSUME NoCurrentAssumption == None \notin Current

CurrentOf(item) == [hash |-> item.hash, created |-> item.created, id |-> item.id]

(* Later creation time, ties broken by item ID.                            *)
IsNewerThan(a, b) ==
  \/ a.created > b.created
  \/ a.created = b.created /\ a.id > b.id

-----------------------------------------------------------------------------
(* RecentSet: a queue in insertion order and the set of its members.       *)

EmptyRecentSet == [order |-> <<>>, members |-> {}]

(* Mutant: the evicted ID stays a member.                                  *)
RememberKeepsEvicted(recent, id) ==
  IF id \in recent.members THEN recent
  ELSE LET order == Append(recent.order, id)
       IN  [order   |-> IF Len(order) > RecentItems THEN Tail(order) ELSE order,
            members |-> recent.members \cup {id}]

Remember(recent, id) ==
  IF id \in recent.members THEN recent
  ELSE LET order   == Append(recent.order, id)
           members == recent.members \cup {id}
       IN  IF Len(order) > RecentItems
           THEN [order |-> Tail(order), members |-> members \ {Head(order)}]
           ELSE [order |-> order, members |-> members]

-----------------------------------------------------------------------------
(* The engine of one device.                                               *)

Engine ==
  [device: Device, seen: [order: Seq(Nat), members: SUBSET Nat],
   pending: Item \cup {None}, current: Current \cup {None}]

NewEngine(device) ==
  [device |-> device, seen |-> EmptyRecentSet, pending |-> None, current |-> None]

(* Mutant: compares with what was last on the clipboard.                   *)
IsEchoOfCurrent(engine, content) ==
  /\ engine.pending # None /\ engine.current # None
  /\ engine.current.hash = ContentHash(content)

(* The local clipboard changed to content: is that Cled's own write coming *)
(* back?                                                                   *)
IsEcho(engine, content) ==
  /\ engine.pending # None
  /\ engine.pending.hash = ContentHash(content)

(* fresh is the item created when the change is a genuine copy.            *)
OnLocalChange(engine, content, fresh) ==
  IF IsEcho(engine, content)
  THEN [engine EXCEPT !.pending = None, !.current = CurrentOf(engine.pending)]
  ELSE [engine EXCEPT !.pending = None, !.seen = Remember(@, fresh.id),
                      !.current = CurrentOf(fresh)]

(* Mutant: age is not considered.                                          *)
VerdictAppliesOlder(engine, item) ==
  IF item.origin = engine.device THEN "OwnItem"
  ELSE IF ~IsIntact(item) THEN "Corrupt"
  ELSE IF item.id \in engine.seen.members THEN "Duplicate"
  ELSE IF engine.current = None THEN "Write"
  ELSE IF engine.current.hash = item.hash THEN "AlreadyOnClipboard"
  ELSE "Write"

(* Mutant: items of the same age are not ordered by ID.                    *)
VerdictNoTieBreak(engine, item) ==
  IF item.origin = engine.device THEN "OwnItem"
  ELSE IF ~IsIntact(item) THEN "Corrupt"
  ELSE IF item.id \in engine.seen.members THEN "Duplicate"
  ELSE IF engine.current = None THEN "Write"
  ELSE IF engine.current.created >= item.created THEN "Stale"
  ELSE IF engine.current.hash = item.hash THEN "AlreadyOnClipboard"
  ELSE "Write"

(* The engine's verdict on an item from another device, in the order the   *)
(* code asks its questions.                                                *)
Verdict(engine, item) ==
  IF item.origin = engine.device THEN "OwnItem"
  ELSE IF ~IsIntact(item) THEN "Corrupt"
  ELSE IF item.id \in engine.seen.members THEN "Duplicate"
  ELSE IF engine.current = None THEN "Write"
  ELSE IF IsNewerThan(engine.current, item) THEN "Stale"
  ELSE IF engine.current.hash = item.hash THEN "AlreadyOnClipboard"
  ELSE "Write"

(* Mutant: the item counts as current before its echo is seen.             *)
OnRemoteItemSetsCurrent(engine, item) ==
  LET verdict == Verdict(engine, item)
      noted   == [engine EXCEPT !.seen = Remember(@, item.id)]
  IN  CASE verdict \in {"OwnItem", "Corrupt", "Duplicate"} -> engine
        [] verdict = "Stale" -> noted
        [] verdict = "AlreadyOnClipboard" -> [noted EXCEPT !.current = CurrentOf(item)]
        [] verdict = "Write" -> [noted EXCEPT !.pending = item, !.current = CurrentOf(item)]

(* Mutant: equal content does not take over the newer item's identity.     *)
OnRemoteItemKeepsIdentity(engine, item) ==
  LET verdict == Verdict(engine, item)
      noted   == [engine EXCEPT !.seen = Remember(@, item.id)]
  IN  CASE verdict \in {"OwnItem", "Corrupt", "Duplicate"} -> engine
        [] verdict \in {"Stale", "AlreadyOnClipboard"} -> noted
        [] verdict = "Write" -> [noted EXCEPT !.pending = item]

OnRemoteItem(engine, item) ==
  LET verdict == Verdict(engine, item)
      noted   == [engine EXCEPT !.seen = Remember(@, item.id)]
  IN  CASE verdict \in {"OwnItem", "Corrupt", "Duplicate"} -> engine
        [] verdict = "Stale" -> noted
        [] verdict = "AlreadyOnClipboard" -> [noted EXCEPT !.current = CurrentOf(item)]
        [] verdict = "Write" -> [noted EXCEPT !.pending = item]

(* Mutant: the expectation outlives the write that failed.                 *)
OnWriteFailedKeepsPending(engine) == engine

OnWriteFailed(engine) == [engine EXCEPT !.pending = None]
=============================================================================
