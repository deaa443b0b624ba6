------------------------------- MODULE PeerStore ------------------------------
(***************************************************************************)
(* The group as one device knows it: crates/cled-lan/src/peers.rs.  A      *)
(* store lists the devices this one is paired with and the devices that    *)
(* were removed from the group; merging combines it with the roster that a *)
(* paired device sent.  Membership gives every device a store.             *)
(*                                                                         *)
(* Names and addresses are left out, and so is forgetting the oldest of    *)
(* more than 100 removals.                                                 *)
(***************************************************************************)
EXTENDS Integers

CONSTANTS
  Device,  \* installations (DeviceId)
  None     \* Option::None

Member  == [key: Nat, pairedAt: Nat]
Removal == [key: Nat, removedAt: Nat, notified: BOOLEAN]

(* A removal in a roster: without the mark.                                *)
RemovalEntry == [key: Nat, removedAt: Nat]

ASSUME NoneAssumption == None \notin Member \cup Removal \cup RemovalEntry

Store == [peers: [Device -> Member \cup {None}], removed: [Device -> Removal \cup {None}]]

EmptyStore == [peers |-> [d \in Device |-> None], removed |-> [d \in Device |-> None]]

Get(store, id) == store.peers[id]

(* A removed device that has not been told.                                *)
GetRemoved(store, id) ==
  IF store.removed[id] # None /\ ~store.removed[id].notified THEN store.removed[id] ELSE None

(* Pairing, or pairing again: undoes a removal.                            *)
Upsert(store, id, key, time) ==
  [store EXCEPT !.peers[id] = [key |-> key, pairedAt |-> time], !.removed[id] = None]

\* A mutant: the member stays in the list.
RemoveMemberOnlyRecords(store, id, time) ==
  [store EXCEPT !.removed[id] = [key |-> store.peers[id].key, removedAt |-> time,
                                 notified |-> FALSE]]

RemoveMember(store, id, time) ==
  [store EXCEPT !.peers[id] = None,
                !.removed[id] = [key |-> store.peers[id].key, removedAt |-> time,
                                 notified |-> FALSE]]

(* This device was removed: forget the members, record no removals.        *)
Clear(store) == [store EXCEPT !.peers = [d \in Device |-> None]]

MarkNotified(store, id) ==
  IF GetRemoved(store, id) # None THEN [store EXCEPT !.removed[id].notified = TRUE] ELSE store
-----------------------------------------------------------------------------
(* Rosters are stores without the notified marks.  A roster holds at most  *)
(* one entry for a device, and merging looks at each entry by itself.      *)

Roster == [members: [Device -> Member \cup {None}], removed: [Device -> RemovalEntry \cup {None}]]

\* A mutant: a roster says nothing of removals.
RosterOfMembers(store) ==
  [members |-> store.peers, removed |-> [d \in Device |-> None]]

RosterOf(store) ==
  [members |-> store.peers,
   removed |-> [d \in Device |->
     IF store.removed[d] = None THEN None
     ELSE [key |-> store.removed[d].key, removedAt |-> store.removed[d].removedAt]]]

(* The roster says that a device is a member.                              *)
\* A mutant: removals are not looked at.
MergeMemberDespiteRemoval(peer, removal, member) ==
  IF peer = None THEN [peer |-> member, removal |-> None] ELSE [peer |-> peer, removal |-> removal]

MergeMember(peer, removal, member) ==
  CASE removal # None /\ removal.removedAt >= member.pairedAt -> [peer |-> peer, removal |-> removal]
    [] OTHER ->
         IF peer = None THEN [peer |-> member, removal |-> None]
         ELSE [peer    |-> IF peer.key # member.key /\ member.pairedAt > peer.pairedAt
                           THEN member ELSE peer,
               removal |-> removal]

(* The roster says that a device was removed.                              *)
MergeRemoval(peer, removal, entry) ==
  LET fresh == [key |-> entry.key, removedAt |-> entry.removedAt, notified |-> FALSE]
  IN  IF peer # None
      THEN IF peer.pairedAt <= entry.removedAt
           THEN [peer |-> None, removal |-> [fresh EXCEPT !.key = peer.key]]
           ELSE [peer |-> peer, removal |-> removal]
      ELSE IF removal # None /\ removal.removedAt >= entry.removedAt
           THEN [peer |-> peer, removal |-> removal]
           ELSE [peer |-> peer, removal |-> fresh]

MergeEntry(store, id, roster) ==
  LET known  == [peer |-> store.peers[id], removal |-> store.removed[id]]
      joined == IF roster.members[id] = None THEN known
                ELSE MergeMember(known.peer, known.removal, roster.members[id])
  IN  IF roster.removed[id] = None THEN joined
      ELSE MergeRemoval(joined.peer, joined.removal, roster.removed[id])

(* Entries about this device or the sender are ignored.                    *)
AboutOthers(me, sender) == Device \ {me, sender}

Merge(store, me, sender, roster) ==
  [peers   |-> [id \in Device |-> IF id \in AboutOthers(me, sender)
                                  THEN MergeEntry(store, id, roster).peer ELSE store.peers[id]],
   removed |-> [id \in Device |-> IF id \in AboutOthers(me, sender)
                                  THEN MergeEntry(store, id, roster).removal ELSE store.removed[id]]]

(* RosterChange.                                                           *)
Added(old, new)   == {id \in Device : new.peers[id] # None /\ new.peers[id] # old.peers[id]}
Removed(old, new) == {id \in Device : old.peers[id] # None /\ new.peers[id] = None}

\* A mutant: every roster is passed on.
AnythingIsNews(old, new) == TRUE

HasNews(old, new) == new # old
=============================================================================
