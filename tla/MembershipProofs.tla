--------------------------- MODULE MembershipProofs ---------------------------
(***************************************************************************)
(* Proofs about PeerStore and Membership, for any devices, clocks, number  *)
(* of pairings, removals and faults, and whoever can reach whom.           *)
(***************************************************************************)
EXTENDS Membership, TLAPS

(***************************************************************************)
(* Pairing times.  A store, a roster or a message is dated by times if no  *)
(* entry for a device is from a pairing later than times says.             *)
(***************************************************************************)
DatedStore(times) ==
  {s \in Store : \A e \in Device :
     /\ s.peers[e] = None \/ s.removed[e] = None
     /\ s.peers[e] # None => s.peers[e].pairedAt <= times[e]}

DatedRoster(times) ==
  {r \in Roster : \A e \in Device : r.members[e] # None => r.members[e].pairedAt <= times[e]}

DatedMessage(times) == {Bye, Eof} \cup {RosterMessage(r) : r \in DatedRoster(times)}

LEMMA EntryTypes ==
  ASSUME NEW s \in Store, NEW e \in Device
  PROVE  /\ s.peers[e] \in Member \cup {None} /\ s.removed[e] \in Removal \cup {None}
         /\ s.peers[e] # None => s.peers[e].key \in Nat /\ s.peers[e].pairedAt \in Nat
         /\ s.removed[e] # None => /\ s.removed[e].key \in Nat /\ s.removed[e].removedAt \in Nat
                                   /\ s.removed[e].notified \in BOOLEAN
BY DEF Store, Member, Removal

LEMMA RosterTypes ==
  ASSUME NEW r \in Roster, NEW e \in Device
  PROVE  /\ r.members[e] # None => /\ r.members[e] \in Member /\ r.members[e].pairedAt \in Nat
                                   /\ r.members[e].key \in Nat
         /\ r.removed[e] # None => r.removed[e].key \in Nat /\ r.removed[e].removedAt \in Nat
BY DEF Roster, Member, RemovalEntry

(* MergeMember and MergeRemoval, of a member that the store or the roster  *)
(* knows of: they only ever give one of the two, and never a later pairing. *)
Entry(time) ==
  {k \in [peer: Member \cup {None}, removal: Removal \cup {None}] :
     /\ k.peer = None \/ k.removal = None
     /\ k.peer # None => k.peer.pairedAt <= time}

LEMMA MergeMemberDated ==
  ASSUME NEW time \in Nat, NEW k \in Entry(time), NEW member \in Member,
         member.pairedAt <= time
  PROVE  /\ MergeMember(k.peer, k.removal, member) \in Entry(time)
         /\ k.removal # None /\ MergeMember(k.peer, k.removal, member).peer # None
              => k.removal.removedAt < time
<1>1. /\ k.peer \in Member \cup {None} /\ k.removal \in Removal \cup {None}
      /\ k = [peer |-> k.peer, removal |-> k.removal]
      /\ k.peer = None \/ k.removal = None
      /\ k.peer # None => k.peer.pairedAt <= time
  BY DEF Entry
<1>2. k.removal # None => k.removal.removedAt \in Nat
  BY <1>1 DEF Removal
<1>3. member.pairedAt \in Nat /\ member # None
  BY NoneAssumption DEF Member
<1>4. CASE k.removal # None /\ k.removal.removedAt >= member.pairedAt
  <2>1. MergeMember(k.peer, k.removal, member) = k
    BY <1>1, <1>4 DEF MergeMember
  <2> QED
    BY <1>1, <1>4, <2>1
<1>5. CASE ~(k.removal # None /\ k.removal.removedAt >= member.pairedAt) /\ k.peer = None
  <2>1. MergeMember(k.peer, k.removal, member) = [peer |-> member, removal |-> None]
    BY <1>5 DEF MergeMember
  <2>2. [peer |-> member, removal |-> None] \in Entry(time)
    BY <1>3 DEF Entry
  <2>3. k.removal # None => k.removal.removedAt < time
    BY <1>2, <1>3, <1>5
  <2> QED
    BY <2>1, <2>2, <2>3
<1>6. CASE k.peer # None
  <2>1. k.removal = None
    BY <1>1, <1>6
  <2>2. \/ MergeMember(k.peer, k.removal, member) = [peer |-> member, removal |-> None]
        \/ MergeMember(k.peer, k.removal, member) = [peer |-> k.peer, removal |-> None]
    BY <1>6, <2>1 DEF MergeMember
  <2> QED
    BY <1>1, <1>6, <2>1, <2>2 DEF Entry
<1> QED
  BY <1>4, <1>5, <1>6

LEMMA MergeRemovalDated ==
  ASSUME NEW time \in Nat, NEW k \in Entry(time), NEW entry, entry.key \in Nat,
         entry.removedAt \in Nat
  PROVE  /\ MergeRemoval(k.peer, k.removal, entry) \in Entry(time)
         /\ MergeRemoval(k.peer, k.removal, entry).peer \in {k.peer, None}
<1>1. /\ k.peer \in Member \cup {None} /\ k.removal \in Removal \cup {None}
      /\ k = [peer |-> k.peer, removal |-> k.removal]
      /\ k.peer = None \/ k.removal = None
  BY DEF Entry
<1> DEFINE fresh == [key |-> entry.key, removedAt |-> entry.removedAt, notified |-> FALSE]
           keyed == [fresh EXCEPT !.key = k.peer.key]
<1>2. /\ fresh \in Removal
      /\ k.peer # None => keyed \in Removal
  BY <1>1 DEF Removal, Member
<1>3. \A removal \in Removal : [peer |-> None, removal |-> removal] \in Entry(time)
  BY DEF Entry
<1>4. \/ MergeRemoval(k.peer, k.removal, entry) = k
      \/ MergeRemoval(k.peer, k.removal, entry) = [peer |-> None, removal |-> keyed] /\ k.peer # None
      \/ MergeRemoval(k.peer, k.removal, entry) = [peer |-> None, removal |-> fresh]
  <2>1. CASE k.peer # None
    BY <1>1, <2>1 DEF MergeRemoval
  <2>2. CASE k.peer = None
    BY <1>1, <2>2 DEF MergeRemoval
  <2> QED
    BY <2>1, <2>2
<1> HIDE DEF fresh, keyed
<1> QED
  BY <1>2, <1>3, <1>4

LEMMA MergeEntryDated ==
  ASSUME NEW times \in [Device -> Nat], NEW s \in DatedStore(times),
         NEW r \in DatedRoster(times), NEW e \in Device
  PROVE  /\ MergeEntry(s, e, r) \in Entry(times[e])
         /\ s.removed[e] # None /\ MergeEntry(s, e, r).peer # None
              => s.removed[e].removedAt < times[e]
<1> DEFINE known == [peer |-> s.peers[e], removal |-> s.removed[e]]
           joined == IF r.members[e] = None THEN known
                     ELSE MergeMember(known.peer, known.removal, r.members[e])
<1>1. known \in Entry(times[e])
  BY EntryTypes DEF DatedStore, Entry
<1>2. r.members[e] # None => r.members[e] \in Member /\ r.members[e].pairedAt <= times[e]
  BY RosterTypes DEF DatedRoster
<1>3. known.peer = s.peers[e] /\ known.removal = s.removed[e]
  OBVIOUS
<1>4. s.removed[e] # None => s.peers[e] = None
  BY DEF DatedStore
<1> HIDE DEF known
<1>5. /\ joined \in Entry(times[e])
      /\ s.removed[e] # None /\ joined.peer # None => s.removed[e].removedAt < times[e]
  <2>1. CASE r.members[e] = None
    BY <1>1, <1>3, <1>4, <2>1
  <2>2. CASE r.members[e] # None
    BY <1>1, <1>2, <1>3, <2>2, MergeMemberDated
  <2> QED
    BY <2>1, <2>2
<1>6. MergeEntry(s, e, r) = IF r.removed[e] = None THEN joined
                            ELSE MergeRemoval(joined.peer, joined.removal, r.removed[e])
  BY DEF MergeEntry, known
<1> HIDE DEF joined
<1>7. r.removed[e] # None => r.removed[e].key \in Nat /\ r.removed[e].removedAt \in Nat
  BY RosterTypes DEF DatedRoster
<1>8. CASE r.removed[e] = None
  BY <1>5, <1>6, <1>8
<1>9. CASE r.removed[e] # None
  BY <1>5, <1>6, <1>7, <1>9, MergeRemovalDated
<1> QED
  BY <1>8, <1>9

(* Merging a roster keeps the store's entries for this device and the      *)
(* sender, and adds a removed device back for a pairing after its removal  *)
(* only.                                                                   *)
LEMMA MergeDated ==
  ASSUME NEW times \in [Device -> Nat], NEW s \in DatedStore(times),
         NEW r \in DatedRoster(times), NEW me \in Device, NEW sender \in Device
  PROVE  /\ Merge(s, me, sender, r) \in DatedStore(times)
         /\ Merge(s, me, sender, r).peers[me] = s.peers[me]
         /\ \A e \in Device : s.removed[e] # None /\ Merge(s, me, sender, r).peers[e] # None
                              => s.removed[e].removedAt < times[e]
<1> DEFINE merged == Merge(s, me, sender, r)
<1>1. /\ merged.peers = [e \in Device |-> IF e \in AboutOthers(me, sender)
                                         THEN MergeEntry(s, e, r).peer ELSE s.peers[e]]
      /\ merged.removed = [e \in Device |-> IF e \in AboutOthers(me, sender)
                                           THEN MergeEntry(s, e, r).removal ELSE s.removed[e]]
      /\ merged = [peers |-> merged.peers, removed |-> merged.removed]
  BY DEF Merge
<1>2. merged.peers[me] = s.peers[me]
  BY <1>1 DEF AboutOthers
<1> HIDE DEF merged
<1>3. s \in Store
  BY DEF DatedStore
<1>4. ASSUME NEW e \in Device
      PROVE  /\ merged.peers[e] \in Member \cup {None} /\ merged.removed[e] \in Removal \cup {None}
             /\ merged.peers[e] = None \/ merged.removed[e] = None
             /\ merged.peers[e] # None => merged.peers[e].pairedAt <= times[e]
             /\ s.removed[e] # None /\ merged.peers[e] # None => s.removed[e].removedAt < times[e]
  <2>1. CASE e \in AboutOthers(me, sender)
    BY <1>1, <2>1, MergeEntryDated DEF Entry
  <2>2. CASE e \notin AboutOthers(me, sender)
    BY <1>1, <1>3, <2>2, EntryTypes DEF DatedStore
  <2> QED
    BY <2>1, <2>2
<1>5. merged \in Store
  BY <1>1, <1>4 DEF Store
<1>6. merged \in DatedStore(times)
  BY <1>4, <1>5 DEF DatedStore
<1> QED
  BY <1>2, <1>4, <1>6 DEF merged

LEMMA RosterOfDated ==
  ASSUME NEW times, NEW s \in DatedStore(times)
  PROVE  RosterMessage(RosterOf(s)) \in DatedMessage(times)
<1>1. \A e \in Device : s.removed[e] # None
        => [key |-> s.removed[e].key, removedAt |-> s.removed[e].removedAt] \in RemovalEntry
  BY EntryTypes DEF DatedStore, RemovalEntry
<1>2. RosterOf(s) \in Roster /\ RosterOf(s).members = s.peers
  BY <1>1 DEF RosterOf, Roster, DatedStore, Store
<1>3. RosterOf(s) \in DatedRoster(times)
  BY <1>2 DEF DatedRoster, DatedStore
<1> QED
  BY <1>3 DEF DatedMessage

(* As time passes, what is dated stays so.                                 *)
LEMMA StaysDated ==
  ASSUME NEW times \in [Device -> Nat], NEW later \in [Device -> Nat],
         \A e \in Device : times[e] <= later[e]
  PROVE  /\ DatedStore(times) \subseteq DatedStore(later)
         /\ DatedMessage(times) \subseteq DatedMessage(later)
<1>1. DatedStore(times) \subseteq DatedStore(later)
  BY EntryTypes DEF DatedStore
<1>2. DatedRoster(times) \subseteq DatedRoster(later)
  BY RosterTypes DEF DatedRoster
<1> QED
  BY <1>1, <1>2 DEF DatedMessage

LEMMA MessageTypes ==
  ASSUME NEW times
  PROVE  /\ DatedMessage(times) \subseteq Message
         /\ {Bye, Eof} \subseteq DatedMessage(times)
         /\ \A m \in DatedMessage(times) : m.type = "roster" => m.roster \in DatedRoster(times)
BY DEF DatedMessage, DatedRoster, Message, Bye, Eof, RosterMessage

(***************************************************************************)
(* Links.  Whatever a step does to them, they hold messages from M.        *)
(***************************************************************************)
LEMMA PathOf ==
  /\ \A d, e \in Device : d # e => <<d, e>> \in Paths
  /\ \A path \in Paths : /\ path[1] \in Device /\ path[2] \in Device /\ path[1] # path[2]
                         /\ <<path[2], path[1]>> \in Paths
BY DEF Paths

LEMMA SentTyped ==
  ASSUME NEW M, NEW links \in [Paths -> Seq(M)], NEW messages \in [Device -> Seq(M)],
         NEW d \in Device
  PROVE  Sent(d, messages, links) \in [Paths -> Seq(M)]
<1>1. \A path \in Paths : links[path] \in Seq(M) /\ messages[path[2]] \in Seq(M)
  BY PathOf
<1>2. \A path \in Paths : links[path] \o messages[path[2]] \in Seq(M)
  BY <1>1
<1> QED
  BY <1>1, <1>2 DEF Sent

LEMMA DroppedTyped ==
  ASSUME NEW M, link \in [Paths -> Seq(M)], Eof \in M, NEW d \in Device, NEW e \in Device,
         d # e, NEW kept \in 0..Len(link[<<d, e>>])
  PROVE  Dropped(d, e, kept) \in [Paths -> Seq(M)]
<1>1. <<d, e>> \in Paths /\ <<e, d>> \in Paths
  BY PathOf
<1>2. link[<<d, e>>] \in Seq(M) /\ <<>> \in Seq(M)
  BY <1>1
<1>3. SubSeq(link[<<d, e>>], 1, kept) \in Seq(M)
  BY <1>2
<1>4. Append(SubSeq(link[<<d, e>>], 1, kept), Eof) \in Seq(M)
  BY <1>3
<1>5. <<d, e>> # <<e, d>>
  OBVIOUS
<1> QED
  BY <1>1, <1>2, <1>4, <1>5 DEF Dropped

LEMMA AnnounceTyped ==
  ASSUME NEW M, NEW links \in [Paths -> Seq(M)], NEW d \in Device, NEW new, NEW told, NEW closed,
         {Bye, Eof, RosterMessage(RosterOf(new))} \subseteq M,
         end \in [Paths -> {"none", "starting", "up", "closing"}],
         Announce(d, new, told, closed, links)
  PROVE  /\ link' \in [Paths -> Seq(M)]
         /\ end' \in [Paths -> {"none", "starting", "up", "closing"}]
<1> DEFINE messages == [e \in Device |->
                          CASE e \in Registered(d) \cap told -> <<Bye, Eof>>
                            [] e \in Registered(d) \cap (closed \ told) -> <<Eof>>
                            [] e \in Registered(d) \ (told \cup closed) -> <<RosterMessage(RosterOf(new))>>
                            [] OTHER -> <<>>]
<1>1. <<>> \in Seq(M) /\ <<Bye, Eof>> \in Seq(M) /\ <<Eof>> \in Seq(M)
      /\ <<RosterMessage(RosterOf(new))>> \in Seq(M)
  OBVIOUS
<1>2. messages \in [Device -> Seq(M)]
  BY <1>1
<1>3. link' = Sent(d, messages, links)
  BY DEF Announce
<1> HIDE DEF messages
<1>4. link' \in [Paths -> Seq(M)]
  BY <1>2, <1>3, SentTyped
<1>5. end' \in [Paths -> {"none", "starting", "up", "closing"}]
  BY DEF Announce
<1> QED
  BY <1>4, <1>5
-----------------------------------------------------------------------------
(***************************************************************************)
(* The inductive invariant.  No entry of a store, nor of a roster that is  *)
(* still under way, is from a later pairing than lastPaired says.          *)
(***************************************************************************)
Plain ==
  /\ now \in Nat
  /\ key \in [Device -> Nat]
  /\ end \in [Paths -> {"none", "starting", "up", "closing"}]
  /\ storing \subseteq [by: Device, of: Device, key: Nat]
  /\ \A p \in storing : p.by # p.of
  /\ {pairings, removals, faults} \subseteq Nat
  /\ lastPaired \in [Device -> Nat]

StoresDated ==
  /\ store \in [Device -> DatedStore(lastPaired)]
  /\ \A d \in Device : store[d].peers[d] = None

LinksDated == link \in [Paths -> Seq(DatedMessage(lastPaired))]

IInv == Plain /\ StoresDated /\ LinksDated

LEMMA SeqSubset == \A S, T : S \subseteq T => Seq(S) \subseteq Seq(T)
OBVIOUS

LEMMA InvTyped == IInv => TypeOK
<1> SUFFICES ASSUME IInv PROVE TypeOK
  OBVIOUS
<1>1. store \in [Device -> Store]
  BY DEF IInv, StoresDated, DatedStore
<1>2. Seq(DatedMessage(lastPaired)) \subseteq Seq(Message)
  BY MessageTypes, SeqSubset
<1>3. link \in [Paths -> Seq(Message)]
  BY <1>2 DEF IInv, LinksDated
<1>4. \A d \in Device : \A e \in Device : store[d].peers[e] = None \/ store[d].removed[e] = None
  BY DEF IInv, StoresDated, DatedStore
<1> QED
  BY <1>1, <1>3, <1>4 DEF IInv, Plain, StoresDated, TypeOK

LEMMA InitInv == Init => IInv
<1> SUFFICES ASSUME Init PROVE IInv
  OBVIOUS
<1>1. Plain
  BY DEF Init, Plain
<1>2. LinksDated
  BY DEF Init, LinksDated
<1>3. [key |-> 0, pairedAt |-> 0] \in Member
  BY DEF Member
<1>4. ASSUME NEW d \in Device
      PROVE  store[d] \in DatedStore(lastPaired) /\ store[d].peers[d] = None
  <2>1. /\ store[d].peers = [e \in Device |-> IF {d, e} \subseteq Group /\ d # e
                                              THEN [key |-> 0, pairedAt |-> 0] ELSE None]
        /\ store[d].removed = [e \in Device |-> None]
        /\ store[d] = [peers |-> store[d].peers, removed |-> store[d].removed]
    BY DEF Init, EmptyStore
  <2>2. store[d] \in Store
    BY <1>3, <2>1 DEF Store
  <2>3. \A e \in Device : store[d].peers[e] # None => store[d].peers[e].pairedAt <= lastPaired[e]
    BY <2>1 DEF Init
  <2> QED
    BY <2>1, <2>2, <2>3 DEF DatedStore
<1>5. DOMAIN store = Device /\ store = [d \in Device |-> store[d]]
  BY DEF Init
<1>6. StoresDated
  BY <1>4, <1>5 DEF StoresDated
<1> QED
  BY <1>1, <1>2, <1>6 DEF IInv
-----------------------------------------------------------------------------
(* What an action of the invariant's lemmas may use.                       *)
LEMMA LinkFacts ==
  ASSUME IInv
  PROVE  /\ link \in [Paths -> Seq(DatedMessage(lastPaired))]
         /\ {Bye, Eof} \subseteq DatedMessage(lastPaired)
         /\ \A d \in Device : RosterMessage(RosterOf(store[d])) \in DatedMessage(lastPaired)
         /\ \A path \in Paths : link[path] # <<>> =>
              /\ Head(link[path]) \in DatedMessage(lastPaired)
              /\ Tail(link[path]) \in Seq(DatedMessage(lastPaired))
<1>1. link \in [Paths -> Seq(DatedMessage(lastPaired))]
  BY DEF IInv, LinksDated
<1>2. \A d \in Device : RosterMessage(RosterOf(store[d])) \in DatedMessage(lastPaired)
  BY RosterOfDated DEF IInv, StoresDated
<1>3. {Bye, Eof} \subseteq DatedMessage(lastPaired)
  BY MessageTypes
<1>4. \A path \in Paths : link[path] \in Seq(DatedMessage(lastPaired))
  BY <1>1
<1> QED
  BY <1>1, <1>2, <1>3, <1>4

(* A step that leaves the stores alone.                                    *)
LEMMA OnlyLinks ==
  ASSUME IInv, Plain', UNCHANGED <<store, lastPaired>>,
         link' \in [Paths -> Seq(DatedMessage(lastPaired))]
  PROVE  IInv'
BY DEF IInv, StoresDated, LinksDated

LEMMA OnePath ==
  ASSUME NEW M, NEW links \in [Paths -> Seq(M)], NEW path, NEW queue \in Seq(M)
  PROVE  [links EXCEPT ![path] = queue] \in [Paths -> Seq(M)]
OBVIOUS

LEMMA SessionInv ==
  ASSUME IInv, NEW d \in Device, NEW e \in Device, d # e,
         Handshake(d, e) \/ Register(d, e) \/ ReadEof(d, e) \/ Break(d, e)
  PROVE  IInv'
<1> DEFINE M == DatedMessage(lastPaired)
<1>1. <<d, e>> \in Paths /\ <<e, d>> \in Paths /\ <<d, e>> # <<e, d>>
  BY PathOf
<1>2. /\ link \in [Paths -> Seq(M)] /\ Eof \in M
      /\ RosterMessage(RosterOf(store[d])) \in M
  BY LinkFacts
<1>3. \A kept \in 0..Len(link[<<d, e>>]) : Dropped(d, e, kept) \in [Paths -> Seq(M)]
  BY <1>2, DroppedTyped
<1>4. link[<<d, e>>] \in Seq(M) /\ link[<<e, d>>] \in Seq(M)
  BY <1>1, <1>2
<1>5. CASE Handshake(d, e)
  <2>1. Plain'
    BY <1>5 DEF Handshake, IInv, Plain
  <2> QED
    BY <1>2, <1>5, <2>1, OnlyLinks DEF Handshake
<1>6. CASE Register(d, e)
  <2>1. Plain'
    BY <1>6 DEF Register, IInv, Plain
  <2>2. CASE Trusts(d, e)
    <3> DEFINE messages == [f \in Device |->
                 IF f = e THEN <<RosterMessage(RosterOf(store[d]))>> ELSE <<>>]
    <3>1. messages \in [Device -> Seq(M)]
      BY <1>2
    <3>2. link' = Sent(d, messages, link)
      BY <1>6, <2>2 DEF Register
    <3> HIDE DEF messages
    <3>3. link' \in [Paths -> Seq(M)]
      BY <1>2, <3>1, <3>2, SentTyped
    <3> QED
      BY <1>6, <2>1, <3>3, OnlyLinks DEF Register
  <2>3. CASE ~Trusts(d, e)
    <3>1. 0 \in 0..Len(link[<<d, e>>])
      BY <1>4
    <3>2. link' \in [Paths -> Seq(M)]
      BY <1>3, <1>6, <2>3, <3>1 DEF Register
    <3> QED
      BY <1>6, <2>1, <3>2, OnlyLinks DEF Register
  <2> QED
    BY <2>2, <2>3
<1>7. CASE ReadEof(d, e)
  <2>1. Plain'
    BY <1>7 DEF ReadEof, IInv, Plain
  <2>2. link' \in [Paths -> Seq(M)]
    BY <1>3, <1>7 DEF ReadEof
  <2> QED
    BY <1>7, <2>1, <2>2, OnlyLinks DEF ReadEof
<1>8. CASE Break(d, e)
  <2>1. Plain'
    <3>1. /\ UNCHANGED <<now, key, end, storing, pairings, removals, lastPaired>>
          /\ faults' = faults + 1
      BY <1>8 DEF Break
    <3> QED
      BY <3>1 DEF IInv, Plain
  <2>2. PICK there \in 0..Len(link[<<d, e>>]), back \in 0..Len(link[<<e, d>>]) :
          link' = [link EXCEPT ![<<d, e>>] = Append(SubSeq(@, 1, there), Eof),
                               ![<<e, d>>] = Append(SubSeq(@, 1, back), Eof)]
    BY <1>8 DEF Break
  <2>3. /\ SubSeq(link[<<d, e>>], 1, there) \in Seq(M)
        /\ SubSeq(link[<<e, d>>], 1, back) \in Seq(M)
    BY <1>4
  <2>4. /\ Append(SubSeq(link[<<d, e>>], 1, there), Eof) \in Seq(M)
        /\ Append(SubSeq(link[<<e, d>>], 1, back), Eof) \in Seq(M)
    <3>1. \A queue \in Seq(M) : Append(queue, Eof) \in Seq(M)
      BY <1>2
    <3> QED
      BY <2>3, <3>1
  <2>5. link' \in [Paths -> Seq(M)]
    BY <1>1, <1>2, <2>2, <2>4
  <2> QED
    BY <1>8, <2>1, <2>5, OnlyLinks DEF Break
<1> QED
  BY <1>5, <1>6, <1>7, <1>8

(* TellRemoved: a store is marked, and says of nobody more than before.    *)
LEMMA TellRemovedInv ==
  ASSUME IInv, NEW d \in Device, NEW e \in Device, d # e, TellRemoved(d, e)
  PROVE  IInv'
<1> DEFINE M == DatedMessage(lastPaired)
<1>1. Plain'
  BY DEF TellRemoved, IInv, Plain
<1>2. store[e] \in DatedStore(lastPaired) /\ store[e] \in Store /\ store[e].peers[e] = None
  BY DEF IInv, StoresDated, DatedStore
<1>3. /\ MarkNotified(store[e], d) \in DatedStore(lastPaired)
      /\ MarkNotified(store[e], d).peers = store[e].peers
  <2>1. CASE GetRemoved(store[e], d) = None
    BY <1>2, <2>1 DEF MarkNotified
  <2>2. CASE GetRemoved(store[e], d) # None
    <3>1. store[e].removed[d] \in Removal
      BY <1>2, <2>2, EntryTypes DEF GetRemoved
    <3>2. /\ MarkNotified(store[e], d).peers = store[e].peers
          /\ MarkNotified(store[e], d).removed =
               [store[e].removed EXCEPT ![d] = [@ EXCEPT !.notified = TRUE]]
          /\ MarkNotified(store[e], d) = [peers |-> store[e].peers,
                                          removed |-> MarkNotified(store[e], d).removed]
      BY <1>2, <2>2 DEF MarkNotified, Store
    <3>3. [store[e].removed[d] EXCEPT !.notified = TRUE] \in Removal
      BY <3>1 DEF Removal
    <3>4. MarkNotified(store[e], d) \in Store
      BY <1>2, <3>2, <3>3 DEF Store
    <3>5. \A f \in Device : MarkNotified(store[e], d).removed[f] = None <=> store[e].removed[f] = None
      <4>1. store[e].removed[d] # None
        BY <2>2 DEF GetRemoved
      <4>2. None \notin Removal
        BY NoneAssumption
      <4> QED
        BY <1>2, <3>2, <3>3, <4>1, <4>2 DEF Store
    <3> QED
      BY <1>2, <3>2, <3>4, <3>5 DEF DatedStore
  <2> QED
    BY <2>1, <2>2
<1>4. store' = [store EXCEPT ![e] = MarkNotified(store[e], d)] /\ lastPaired' = lastPaired
  BY DEF TellRemoved
<1>5. StoresDated'
  BY <1>2, <1>3, <1>4 DEF IInv, StoresDated
<1>6. link' \in [Paths -> Seq(M)]
  <2>1. link \in [Paths -> Seq(M)] /\ <<Bye, Eof>> \in Seq(M)
    BY LinkFacts
  <2> QED
    BY <2>1, OnePath DEF TellRemoved
<1> QED
  BY <1>1, <1>4, <1>5, <1>6 DEF IInv, LinksDated

(* ReadRoster: the roster that was sent is dated, and so is its merger.    *)
LEMMA ReadRosterInv ==
  ASSUME IInv, NEW d \in Device, NEW e \in Device, d # e, ReadRoster(d, e)
  PROVE  /\ IInv'
         /\ \A f \in Device : store[d].removed[f] # None /\ Trusts(d, f)'
                              => lastPaired[f] > store[d].removed[f].removedAt
<1> DEFINE M == DatedMessage(lastPaired)
           new == Merge(store[d], d, e, Incoming(d, e).roster)
           rest == [link EXCEPT ![<<e, d>>] = Tail(@)]
<1>1. <<e, d>> \in Paths /\ link[<<e, d>>] # <<>>
  BY PathOf DEF ReadRoster, Reading
<1>2. Incoming(d, e) \in M /\ Tail(link[<<e, d>>]) \in Seq(M)
  BY <1>1, LinkFacts DEF Incoming
<1>3. Incoming(d, e).roster \in DatedRoster(lastPaired)
  BY <1>2, MessageTypes DEF ReadRoster
<1>4. store[d] \in DatedStore(lastPaired) /\ lastPaired \in [Device -> Nat]
  BY DEF IInv, StoresDated, Plain
<1>5. /\ new \in DatedStore(lastPaired) /\ new.peers[d] = store[d].peers[d]
      /\ \A f \in Device : store[d].removed[f] # None /\ new.peers[f] # None
                           => store[d].removed[f].removedAt < lastPaired[f]
  <2> DEFINE roster == Incoming(d, e).roster
  <2>1. roster \in DatedRoster(lastPaired)
    BY <1>3
  <2> HIDE DEF roster
  <2>2. LET merged == Merge(store[d], d, e, roster)
        IN  /\ merged \in DatedStore(lastPaired) /\ merged.peers[d] = store[d].peers[d]
            /\ \A f \in Device : store[d].removed[f] # None /\ merged.peers[f] # None
                                 => store[d].removed[f].removedAt < lastPaired[f]
    BY <1>4, <2>1, MergeDated
  <2> QED
    BY <2>2 DEF roster
<1>6. /\ store' = [store EXCEPT ![d] = new] /\ lastPaired' = lastPaired
      /\ UNCHANGED <<now, key, storing, pairings, removals, faults>>
      /\ \/ Announce(d, new, Removed(store[d], new), Added(store[d], new), rest)
         \/ link' = rest /\ UNCHANGED end
  BY DEF ReadRoster
<1>7. rest \in [Paths -> Seq(M)]
  BY <1>2, LinkFacts, OnePath
<1>8. RosterMessage(RosterOf(new)) \in M
  BY <1>5, RosterOfDated
<1> HIDE DEF new, rest
<1>9. /\ link' \in [Paths -> Seq(M)]
      /\ end' \in [Paths -> {"none", "starting", "up", "closing"}]
  <2>1. end \in [Paths -> {"none", "starting", "up", "closing"}]
    BY DEF IInv, Plain
  <2>2. CASE Announce(d, new, Removed(store[d], new), Added(store[d], new), rest)
    BY <1>7, <1>8, <2>1, <2>2, AnnounceTyped, MessageTypes
  <2>3. CASE link' = rest /\ UNCHANGED end
    BY <1>7, <2>1, <2>3
  <2> QED
    BY <1>6, <2>2, <2>3
<1>10. Plain'
  BY <1>6, <1>9 DEF IInv, Plain
<1>11. StoresDated'
  BY <1>5, <1>6 DEF IInv, StoresDated
<1>12. IInv'
  BY <1>6, <1>9, <1>10, <1>11 DEF IInv, LinksDated
<1>13. \A f \in Device : Trusts(d, f)' <=> new.peers[f] # None
  BY <1>6 DEF Trusts, Get, IInv, StoresDated
<1>14. \A f \in Device : store[d].removed[f] # None =>
         store[d].removed[f].removedAt \in Nat /\ lastPaired[f] \in Nat
  BY <1>4, EntryTypes DEF DatedStore
<1> QED
  BY <1>5, <1>12, <1>13, <1>14

(* ReadBye: the stores lose entries, and nothing but an end is sent.       *)
LEMMA ClearDated ==
  ASSUME NEW times, NEW s \in DatedStore(times)
  PROVE  /\ Clear(s) \in DatedStore(times)
         /\ \A e \in Device : Clear(s).peers[e] = None
<1>1. /\ Clear(s).peers = [e \in Device |-> None] /\ Clear(s).removed = s.removed
      /\ Clear(s) = [peers |-> Clear(s).peers, removed |-> s.removed]
  BY DEF Clear, DatedStore, Store
<1>2. Clear(s) \in Store
  BY <1>1 DEF DatedStore, Store
<1> QED
  BY <1>1, <1>2 DEF DatedStore

LEMMA ReadByeInv ==
  ASSUME IInv, NEW d \in Device, NEW e \in Device, d # e, ReadBye(d, e)
  PROVE  /\ IInv'
         /\ \A c \in Device, f \in Device : Trusts(c, f)' => Trusts(c, f)
<1> DEFINE M == DatedMessage(lastPaired)
           leaves == Trusts(d, e)
<1>1. PICK kept \in 0..Len(link[<<d, e>>]) :
        /\ store' = [store EXCEPT ![d] = IF leaves THEN Clear(@) ELSE @]
        /\ end' = [path \in Paths |->
             IF path = <<d, e>> THEN "none"
             ELSE IF leaves /\ path[1] = d /\ end[path] = "up" THEN "closing"
             ELSE end[path]]
        /\ link' = [path \in Paths |->
             IF leaves /\ path[1] = d /\ path[2] \in Registered(d) \ {e}
                /\ end[<<path[2], d>>] # "none"
             THEN Append(Dropped(d, e, kept)[path], Eof) ELSE Dropped(d, e, kept)[path]]
  BY DEF ReadBye
<1>2. UNCHANGED <<now, key, storing, pairings, removals, faults, lastPaired>>
  BY DEF ReadBye
<1>3. link \in [Paths -> Seq(M)] /\ Eof \in M
  BY LinkFacts
<1>4. Dropped(d, e, kept) \in [Paths -> Seq(M)]
  BY <1>3, DroppedTyped
<1>5. link' \in [Paths -> Seq(M)]
  <2>1. \A queue \in Seq(M) : Append(queue, Eof) \in Seq(M)
    BY <1>3
  <2> QED
    BY <1>1, <1>4, <2>1
<1>6. Plain'
  <2>1. end' \in [Paths -> {"none", "starting", "up", "closing"}]
    BY <1>1 DEF IInv, Plain
  <2> QED
    BY <1>2, <2>1 DEF IInv, Plain
<1>7. /\ \A c \in Device : store'[c] = store[c] \/ (c = d /\ store'[c] = Clear(store[c]))
      /\ store' = [c \in Device |-> store'[c]]
  BY <1>1 DEF IInv, StoresDated
<1>8. /\ \A c \in Device : store'[c] \in DatedStore(lastPaired)
      /\ \A c, f \in Device : store'[c].peers[f] # None => store[c].peers[f] # None
  BY <1>7, ClearDated DEF IInv, StoresDated
<1>9. StoresDated'
  BY <1>2, <1>7, <1>8 DEF IInv, StoresDated
<1>10. \A c \in Device, f \in Device : Trusts(c, f)' => Trusts(c, f)
  BY <1>8 DEF Trusts, Get
<1> QED
  BY <1>2, <1>5, <1>6, <1>9, <1>10 DEF IInv, LinksDated
-----------------------------------------------------------------------------
LEMMA PairInv ==
  ASSUME IInv, NEW d \in Device, NEW e \in Device, Pair(d, e)
  PROVE  IInv'
<1>1. d # e /\ UNCHANGED <<now, key, store, end, link, removals, faults, lastPaired>>
  BY DEF Pair, sessionVars
<1>2. pairings' = pairings + 1 /\ key[d] \in Nat /\ key[e] \in Nat
  BY DEF Pair, IInv, Plain
<1>3. storing' = storing \cup {[by |-> d, of |-> e, key |-> key[e]],
                               [by |-> e, of |-> d, key |-> key[d]]}
  BY DEF Pair
<1>4. /\ storing' \subseteq [by: Device, of: Device, key: Nat]
      /\ \A p \in storing' : p.by # p.of
  BY <1>1, <1>2, <1>3 DEF IInv, Plain
<1>5. Plain'
  BY <1>1, <1>2, <1>4 DEF IInv, Plain
<1> QED
  BY <1>1, <1>5, OnlyLinks DEF IInv, LinksDated

LEMMA PairingFailsInv ==
  ASSUME IInv, NEW pending \in storing, PairingFails(pending)
  PROVE  IInv'
<1>1. /\ UNCHANGED <<now, key, store, end, link, pairings, removals, lastPaired>>
      /\ faults' = faults + 1 /\ storing' \subseteq storing
  BY DEF PairingFails, sessionVars
<1>2. Plain'
  BY <1>1 DEF IInv, Plain
<1> QED
  BY <1>1, <1>2, OnlyLinks DEF IInv, LinksDated

(* What one entry written to a store leaves.                               *)
LEMMA UpsertStore ==
  ASSUME NEW s \in Store, NEW e \in Device, NEW k \in Nat, NEW t \in Nat
  PROVE  /\ Upsert(s, e, k, t) \in Store
         /\ Upsert(s, e, k, t).peers[e].pairedAt = t
         /\ Upsert(s, e, k, t).removed[e] = None
         /\ \A f \in Device : f # e => /\ Upsert(s, e, k, t).peers[f] = s.peers[f]
                                       /\ Upsert(s, e, k, t).removed[f] = s.removed[f]
<1>1. [key |-> k, pairedAt |-> t] \in Member
  BY DEF Member
<1>2. Upsert(s, e, k, t) \in Store
  BY <1>1 DEF Upsert, Store
<1> QED
  BY <1>2 DEF Upsert, Store

LEMMA RemoveStore ==
  ASSUME NEW s \in Store, NEW e \in Device, NEW t \in Nat, s.peers[e] # None
  PROVE  /\ RemoveMember(s, e, t) \in Store
         /\ RemoveMember(s, e, t).peers[e] = None
         /\ \A f \in Device : f # e => /\ RemoveMember(s, e, t).peers[f] = s.peers[f]
                                       /\ RemoveMember(s, e, t).removed[f] = s.removed[f]
<1>1. [key |-> s.peers[e].key, removedAt |-> t, notified |-> FALSE] \in Removal
  BY EntryTypes DEF Removal
<1>2. RemoveMember(s, e, t) \in Store
  BY <1>1 DEF RemoveMember, Store
<1> QED
  BY <1>2 DEF RemoveMember, Store

(* StorePeer: the new entry is dated by the pairing itself.                *)
LEMMA StorePeerInv ==
  ASSUME IInv, NEW pending \in storing, StorePeer(pending)
  PROVE  IInv'
<1> DEFINE d == pending.by
           e == pending.of
           time == now + 1 + ClockSkew[d]
           new == Upsert(store[d], e, pending.key, time)
           M == DatedMessage(lastPaired')
<1>1. d \in Device /\ e \in Device /\ pending.key \in Nat /\ d # e
  BY DEF IInv, Plain
<1>2. now \in Nat /\ ClockSkew[d] \in Nat /\ time \in Nat
  BY <1>1, BoundsAssumption DEF IInv, Plain
<1>3. /\ now' = now + 1 /\ storing' = storing \ {pending}
      /\ UNCHANGED <<key, pairings, removals, faults>>
      /\ lastPaired' = [lastPaired EXCEPT ![e] = Later(time, @)]
      /\ store' = [store EXCEPT ![d] = new]
      /\ Announce(d, store'[d], {}, {}, link)
  BY DEF StorePeer, LocalTime
<1>4. store[d] \in DatedStore(lastPaired) /\ store[d] \in Store /\ lastPaired \in [Device -> Nat]
  BY <1>1 DEF IInv, StoresDated, DatedStore, Plain
<1>5. lastPaired' \in [Device -> Nat] /\ time <= lastPaired'[e]
      /\ \A f \in Device : lastPaired[f] <= lastPaired'[f]
  <2>1. /\ Later(time, lastPaired[e]) \in Nat /\ time <= Later(time, lastPaired[e])
        /\ lastPaired[e] <= Later(time, lastPaired[e])
    BY <1>1, <1>2, <1>4 DEF Later
  <2> HIDE DEF time
  <2> QED
    BY <1>1, <1>3, <1>4, <2>1
<1>6. DatedStore(lastPaired) \subseteq DatedStore(lastPaired')
      /\ DatedMessage(lastPaired) \subseteq M
  BY <1>4, <1>5, StaysDated
<1>7. new \in DatedStore(lastPaired') /\ new.peers[d] = store[d].peers[d]
  <2>1. /\ new \in Store /\ new.peers[e].pairedAt = time /\ new.removed[e] = None
        /\ \A f \in Device : f # e => /\ new.peers[f] = store[d].peers[f]
                                      /\ new.removed[f] = store[d].removed[f]
    <3> DEFINE k == pending.key
    <3>1. /\ store[d] \in Store /\ e \in Device /\ k \in Nat /\ time \in Nat
          /\ new = Upsert(store[d], e, k, time)
      BY <1>1, <1>2, <1>4
    <3> HIDE DEF d, e, k, time, new
    <3> QED
      BY <3>1, UpsertStore
  <2> HIDE DEF new, time
  <2>2. store[d] \in DatedStore(lastPaired')
    BY <1>4, <1>6
  <2> QED
    BY <1>1, <1>5, <2>1, <2>2 DEF DatedStore
<1> HIDE DEF new, time
<1>8. StoresDated'
  <2>1. DatedStore(lastPaired)  \subseteq DatedStore(lastPaired')
    BY <1>6
  <2>2. store \in [Device -> DatedStore(lastPaired')]
    BY <2>1 DEF IInv, StoresDated
  <2> QED
    BY <1>1, <1>3, <1>7, <2>2 DEF IInv, StoresDated
<1>9. /\ link' \in [Paths -> Seq(M)]
      /\ end' \in [Paths -> {"none", "starting", "up", "closing"}]
  <2>1. store'[d] = new
    BY <1>1, <1>3 DEF IInv, StoresDated
  <2>2. RosterMessage(RosterOf(store'[d])) \in M
    BY <1>7, <2>1, RosterOfDated
  <2>3. {Bye, Eof} \subseteq M
    BY MessageTypes
  <2>4. link \in [Paths -> Seq(M)]
    BY <1>6, SeqSubset, LinkFacts
  <2>5. end \in [Paths -> {"none", "starting", "up", "closing"}]
    BY DEF IInv, Plain
  <2> HIDE DEF M
  <2> QED
    BY <1>1, <1>3, <2>2, <2>3, <2>4, <2>5, AnnounceTyped
<1>10. Plain'
  <2>1. now' \in Nat
    BY <1>2, <1>3
  <2> QED
    BY <1>3, <1>5, <1>9, <2>1 DEF IInv, Plain
<1> QED
  BY <1>8, <1>9, <1>10 DEF IInv, LinksDated

(* RemovePeer: the entry is gone, the removal takes its place.             *)
LEMMA RemovePeerInv ==
  ASSUME IInv, NEW d \in Device, NEW e \in Device, d # e, RemovePeer(d, e)
  PROVE  /\ IInv'
         /\ \A c \in Device, f \in Device : Trusts(c, f)' => Trusts(c, f)
<1> DEFINE time == now + 1 + ClockSkew[d]
           new == RemoveMember(store[d], e, time)
           M == DatedMessage(lastPaired)
<1>1. now \in Nat /\ time \in Nat
  BY BoundsAssumption DEF IInv, Plain
<1>2. /\ now' = now + 1 /\ removals' = removals + 1
      /\ UNCHANGED <<key, storing, pairings, faults, lastPaired>>
      /\ store' = [store EXCEPT ![d] = new]
      /\ Announce(d, store'[d], {e}, {}, link)
  BY DEF RemovePeer, LocalTime
<1>3. /\ store[d] \in DatedStore(lastPaired) /\ store[d] \in Store
      /\ store[d].peers[d] = None /\ store[d].peers[e] # None
  BY DEF IInv, StoresDated, DatedStore, RemovePeer, Trusts, Get
<1>4. /\ new \in Store /\ new.peers[e] = None
      /\ \A f \in Device : f # e => /\ new.peers[f] = store[d].peers[f]
                                    /\ new.removed[f] = store[d].removed[f]
  <2> HIDE DEF time
  <2> QED
    BY <1>1, <1>3, RemoveStore
<1> HIDE DEF new, time
<1>5. \A f \in Device : new.peers[f] = None \/ new.peers[f] = store[d].peers[f]
  BY <1>4
<1>6. new \in DatedStore(lastPaired) /\ new.peers[d] = None
  BY <1>3, <1>4, <1>5 DEF DatedStore
<1>7. /\ \A c \in Device : store'[c] \in DatedStore(lastPaired)
      /\ store'[d] = new
      /\ \A c \in Device, f \in Device : store'[c].peers[f] # None => store[c].peers[f] # None
  BY <1>2, <1>5, <1>6 DEF IInv, StoresDated
<1>8. StoresDated'
  BY <1>2, <1>6 DEF IInv, StoresDated
<1>9. /\ link' \in [Paths -> Seq(M)]
      /\ end' \in [Paths -> {"none", "starting", "up", "closing"}]
  <2>1. RosterMessage(RosterOf(store'[d])) \in M
    BY <1>7, RosterOfDated
  <2>2. {Bye, Eof} \subseteq M /\ link \in [Paths -> Seq(M)]
    BY LinkFacts
  <2>3. end \in [Paths -> {"none", "starting", "up", "closing"}]
    BY DEF IInv, Plain
  <2> HIDE DEF M
  <2> QED
    BY <1>2, <2>1, <2>2, <2>3, AnnounceTyped
<1>10. Plain'
  <2>1. now' \in Nat /\ removals' \in Nat
    BY <1>1, <1>2 DEF IInv, Plain
  <2> QED
    BY <1>2, <1>9, <2>1 DEF IInv, Plain
<1>11. IInv'
  BY <1>2, <1>8, <1>9, <1>10 DEF IInv, LinksDated
<1>12. \A c \in Device, f \in Device : Trusts(c, f)' => Trusts(c, f)
  BY <1>7 DEF Trusts, Get
<1> QED
  BY <1>11, <1>12

LEMMA LoseKeyInv ==
  ASSUME IInv, NEW d \in Device, LoseKey(d)
  PROVE  IInv'
<1> DEFINE M == DatedMessage(lastPaired)
<1>1. /\ faults' = faults + 1 /\ key' = [key EXCEPT ![d] = @ + 1]
      /\ end' = [path \in Paths |-> IF path[1] = d THEN "none" ELSE end[path]]
      /\ UNCHANGED <<now, store, storing, pairings, removals, lastPaired>>
  BY DEF LoseKey
<1>2. key' \in [Device -> Nat] /\ faults' \in Nat
  BY <1>1 DEF IInv, Plain
<1>3. end' \in [Paths -> {"none", "starting", "up", "closing"}]
  BY <1>1 DEF IInv, Plain
<1>4. Plain'
  BY <1>1, <1>2, <1>3 DEF IInv, Plain
<1>5. link' \in [Paths -> Seq(M)]
  <2>1. link \in [Paths -> Seq(M)] /\ <<>> \in Seq(M) /\ <<Eof>> \in Seq(M)
    BY LinkFacts
  <2> HIDE DEF M
  <2> QED
    BY <2>1 DEF LoseKey
<1> QED
  BY <1>1, <1>4, <1>5, OnlyLinks
-----------------------------------------------------------------------------
LEMMA NextInv == IInv /\ [Next]_vars => IInv'
<1> SUFFICES ASSUME IInv, [Next]_vars PROVE IInv'
  OBVIOUS
<1>1. ASSUME NEW pending \in storing, StorePeer(pending) PROVE IInv'
  BY <1>1, StorePeerInv
<1>2. ASSUME NEW pending \in storing, PairingFails(pending) PROVE IInv'
  BY <1>2, PairingFailsInv
<1>3. ASSUME NEW d \in Device, LoseKey(d) PROVE IInv'
  BY <1>3, LoseKeyInv
<1>4. ASSUME NEW d \in Device, NEW e \in Device, Pair(d, e) PROVE IInv'
  BY <1>4, PairInv
<1>5. ASSUME NEW d \in Device, NEW e \in Device, d # e,
             \/ RemovePeer(d, e) \/ Handshake(d, e) \/ TellRemoved(d, e) \/ Register(d, e)
             \/ ReadRoster(d, e) \/ ReadBye(d, e) \/ ReadEof(d, e) \/ Break(d, e)
      PROVE  IInv'
  BY <1>5, RemovePeerInv, SessionInv, TellRemovedInv, ReadRosterInv, ReadByeInv
<1>6. CASE UNCHANGED vars
  BY <1>6 DEF vars, sessionVars, IInv, Plain, StoresDated, LinksDated
<1> QED
  BY <1>1, <1>2, <1>3, <1>4, <1>5, <1>6 DEF Next

LEMMA AlwaysInv == Spec => []IInv
<1> QED
  BY InitInv, NextInv, PTL DEF Spec

(* Every variable keeps its type, no device has itself as a member, and no *)
(* store holds both an entry and a removal of a device, whatever the       *)
(* rosters say and in whatever order they arrive (PeerStore::merge).       *)
THEOREM MembershipTyped == Spec => []TypeOK
<1> QED
  BY AlwaysInv, InvTyped, PTL

(* A device that was removed is not added back by a roster from a member   *)
(* that has not heard, however old or new the roster: who has recorded the *)
(* removal trusts the device again only by pairing it, or when somebody    *)
(* paired it later than that removal (PeerStore::merge, remove).           *)
THEOREM RemovedStayOut == Spec => NotAddedBack
<1> DEFINE Paired(d, e) == \E pending \in storing :
                             pending.by = d /\ pending.of = e /\ StorePeer(pending)
           Step == \A d, e \in Device :
                     d # e /\ store[d].removed[e] # None /\ Trusts(d, e)'
                       => \/ lastPaired[e] > store[d].removed[e].removedAt
                          \/ Paired(d, e)
<1>1. IInv /\ [Next]_vars => Step
  <2> SUFFICES ASSUME IInv, [Next]_vars, NEW d \in Device, NEW e \in Device,
                      store[d].removed[e] # None, Trusts(d, e)'
               PROVE  lastPaired[e] > store[d].removed[e].removedAt \/ Paired(d, e)
    OBVIOUS
  <2>1. ~Trusts(d, e)
    BY DEF IInv, StoresDated, DatedStore, Trusts, Get
  <2>2. /\ ~UNCHANGED store
        /\ \E c \in Device, f \in Device : Trusts(c, f)' /\ ~Trusts(c, f)
    BY <2>1 DEF Trusts, Get
  <2>3. ASSUME NEW pending \in storing, StorePeer(pending) PROVE Paired(d, e)
    <3> DEFINE new == Upsert(store[pending.by], pending.of, pending.key, LocalTime(pending.by)')
    <3>1. /\ store' = [store EXCEPT ![pending.by] = new]
          /\ pending.by \in Device /\ pending.of \in Device
      BY <2>3 DEF StorePeer, IInv, Plain
    <3>2. /\ store[pending.by] \in Store
          /\ new.peers = [store[pending.by].peers EXCEPT ![pending.of] =
                            [key |-> pending.key, pairedAt |-> LocalTime(pending.by)']]
      BY <3>1 DEF IInv, StoresDated, DatedStore, Upsert, Store
    <3> HIDE DEF new
    <3>3. \A c, f \in Device : (c # pending.by \/ f # pending.of)
                               => store'[c].peers[f] = store[c].peers[f]
      BY <3>1, <3>2 DEF IInv, StoresDated, Store
    <3>4. pending.by = d /\ pending.of = e
      BY <2>1, <3>3 DEF Trusts, Get
    <3> QED
      BY <2>3, <3>4
  <2>4. ASSUME NEW c \in Device, NEW f \in Device, c # f, ReadRoster(c, f)
        PROVE  lastPaired[e] > store[d].removed[e].removedAt
    <3>1. \A g \in Device : g # c => store'[g] = store[g]
      BY <2>4 DEF ReadRoster, IInv, StoresDated
    <3>2. c = d
      BY <2>1, <3>1 DEF Trusts, Get
    <3> QED
      BY <2>4, <3>2, ReadRosterInv
  <2>5. ASSUME NEW c \in Device, NEW f \in Device, c # f, ReadBye(c, f) \/ RemovePeer(c, f)
        PROVE  FALSE
    BY <2>2, <2>5, ReadByeInv, RemovePeerInv
  <2>6. ASSUME NEW c \in Device, NEW f \in Device, c # f, TellRemoved(c, f)
        PROVE  FALSE
    <3>1. store' = [store EXCEPT ![f] = MarkNotified(store[f], c)]
      BY <2>6 DEF TellRemoved
    <3>2. store[f] \in Store /\ MarkNotified(store[f], c).peers = store[f].peers
      BY DEF IInv, StoresDated, DatedStore, MarkNotified, Store
    <3>3. \A g \in Device : store'[g].peers = store[g].peers
      BY <3>1, <3>2 DEF IInv, StoresDated
    <3> QED
      BY <2>1, <3>3 DEF Trusts, Get
  <2>7. ASSUME NEW c \in Device, NEW f \in Device,
               Pair(c, f) \/ Handshake(c, f) \/ Register(c, f) \/ ReadEof(c, f) \/ Break(c, f)
        PROVE  FALSE
    BY <2>2, <2>7 DEF Pair, Handshake, Register, ReadEof, Break
  <2>8. ASSUME NEW c \in Device, LoseKey(c) PROVE FALSE
    BY <2>2, <2>8 DEF LoseKey
  <2>9. ASSUME NEW pending \in storing, PairingFails(pending) PROVE FALSE
    BY <2>2, <2>9 DEF PairingFails
  <2>10. CASE UNCHANGED vars
    BY <2>2, <2>10 DEF vars
  <2> QED
    BY <2>3, <2>4, <2>5, <2>6, <2>7, <2>8, <2>9, <2>10 DEF Next
<1>2. IInv /\ [Next]_vars => [Step]_vars
  BY <1>1
<1>3. Spec => [][Step]_vars
  BY <1>2, AlwaysInv, PTL DEF Spec
<1> QED
  BY <1>3 DEF NotAddedBack
-----------------------------------------------------------------------------
(***************************************************************************)
(* RostersAgree, as long as nobody is paired with again once removed       *)
(* (which group_order shows to matter).  Who knows of a device knows that  *)
(* it is a member, or that it was removed, and a removal is then the last  *)
(* word: what a device knows only grows, until it leaves the group itself. *)
(***************************************************************************)

(* What was said on a link and has not been read.                          *)
Said(queue) == {queue[i] : i \in 1..Len(queue)}

LEMMA SaidAppended ==
  ASSUME NEW M, NEW q \in Seq(M), NEW m \in M
  PROVE  Said(Append(q, m)) = Said(q) \cup {m}
<1> DEFINE more == Append(q, m)
<1>1. /\ Len(q) \in Nat /\ Len(more) = Len(q) + 1 /\ more[Len(q) + 1] = m
      /\ \A k \in 1..Len(q) : more[k] = q[k]
  OBVIOUS
<1> HIDE DEF more
<1>2. 1..Len(more) = 1..Len(q) \cup {Len(q) + 1}
  BY <1>1
<1> QED
  BY <1>1, <1>2 DEF more, Said

LEMMA SaidJoined ==
  ASSUME NEW M, NEW q \in Seq(M), NEW r \in Seq(M)
  PROVE  Said(q \o r) = Said(q) \cup Said(r)
<1> DEFINE both == q \o r
<1>1. /\ Len(q) \in Nat /\ Len(r) \in Nat /\ Len(both) = Len(q) + Len(r)
      /\ \A k \in 1..Len(q) : both[k] = q[k]
      /\ \A k \in 1..Len(r) : both[Len(q) + k] = r[k]
  OBVIOUS
<1> HIDE DEF both
<1>2. Said(both) \subseteq Said(q) \cup Said(r)
  <2> SUFFICES ASSUME NEW k \in 1..Len(both)
               PROVE  both[k] \in Said(q) \cup Said(r)
    BY DEF Said
  <2>1. CASE k <= Len(q)
    <3>1. k \in 1..Len(q)
      BY <1>1, <2>1
    <3> QED
      BY <1>1, <3>1 DEF Said
  <2>2. CASE k > Len(q)
    <3>1. k - Len(q) \in 1..Len(r) /\ Len(q) + (k - Len(q)) = k
      BY <1>1, <2>2
    <3>2. both[Len(q) + (k - Len(q))] = r[k - Len(q)]
      BY <1>1, <3>1
    <3> QED
      BY <3>1, <3>2 DEF Said
  <2> QED
    BY <1>1, <2>1, <2>2
<1>3. Said(q) \subseteq Said(both)
  <2>1. \A k \in 1..Len(q) : k \in 1..Len(both)
    BY <1>1
  <2> QED
    BY <1>1, <2>1 DEF Said
<1>4. Said(r) \subseteq Said(both)
  <2>1. \A k \in 1..Len(r) : Len(q) + k \in 1..Len(both)
    BY <1>1
  <2> QED
    BY <1>1, <2>1 DEF Said
<1> QED
  BY <1>2, <1>3, <1>4 DEF both

LEMMA SaidFirst ==
  ASSUME NEW M, NEW q \in Seq(M), q # <<>>
  PROVE  Said(q) = {Head(q)} \cup Said(Tail(q))
<1> DEFINE rest == Tail(q)
<1>1. /\ Len(q) \in Nat /\ Len(q) > 0 /\ Len(rest) = Len(q) - 1
      /\ Head(q) = q[1]
      /\ \A k \in 1..Len(rest) : rest[k] = q[k + 1]
  OBVIOUS
<1> HIDE DEF rest
<1>2. ASSUME NEW m \in Said(q)
      PROVE  m \in {Head(q)} \cup Said(rest)
  <2>1. PICK k \in 1..Len(q) : m = q[k]
    BY DEF Said
  <2>2. CASE k = 1
    BY <1>1, <2>1, <2>2
  <2>3. CASE k # 1
    <3>1. k - 1 \in 1..Len(rest) /\ rest[k - 1] = q[(k - 1) + 1] /\ (k - 1) + 1 = k
      BY <1>1, <2>3
    <3> QED
      BY <2>1, <3>1 DEF Said
  <2> QED
    BY <2>2, <2>3
<1>3. Said(rest) \subseteq Said(q)
  <2>1. \A k \in 1..Len(rest) : k + 1 \in 1..Len(q)
    BY <1>1
  <2> QED
    BY <1>1, <2>1 DEF Said
<1>4. Head(q) \in Said(q)
  <2>1. 1 \in 1..Len(q)
    BY <1>1
  <2> QED
    BY <1>1, <2>1 DEF Said
<1> QED
  BY <1>2, <1>3, <1>4 DEF rest

LEMMA SaidBefore ==
  ASSUME NEW M, NEW q \in Seq(M), NEW k \in 0..Len(q)
  PROVE  Said(SubSeq(q, 1, k)) \subseteq Said(q) /\ SubSeq(q, 1, k) \in Seq(M)
<1> DEFINE part == SubSeq(q, 1, k)
<1>1. /\ Len(q) \in Nat /\ k \in Nat /\ k <= Len(q) /\ Len(part) = k /\ part \in Seq(M)
      /\ \A i \in 1..k : part[i] = q[i]
  OBVIOUS
<1> HIDE DEF part
<1>2. \A i \in 1..k : i \in 1..Len(q)
  BY <1>1
<1> QED
  BY <1>1, <1>2 DEF part, Said

LEMMA SaidFew ==
  /\ Said(<<>>) = {}
  /\ \A m : Said(<<m>>) = {m}
  /\ \A m, n : Said(<<m, n>>) = {m, n}
<1>1. Said(<<>>) = {}
  <2>1. Len(<<>>) = 0 /\ 1..0 = {}
    OBVIOUS
  <2> QED
    BY <2>1 DEF Said
<1>2. ASSUME NEW m PROVE Said(<<m>>) = {m}
  <2>1. Len(<<m>>) = 1 /\ 1..1 = {1} /\ <<m>>[1] = m
    OBVIOUS
  <2> QED
    BY <2>1 DEF Said
<1>3. ASSUME NEW m, NEW n PROVE Said(<<m, n>>) = {m, n}
  <2>1. Len(<<m, n>>) = 2 /\ 1..2 = {1, 2} /\ <<m, n>>[1] = m /\ <<m, n>>[2] = n
    OBVIOUS
  <2> QED
    BY <2>1 DEF Said
<1> QED
  BY <1>1, <1>2, <1>3
-----------------------------------------------------------------------------
(* t, a store or the roster r, says of x all that the store s says.        *)
StoreCovers(t, s, x) ==
  /\ s.removed[x] # None => t.removed[x] # None
  /\ s.peers[x] # None => t.peers[x] # None \/ t.removed[x] # None

RosterCovers(r, s, x) ==
  /\ s.removed[x] # None => r.removed[x] # None
  /\ s.peers[x] # None => r.members[x] # None \/ r.removed[x] # None

LEMMA RosterOfCovers ==
  ASSUME NEW s \in Store
  PROVE  /\ RosterOf(s) \in Roster
         /\ \A x \in Device :
              /\ RosterCovers(RosterOf(s), s, x)
              /\ RosterOf(s).removed[x] # None =>
                   /\ s.removed[x] # None
                   /\ RosterOf(s).removed[x].removedAt = s.removed[x].removedAt
<1>1. \A x \in Device : s.removed[x] # None
        => [key |-> s.removed[x].key, removedAt |-> s.removed[x].removedAt] \in RemovalEntry
  BY EntryTypes DEF RemovalEntry
<1>2. None \notin RemovalEntry
  BY NoneAssumption
<1> QED
  BY <1>1, <1>2 DEF RosterOf, Roster, Store, RosterCovers

(* Merging what is dated by time with removals from time on: the removal   *)
(* wins, and no news is lost.                                              *)
LEMMA MergeMemberGrows ==
  ASSUME NEW time \in Nat, NEW k \in Entry(time), NEW member \in Member,
         member.pairedAt <= time,
         k.removal # None => k.removal.removedAt >= time
  PROVE  LET merged == MergeMember(k.peer, k.removal, member)
         IN  /\ merged.removal = k.removal
             /\ merged.peer # None \/ merged.removal # None
<1>1. /\ k.peer \in Member \cup {None} /\ k.removal \in Removal \cup {None}
      /\ k.peer = None \/ k.removal = None
  BY DEF Entry
<1>2. k.removal # None => k.removal.removedAt \in Nat
  BY <1>1 DEF Removal
<1>3. member.pairedAt \in Nat /\ member # None
  BY NoneAssumption DEF Member
<1>4. k.removal # None => k.removal.removedAt >= member.pairedAt
  BY <1>2, <1>3
<1> QED
  BY <1>1, <1>3, <1>4 DEF MergeMember

LEMMA MergeRemovalGrows ==
  ASSUME NEW time \in Nat, NEW k \in Entry(time), NEW entry, entry.key \in Nat,
         entry.removedAt \in Nat, entry.removedAt >= time,
         k.removal # None => k.removal.removedAt >= time
  PROVE  LET merged == MergeRemoval(k.peer, k.removal, entry)
         IN  merged.removal # None /\ merged.removal.removedAt >= time
<1> DEFINE fresh == [key |-> entry.key, removedAt |-> entry.removedAt, notified |-> FALSE]
           keyed == [fresh EXCEPT !.key = k.peer.key]
<1>1. /\ k.peer \in Member \cup {None} /\ k.removal \in Removal \cup {None}
      /\ k.peer # None => k.peer.pairedAt <= time
  BY DEF Entry
<1>2. /\ fresh \in Removal /\ fresh.removedAt = entry.removedAt
      /\ k.peer # None => keyed \in Removal /\ keyed.removedAt = entry.removedAt
  BY <1>1 DEF Removal, Member
<1>3. k.peer # None => k.peer.pairedAt <= entry.removedAt
  BY <1>1 DEF Member
<1>4. LET merged == MergeRemoval(k.peer, k.removal, entry)
      IN  \/ merged.removal = fresh
          \/ merged.removal = keyed /\ k.peer # None
          \/ merged.removal = k.removal /\ k.removal # None
  <2>1. CASE k.peer # None
    BY <1>3, <2>1 DEF MergeRemoval
  <2>2. CASE k.peer = None
    BY <2>2 DEF MergeRemoval
  <2> QED
    BY <2>1, <2>2
<1>5. None \notin Removal
  BY NoneAssumption
<1> HIDE DEF fresh, keyed
<1> QED
  BY <1>2, <1>4, <1>5

(* Removals no earlier than times says.                                    *)
RemovalsFrom(times, s) ==
  \A x \in Device : s.removed[x] # None => s.removed[x].removedAt >= times[x]

LEMMA MergeEntryGrows ==
  ASSUME NEW times \in [Device -> Nat], NEW s \in DatedStore(times),
         NEW r \in DatedRoster(times), RemovalsFrom(times, s), RemovalsFrom(times, r),
         NEW e \in Device
  PROVE  LET merged == MergeEntry(s, e, r)
         IN  /\ s.removed[e] # None \/ r.removed[e] # None => merged.removal # None
             /\ s.peers[e] # None \/ r.members[e] # None
                  => merged.peer # None \/ merged.removal # None
             /\ merged.removal # None => merged.removal.removedAt >= times[e]
<1> DEFINE known == [peer |-> s.peers[e], removal |-> s.removed[e]]
           joined == IF r.members[e] = None THEN known
                     ELSE MergeMember(known.peer, known.removal, r.members[e])
<1>1. /\ known \in Entry(times[e])
      /\ known.removal # None => known.removal.removedAt >= times[e]
  BY EntryTypes DEF DatedStore, Entry, RemovalsFrom
<1>2. r.members[e] # None => r.members[e] \in Member /\ r.members[e].pairedAt <= times[e]
  BY RosterTypes DEF DatedRoster
<1>3. known.peer = s.peers[e] /\ known.removal = s.removed[e]
  OBVIOUS
<1> HIDE DEF known
<1>4. /\ joined \in Entry(times[e]) /\ joined.removal = s.removed[e]
      /\ s.peers[e] # None \/ r.members[e] # None => joined.peer # None \/ joined.removal # None
  <2>1. CASE r.members[e] = None
    BY <1>1, <1>3, <2>1
  <2>2. CASE r.members[e] # None
    <3>1. joined = MergeMember(known.peer, known.removal, r.members[e])
      BY <2>2
    <3>2. times[e] \in Nat
      OBVIOUS
    <3>3. joined \in Entry(times[e])
      BY <1>1, <1>2, <2>2, <3>1, <3>2, MergeMemberDated
    <3>4. joined.removal = known.removal /\ (joined.peer # None \/ joined.removal # None)
      BY <1>1, <1>2, <2>2, <3>1, <3>2, MergeMemberGrows
    <3> QED
      BY <1>3, <3>3, <3>4
  <2> QED
    BY <2>1, <2>2
<1>5. MergeEntry(s, e, r) = IF r.removed[e] = None THEN joined
                            ELSE MergeRemoval(joined.peer, joined.removal, r.removed[e])
  BY DEF MergeEntry, known
<1> HIDE DEF joined
<1>6. s.removed[e] # None => s.removed[e].removedAt >= times[e]
  BY DEF RemovalsFrom
<1>7. CASE r.removed[e] = None
  BY <1>4, <1>5, <1>6, <1>7
<1>8. CASE r.removed[e] # None
  <2> DEFINE entry == r.removed[e]
  <2>1. /\ entry.key \in Nat /\ entry.removedAt \in Nat /\ entry.removedAt >= times[e]
        /\ times[e] \in Nat
    BY <1>8, RosterTypes DEF DatedRoster, RemovalsFrom
  <2>2. MergeEntry(s, e, r) = MergeRemoval(joined.peer, joined.removal, entry)
    BY <1>5, <1>8
  <2> HIDE DEF entry
  <2>3. LET merged == MergeRemoval(joined.peer, joined.removal, entry)
        IN  merged.removal # None /\ merged.removal.removedAt >= times[e]
    BY <1>4, <1>6, <2>1, MergeRemovalGrows
  <2> QED
    BY <2>2, <2>3
<1> QED
  BY <1>7, <1>8

(* "The newer of joining and removal wins" (PeerStore::merge): here the    *)
(* removal does, and what the merged store says covers both.               *)
LEMMA MergeGrows ==
  ASSUME NEW times \in [Device -> Nat], NEW s \in DatedStore(times),
         NEW r \in DatedRoster(times), RemovalsFrom(times, s), RemovalsFrom(times, r),
         NEW me \in Device, NEW sender \in Device
  PROVE  LET merged == Merge(s, me, sender, r)
         IN  /\ RemovalsFrom(times, merged)
             /\ \A x \in Device : StoreCovers(merged, s, x)
             /\ \A x \in AboutOthers(me, sender) :
                  /\ r.removed[x] # None => merged.removed[x] # None
                  /\ r.members[x] # None => merged.peers[x] # None \/ merged.removed[x] # None
<1> DEFINE merged == Merge(s, me, sender, r)
<1>1. ASSUME NEW x \in AboutOthers(me, sender)
      PROVE  /\ merged.peers[x] = MergeEntry(s, x, r).peer
             /\ merged.removed[x] = MergeEntry(s, x, r).removal
  BY DEF Merge, AboutOthers
<1>2. ASSUME NEW x \in Device, x \notin AboutOthers(me, sender)
      PROVE  merged.peers[x] = s.peers[x] /\ merged.removed[x] = s.removed[x]
  BY <1>2 DEF Merge
<1> HIDE DEF merged
<1>3. ASSUME NEW x \in AboutOthers(me, sender)
      PROVE  /\ s.removed[x] # None \/ r.removed[x] # None => merged.removed[x] # None
             /\ s.peers[x] # None \/ r.members[x] # None
                  => merged.peers[x] # None \/ merged.removed[x] # None
             /\ merged.removed[x] # None => merged.removed[x].removedAt >= times[x]
  BY <1>1, MergeEntryGrows DEF AboutOthers
<1>4. RemovalsFrom(times, merged)
  BY <1>2, <1>3 DEF RemovalsFrom
<1>5. \A x \in Device : StoreCovers(merged, s, x)
  BY <1>2, <1>3 DEF StoreCovers
<1> QED
  BY <1>3, <1>4, <1>5 DEF merged
-----------------------------------------------------------------------------
(* After a Bye or an Eof, nothing that was said counts any more.           *)
Ended(queue) == Said(queue) \cap {Bye, Eof} # {}

Carries(queue, s, x) ==
  \E r \in Roster : RosterMessage(r) \in Said(queue) /\ RosterCovers(r, s, x)

(* e knows of x what d does, or will once it has read what d sent.         *)
Aware(d, e, x) ==
  \/ end[<<e, d>>] = "up" /\ StoreCovers(store[e], store[d], x)
  \/ Carries(link[<<d, e>>], store[d], x)

Talking(d, e) ==
  /\ end[<<d, e>>] = "up" /\ end[<<e, d>>] \in {"starting", "up"}
  /\ ~Ended(link[<<d, e>>])

(* What d owes e: its news while they talk, and a word when it ends that.  *)
PathOK(d, e) ==
  /\ Talking(d, e) => \A x \in AboutOthers(d, e) : Aware(d, e, x)
  /\ end[<<e, d>>] # "none" /\ end[<<d, e>>] \in {"none", "closing"}
       => Ended(link[<<d, e>>])

PathsOK == \A d, e \in Device : d # e => PathOK(d, e)

(* Every removal that is known is later than the pairings of that device,  *)
(* and one that a roster tells of is still in some store.                  *)
RemovalsLast ==
  /\ \A d \in Device : RemovalsFrom(lastPaired, store[d])
  /\ \A path \in Paths : \A r \in Roster :
       RosterMessage(r) \in Said(link[path]) =>
         /\ RemovalsFrom(lastPaired, r)
         /\ \A x \in Device : r.removed[x] # None =>
              \E d \in Device : store[d].removed[x] # None

ClockPast == \A d, x \in Device : lastPaired[x] <= LocalTime(d)

AgreeInv == IInv /\ PathsOK /\ RemovalsLast /\ ClockPast

(* The hypotheses: clocks agree, and nobody is stored as paired who is     *)
(* recorded as removed anywhere.                                           *)
ClocksAgree == \A d, e \in Device : ClockSkew[d] = ClockSkew[e]

NoReturn ==
  \A pending \in storing :
    StorePeer(pending) => \A d \in Device : store[d].removed[pending.of] = None

LEMMA Messages ==
  /\ \A r, s : RosterMessage(r) = RosterMessage(s) => r = s
  /\ \A r : RosterMessage(r) \notin {Bye, Eof}
  /\ \A times : \A m \in DatedMessage(times) :
       m.type = "roster" => m = RosterMessage(m.roster) /\ m.roster \in DatedRoster(times)
<1>1. \A r : RosterMessage(r).type = "roster" /\ RosterMessage(r).roster = r
  BY DEF RosterMessage
<1>2. Bye.type = "bye" /\ Eof.type = "eof"
  BY DEF Bye, Eof
<1>3. "roster" # "bye" /\ "roster" # "eof"
  OBVIOUS
<1>4. \A r : RosterMessage(r) \notin {Bye, Eof}
  BY <1>1, <1>2, <1>3
<1>5. ASSUME NEW times, NEW m \in DatedMessage(times), m.type = "roster"
      PROVE  m = RosterMessage(m.roster) /\ m.roster \in DatedRoster(times)
  <2>1. m # Bye /\ m # Eof
    BY <1>2, <1>3, <1>5
  <2>2. PICK r \in DatedRoster(times) : m = RosterMessage(r)
    BY <2>1 DEF DatedMessage
  <2> QED
    BY <1>1, <2>2
<1>6. \A r, s : RosterMessage(r) = RosterMessage(s) => r = s
  BY <1>1
<1> QED
  BY <1>4, <1>5, <1>6
-----------------------------------------------------------------------------
(* What a step may do to what d owes e.                                    *)

LEMMA PathStarting ==
  ASSUME NEW d, NEW e, end'[<<d, e>>] = "starting"
  PROVE  PathOK(d, e)'
BY DEF PathOK, Talking

LEMMA PathGone ==
  ASSUME NEW d, NEW e, end'[<<e, d>>] = "none"
  PROVE  PathOK(d, e)'
BY DEF PathOK, Talking

LEMMA PathEnded ==
  ASSUME NEW d, NEW e, Ended(link'[<<d, e>>])
  PROVE  PathOK(d, e)'
BY DEF PathOK, Talking

LEMMA PathTold ==
  ASSUME NEW d, NEW e, end'[<<d, e>>] = "up", store'[d] \in Store,
         end'[<<e, d>>] # "none" => RosterMessage(RosterOf(store'[d])) \in Said(link'[<<d, e>>])
  PROVE  PathOK(d, e)'
<1>1. SUFFICES ASSUME Talking(d, e)', NEW x \in AboutOthers(d, e)
               PROVE  Aware(d, e, x)'
  BY DEF PathOK
<1>2. RosterMessage(RosterOf(store'[d])) \in Said(link'[<<d, e>>])
  BY <1>1 DEF Talking
<1>3. RosterOf(store'[d]) \in Roster /\ RosterCovers(RosterOf(store'[d]), store'[d], x)
  BY RosterOfCovers DEF AboutOthers
<1>4. Carries(link'[<<d, e>>], store'[d], x)
  BY <1>2, <1>3 DEF Carries
<1> QED
  BY <1>4 DEF Aware

LEMMA CoversTransitive ==
  ASSUME NEW s, NEW t, NEW u, NEW r, NEW x
  PROVE  /\ StoreCovers(s, s, x)
         /\ StoreCovers(u, t, x) /\ StoreCovers(t, s, x) => StoreCovers(u, s, x)
         /\ RosterCovers(r, t, x) /\ StoreCovers(t, s, x) => RosterCovers(r, s, x)
BY DEF StoreCovers, RosterCovers

(* Nothing new is said; e may know more, register, or stop talking.        *)
LEMMA PathFrame ==
  ASSUME NEW d \in Device, NEW e \in Device, PathOK(d, e),
         end'[<<d, e>>] = end[<<d, e>>],
         Said(link'[<<d, e>>]) = Said(link[<<d, e>>]),
         end'[<<e, d>>] # "none" => end[<<e, d>>] # "none",
         end'[<<e, d>>] = "starting" => end[<<e, d>>] = "starting",
         end'[<<e, d>>] = "up" => end[<<e, d>>] \in {"starting", "up"},
         end[<<d, e>>] = "up" => \A x \in Device : StoreCovers(store[d], store'[d], x),
         end'[<<e, d>>] = "up" => \A x \in Device : StoreCovers(store'[e], store[e], x)
  PROVE  PathOK(d, e)'
<1>1. Ended(link'[<<d, e>>]) <=> Ended(link[<<d, e>>])
  BY DEF Ended
<1>2. ASSUME Talking(d, e)', NEW x \in AboutOthers(d, e)
      PROVE  Aware(d, e, x)'
  <2>1. Talking(d, e) /\ Aware(d, e, x) /\ x \in Device
    BY <1>1, <1>2 DEF PathOK, Talking, AboutOthers
  <2>2. StoreCovers(store[d], store'[d], x)
    BY <2>1 DEF Talking
  <2>3. CASE end[<<e, d>>] = "up" /\ StoreCovers(store[e], store[d], x)
    <3>1. end'[<<e, d>>] = "up"
      BY <1>2, <2>3 DEF Talking
    <3>2. StoreCovers(store'[e], store[e], x)
      BY <2>1, <3>1
    <3>3. StoreCovers(store'[e], store'[d], x)
      BY <2>2, <2>3, <3>2, CoversTransitive
    <3> QED
      BY <3>1, <3>3 DEF Aware
  <2>4. CASE Carries(link[<<d, e>>], store[d], x)
    <3>1. PICK r \in Roster : RosterMessage(r) \in Said(link[<<d, e>>])
                              /\ RosterCovers(r, store[d], x)
      BY <2>4 DEF Carries
    <3>2. RosterCovers(r, store'[d], x)
      BY <2>2, <3>1, CoversTransitive
    <3> QED
      BY <3>1, <3>2 DEF Aware, Carries
  <2> QED
    BY <2>1, <2>3, <2>4 DEF Aware
<1>3. end'[<<e, d>>] # "none" /\ end'[<<d, e>>] \in {"none", "closing"}
        => Ended(link'[<<d, e>>])
  BY <1>1 DEF PathOK
<1> QED
  BY <1>2, <1>3 DEF PathOK

(* A path that a step does not touch.                                      *)
LEMMA PathSame ==
  ASSUME NEW d \in Device, NEW e \in Device, PathOK(d, e),
         end'[<<d, e>>] = end[<<d, e>>], end'[<<e, d>>] = end[<<e, d>>],
         link'[<<d, e>>] = link[<<d, e>>],
         \A x \in Device : StoreCovers(store[d], store'[d], x),
         \A x \in Device : StoreCovers(store'[e], store[e], x)
  PROVE  PathOK(d, e)'
BY PathFrame

(* At rest, what each of two connected devices knows the other knows too.  *)
LEMMA AgreeAtRest == AgreeInv => RostersAgree
<1> SUFFICES ASSUME AgreeInv, Silent, NEW d \in Device, NEW e \in Device, d # e,
                    end[<<d, e>>] = "up", NEW other \in AboutOthers(d, e)
             PROVE  Trusts(d, other) <=> Trusts(e, other)
  BY DEF RostersAgree
<1>1. /\ <<d, e>> \in Paths /\ <<e, d>> \in Paths
      /\ PathOK(d, e) /\ PathOK(e, d)
  BY PathOf DEF AgreeInv, PathsOK
<1>2. /\ link[<<d, e>>] = <<>> /\ link[<<e, d>>] = <<>>
      /\ end[<<e, d>>] \in {"none", "up"}
  BY <1>1 DEF Silent
<1>3. ~Ended(link[<<d, e>>]) /\ ~Ended(link[<<e, d>>])
  BY <1>2, SaidFew DEF Ended
<1>4. end[<<e, d>>] = "up"
  BY <1>1, <1>2, <1>3 DEF PathOK
<1>5. Talking(d, e) /\ Talking(e, d) /\ other \in AboutOthers(e, d)
  BY <1>3, <1>4 DEF Talking, AboutOthers
<1>6. Aware(d, e, other) /\ Aware(e, d, other)
  BY <1>1, <1>5 DEF PathOK
<1>7. /\ StoreCovers(store[e], store[d], other)
      /\ StoreCovers(store[d], store[e], other)
  BY <1>2, <1>6, SaidFew DEF Aware, Carries
<1>8. other \in Device
  BY DEF AboutOthers
<1>9. \A c \in Device : store[c].peers[other] = None \/ store[c].removed[other] = None
  BY <1>8 DEF AgreeInv, IInv, StoresDated, DatedStore
<1> QED
  BY <1>7, <1>9 DEF StoreCovers, Trusts, Get
-----------------------------------------------------------------------------
LEMMA AgreeFacts ==
  ASSUME AgreeInv
  PROVE  /\ IInv /\ DOMAIN end = Paths /\ DOMAIN link = Paths
         /\ \A d \in Device : store[d] \in Store /\ store[d] \in DatedStore(lastPaired)
         /\ \A path \in Paths : /\ end[path] \in {"none", "starting", "up", "closing"}
                                /\ link[path] \in Seq(DatedMessage(lastPaired))
         /\ \A d, e \in Device : d # e => PathOK(d, e)
<1>1. IInv
  BY DEF AgreeInv
<1>2. /\ DOMAIN end = Paths
      /\ \A path \in Paths : end[path] \in {"none", "starting", "up", "closing"}
  BY <1>1 DEF IInv, Plain
<1>3. /\ DOMAIN link = Paths
      /\ \A path \in Paths : link[path] \in Seq(DatedMessage(lastPaired))
  BY <1>1 DEF IInv, LinksDated
<1>4. \A d \in Device : store[d] \in Store /\ store[d] \in DatedStore(lastPaired)
  BY <1>1 DEF IInv, StoresDated, DatedStore
<1> QED
  BY <1>1, <1>2, <1>3, <1>4 DEF AgreeInv, PathsOK

LEMMA StillCovers ==
  ASSUME store' = store
  PROVE  \A c \in Device : \A x : /\ StoreCovers(store[c], store'[c], x)
                                  /\ StoreCovers(store'[c], store[c], x)
BY DEF StoreCovers

(* Whatever was cut off, an Eof was said last.                             *)
LEMMA CutOff ==
  ASSUME NEW M, NEW q \in Seq(M), Eof \in M, NEW k \in 0..Len(q)
  PROVE  /\ Ended(Append(SubSeq(q, 1, k), Eof))
         /\ Said(Append(SubSeq(q, 1, k), Eof)) \subseteq Said(q) \cup {Eof}
<1> DEFINE part == SubSeq(q, 1, k)
<1>1. part \in Seq(M) /\ Said(part) \subseteq Said(q)
  BY SaidBefore
<1> HIDE DEF part
<1>2. Said(Append(part, Eof)) = Said(part) \cup {Eof}
  BY <1>1, SaidAppended
<1> QED
  BY <1>1, <1>2 DEF part, Ended

(* Once d has stopped reading from e, it has told it.                      *)
LEMMA DroppedPaths ==
  ASSUME AgreeInv, NEW d \in Device, NEW e \in Device, d # e,
         end[<<d, e>>] # "none", NEW kept \in 0..Len(link[<<d, e>>])
  PROVE  /\ end[<<e, d>>] # "none" => Ended(Dropped(d, e, kept)[<<d, e>>])
         /\ \A path \in Paths : path \notin {<<d, e>>, <<e, d>>}
                                => Dropped(d, e, kept)[path] = link[path]
<1> DEFINE M == DatedMessage(lastPaired)
           part == SubSeq(link[<<d, e>>], 1, kept)
<1>1. /\ <<d, e>> \in Paths /\ <<e, d>> \in Paths /\ <<d, e>> # <<e, d>>
      /\ DOMAIN link = Paths /\ link[<<d, e>>] \in Seq(M) /\ PathOK(d, e)
      /\ {Bye, Eof} \subseteq M
  BY AgreeFacts, PathOf, MessageTypes
<1>4. Ended(Append(part, Eof))
  BY <1>1, CutOff
<1>5. ASSUME end[<<e, d>>] # "none"
      PROVE  Ended(Dropped(d, e, kept)[<<d, e>>])
  <2>1. Dropped(d, e, kept)[<<d, e>>]
          = IF end[<<d, e>>] = "closing" THEN link[<<d, e>>] ELSE Append(part, Eof)
    BY <1>1, <1>5 DEF Dropped
  <2>2. end[<<d, e>>] = "closing" => Ended(link[<<d, e>>])
    BY <1>1, <1>5 DEF PathOK
  <2> QED
    BY <1>4, <2>1, <2>2
<1>6. \A path \in Paths : path \notin {<<d, e>>, <<e, d>>}
                          => Dropped(d, e, kept)[path] = link[path]
  BY <1>1 DEF Dropped
<1> QED
  BY <1>5, <1>6

(* A step of the session between a and b only.                             *)
LEMMA OtherPaths ==
  ASSUME AgreeInv, NEW a \in Device, NEW b \in Device, a # b,
         \A path \in Paths : path \notin {<<a, b>>, <<b, a>>}
                             => end'[path] = end[path] /\ link'[path] = link[path],
         \A c \in Device : \A x \in Device : /\ StoreCovers(store[c], store'[c], x)
                                             /\ StoreCovers(store'[c], store[c], x),
         PathOK(a, b)', PathOK(b, a)'
  PROVE  PathsOK'
<1> SUFFICES ASSUME NEW d \in Device, NEW e \in Device, d # e
             PROVE  PathOK(d, e)'
  BY DEF PathsOK
<1>1. CASE <<d, e>> \in {<<a, b>>, <<b, a>>}
  BY <1>1
<1>2. CASE <<d, e>> \notin {<<a, b>>, <<b, a>>}
  <2>1. /\ <<d, e>> \in Paths /\ <<e, d>> \in Paths
        /\ <<e, d>> \notin {<<a, b>>, <<b, a>>}
    BY <1>2, PathOf
  <2>2. /\ end'[<<d, e>>] = end[<<d, e>>] /\ end'[<<e, d>>] = end[<<e, d>>]
        /\ link'[<<d, e>>] = link[<<d, e>>] /\ PathOK(d, e)
    BY <1>2, <2>1, AgreeFacts
  <2> QED
    BY <2>2, PathSame
<1> QED
  BY <1>1, <1>2

(* The mark changes nothing of what a store says.                          *)
LEMMA MarkedStore ==
  ASSUME NEW s \in Store, NEW e \in Device
  PROVE  LET marked == MarkNotified(s, e)
         IN  \A x \in Device :
               /\ marked.peers[x] = s.peers[x]
               /\ marked.removed[x] = None <=> s.removed[x] = None
               /\ marked.removed[x] # None => marked.removed[x].removedAt = s.removed[x].removedAt
<1> DEFINE marked == MarkNotified(s, e)
<1>1. CASE GetRemoved(s, e) = None
  BY <1>1 DEF MarkNotified
<1>2. CASE GetRemoved(s, e) # None
  <2>1. s.removed[e] \in Removal /\ s.removed[e] # None
    BY <1>2, EntryTypes DEF GetRemoved
  <2>2. /\ marked.peers = s.peers
        /\ marked.removed = [s.removed EXCEPT ![e] = [@ EXCEPT !.notified = TRUE]]
    BY <1>2 DEF MarkNotified, Store
  <2>3. /\ [s.removed[e] EXCEPT !.notified = TRUE] \in Removal
        /\ [s.removed[e] EXCEPT !.notified = TRUE].removedAt = s.removed[e].removedAt
    BY <2>1 DEF Removal
  <2>4. None \notin Removal
    BY NoneAssumption
  <2> HIDE DEF marked
  <2>5. \A x \in Device : marked.removed[x] = IF x = e THEN [s.removed[e] EXCEPT !.notified = TRUE]
                                              ELSE s.removed[x]
    BY <2>2 DEF Store
  <2> QED
    BY <2>1, <2>2, <2>3, <2>4, <2>5 DEF marked
<1> QED
  BY <1>1, <1>2

LEMMA HandshakePaths ==
  ASSUME AgreeInv, NEW a \in Device, NEW b \in Device, a # b, Handshake(a, b)
  PROVE  PathsOK'
<1>1. /\ <<a, b>> \in Paths /\ <<b, a>> \in Paths /\ DOMAIN end = Paths
      /\ UNCHANGED <<store, link>>
      /\ end' = [end EXCEPT ![<<a, b>>] = "starting", ![<<b, a>>] = "starting"]
  BY PathOf, AgreeFacts DEF Handshake
<1>2. PathOK(a, b)' /\ PathOK(b, a)'
  BY <1>1, PathStarting
<1> QED
  BY <1>1, <1>2, OtherPaths, StillCovers

LEMMA TellRemovedPaths ==
  ASSUME AgreeInv, NEW a \in Device, NEW b \in Device, a # b, TellRemoved(a, b)
  PROVE  PathsOK'
<1>1. /\ <<a, b>> \in Paths /\ <<b, a>> \in Paths /\ <<a, b>> # <<b, a>>
      /\ DOMAIN end = Paths /\ DOMAIN link = Paths
      /\ end[<<b, a>>] = "none"
      /\ end' = [end EXCEPT ![<<a, b>>] = "starting"]
      /\ link' = [link EXCEPT ![<<b, a>>] = <<Bye, Eof>>]
      /\ store' = [store EXCEPT ![b] = MarkNotified(store[b], a)]
  BY PathOf, AgreeFacts DEF TellRemoved
<1>2. end'[<<b, a>>] = "none" /\ Ended(link'[<<b, a>>])
  BY <1>1, SaidFew DEF Ended
<1>3. PathOK(a, b)' /\ PathOK(b, a)'
  BY <1>2, PathGone, PathEnded
<1>4. \A x \in Device : /\ MarkNotified(store[b], a).peers[x] = store[b].peers[x]
                        /\ MarkNotified(store[b], a).removed[x] = None
                             <=> store[b].removed[x] = None
  BY AgreeFacts, MarkedStore
<1>5. \A c \in Device : \A x \in Device : /\ StoreCovers(store[c], store'[c], x)
                                          /\ StoreCovers(store'[c], store[c], x)
  <2>1. \A c \in Device : c # b => store'[c] = store[c]
    BY <1>1 DEF AgreeInv, IInv, StoresDated
  <2>2. store'[b] = MarkNotified(store[b], a)
    BY <1>1 DEF AgreeInv, IInv, StoresDated
  <2> QED
    BY <1>4, <2>1, <2>2 DEF StoreCovers
<1>6. \A path \in Paths : path \notin {<<a, b>>, <<b, a>>}
                          => end'[path] = end[path] /\ link'[path] = link[path]
  BY <1>1
<1> QED
  BY <1>3, <1>5, <1>6, OtherPaths

(* What is said next.                                                      *)
LEMMA SaidThen ==
  ASSUME NEW M, NEW q \in Seq(M), NEW m \in M
  PROVE  Said(q \o <<m>>) = Said(q) \cup {m} /\ q \o <<>> = q
<1>1. <<m>> \in Seq(M) /\ Said(<<m>>) = {m}
  BY SaidFew
<1>2. Said(q \o <<m>>) = Said(q) \cup Said(<<m>>)
  <2> DEFINE p == <<m>>
  <2>1. p \in Seq(M)
    BY <1>1
  <2> HIDE DEF p
  <2>2. Said(q \o p) = Said(q) \cup Said(p)
    BY <2>1, SaidJoined
  <2> QED
    BY <2>2 DEF p
<1>3. q \o <<>> = q
  OBVIOUS
<1> QED
  BY <1>1, <1>2, <1>3

LEMMA SaidTwo ==
  ASSUME NEW M, NEW q \in Seq(M), NEW m \in M, NEW n \in M
  PROVE  Said(q \o <<m, n>>) = Said(q) \cup {m, n}
<1>1. <<m, n>> \in Seq(M) /\ Said(<<m, n>>) = {m, n}
  BY SaidFew
<1>2. Said(q \o <<m, n>>) = Said(q) \cup Said(<<m, n>>)
  BY <1>1, SaidJoined
<1> QED
  BY <1>1, <1>2

LEMMA RegisterPaths ==
  ASSUME AgreeInv, NEW a \in Device, NEW b \in Device, a # b, Register(a, b)
  PROVE  PathsOK'
<1> DEFINE M == DatedMessage(lastPaired)
           roster == RosterMessage(RosterOf(store[a]))
<1>1. /\ <<a, b>> \in Paths /\ <<b, a>> \in Paths /\ <<a, b>> # <<b, a>>
      /\ DOMAIN end = Paths /\ DOMAIN link = Paths
      /\ end[<<a, b>>] = "starting" /\ store' = store
      /\ link[<<a, b>>] \in Seq(M) /\ PathOK(b, a)
  BY PathOf, AgreeFacts DEF Register
<1>2. CASE Trusts(a, b)
  <2> DEFINE messages == [f \in Device |->
               IF f = b THEN <<RosterMessage(RosterOf(store[a]))>> ELSE <<>>]
  <2>1. /\ end' = [end EXCEPT ![<<a, b>>] = "up"]
        /\ link' = Sent(a, messages, link)
    BY <1>2 DEF Register
  <2>2. \A path \in Paths : link'[path] =
          IF path[1] = a /\ end[<<path[2], a>>] # "none"
          THEN link[path] \o messages[path[2]] ELSE link[path]
    BY <2>1 DEF Sent
  <2>3. \A path \in Paths : path # <<a, b>> => link'[path] = link[path]
    <3> SUFFICES ASSUME NEW path \in Paths, path # <<a, b>>, path[1] = a
                 PROVE  link[path] \o messages[path[2]] = link[path]
      BY <2>2
    <3>1. path[2] # b /\ path[2] \in Device
      BY DEF Paths
    <3>2. messages[path[2]] = <<>>
      BY <3>1
    <3>3. link[path] \in Seq(M) /\ Eof \in M
      BY AgreeFacts, MessageTypes
    <3>4. link[path] \o <<>> = link[path]
      <4> HIDE DEF M
      <4> QED
        BY <3>3, SaidThen
    <3> QED
      BY <3>2, <3>4
  <2>4. end[<<b, a>>] # "none" => roster \in Said(link'[<<a, b>>])
    <3>1. messages[b] = <<roster>> /\ roster \in M
      BY LinkFacts, AgreeFacts
    <3>2. end[<<b, a>>] # "none" => link'[<<a, b>>] = link[<<a, b>>] \o <<roster>>
      BY <1>1, <2>2, <3>1
    <3>3. Said(link[<<a, b>>] \o <<roster>>) = Said(link[<<a, b>>]) \cup {roster}
      <4>1. link[<<a, b>>] \in Seq(M) /\ roster \in M
        BY <1>1, <3>1
      <4> HIDE DEF roster, M
      <4> QED
        BY <4>1, SaidThen
    <3> QED
      BY <3>2, <3>3
  <2>5. /\ end'[<<a, b>>] = "up" /\ end'[<<b, a>>] = end[<<b, a>>]
        /\ link'[<<b, a>>] = link[<<b, a>>]
    BY <1>1, <2>1, <2>3
  <2>6. PathOK(a, b)'
    <3>1. store'[a] = store[a] /\ store[a] \in Store
      BY <1>1, AgreeFacts
    <3> QED
      BY <2>4, <2>5, <3>1, PathTold
  <2>7. PathOK(b, a)'
    BY <1>1, <2>5, StillCovers, PathFrame
  <2>8. \A path \in Paths : path \notin {<<a, b>>, <<b, a>>}
                            => end'[path] = end[path] /\ link'[path] = link[path]
    BY <1>1, <2>1, <2>3
  <2> QED
    BY <1>1, <2>6, <2>7, <2>8, OtherPaths, StillCovers
<1>3. CASE ~Trusts(a, b)
  <2>1. end' = [end EXCEPT ![<<a, b>>] = "none"] /\ link' = Dropped(a, b, 0)
    BY <1>3 DEF Register
  <2>2. 0 \in 0..Len(link[<<a, b>>])
    BY <1>1
  <2>3. /\ end[<<b, a>>] # "none" => Ended(link'[<<a, b>>])
        /\ \A path \in Paths : path \notin {<<a, b>>, <<b, a>>} => link'[path] = link[path]
    BY <1>1, <2>1, <2>2, DroppedPaths
  <2>4. end'[<<a, b>>] = "none" /\ end'[<<b, a>>] = end[<<b, a>>]
    BY <1>1, <2>1
  <2>5. PathOK(a, b)' /\ PathOK(b, a)'
    BY <2>3, <2>4, PathGone, PathEnded
  <2>6. \A path \in Paths : path \notin {<<a, b>>, <<b, a>>} => end'[path] = end[path]
    BY <2>1
  <2> QED
    BY <1>1, <2>3, <2>5, <2>6, OtherPaths, StillCovers
<1> QED
  BY <1>2, <1>3

LEMMA ReadEofPaths ==
  ASSUME AgreeInv, NEW a \in Device, NEW b \in Device, a # b, ReadEof(a, b)
  PROVE  PathsOK'
<1>1. /\ <<a, b>> \in Paths /\ <<b, a>> \in Paths
      /\ DOMAIN end = Paths /\ store' = store
      /\ end[<<a, b>>] # "none"
      /\ end' = [end EXCEPT ![<<a, b>>] = "none"]
  BY PathOf, AgreeFacts DEF ReadEof, Reading
<1>2. PICK kept \in 0..Len(link[<<a, b>>]) : link' = Dropped(a, b, kept)
  BY DEF ReadEof
<1>3. /\ end[<<b, a>>] # "none" => Ended(link'[<<a, b>>])
      /\ \A path \in Paths : path \notin {<<a, b>>, <<b, a>>} => link'[path] = link[path]
  BY <1>1, <1>2, DroppedPaths
<1>4. end'[<<a, b>>] = "none" /\ end'[<<b, a>>] = end[<<b, a>>]
  BY <1>1
<1>5. PathOK(a, b)' /\ PathOK(b, a)'
  BY <1>3, <1>4, PathGone, PathEnded
<1>6. \A path \in Paths : path \notin {<<a, b>>, <<b, a>>} => end'[path] = end[path]
  BY <1>1
<1> QED
  BY <1>1, <1>3, <1>5, <1>6, OtherPaths, StillCovers

LEMMA BreakPaths ==
  ASSUME AgreeInv, NEW a \in Device, NEW b \in Device, a # b, Break(a, b)
  PROVE  PathsOK'
<1> DEFINE M == DatedMessage(lastPaired)
<1>1. /\ <<a, b>> \in Paths /\ <<b, a>> \in Paths /\ <<a, b>> # <<b, a>>
      /\ DOMAIN link = Paths /\ UNCHANGED <<store, end>>
      /\ link[<<a, b>>] \in Seq(M) /\ link[<<b, a>>] \in Seq(M) /\ Eof \in M
  BY PathOf, AgreeFacts, LinkFacts DEF Break
<1>2. PICK there \in 0..Len(link[<<a, b>>]), back \in 0..Len(link[<<b, a>>]) :
        link' = [link EXCEPT ![<<a, b>>] = Append(SubSeq(@, 1, there), Eof),
                             ![<<b, a>>] = Append(SubSeq(@, 1, back), Eof)]
  BY DEF Break
<1>3. /\ link'[<<a, b>>] = Append(SubSeq(link[<<a, b>>], 1, there), Eof)
      /\ link'[<<b, a>>] = Append(SubSeq(link[<<b, a>>], 1, back), Eof)
  BY <1>1, <1>2
<1>4. Ended(link'[<<a, b>>]) /\ Ended(link'[<<b, a>>])
  <2> HIDE DEF M
  <2> QED
    BY <1>1, <1>3, CutOff
<1>5. PathOK(a, b)' /\ PathOK(b, a)'
  BY <1>4, PathEnded
<1>6. \A path \in Paths : path \notin {<<a, b>>, <<b, a>>}
                          => end'[path] = end[path] /\ link'[path] = link[path]
  BY <1>1, <1>2
<1> QED
  BY <1>1, <1>5, <1>6, OtherPaths, StillCovers

LEMMA LoseKeyPaths ==
  ASSUME AgreeInv, NEW a \in Device, LoseKey(a)
  PROVE  PathsOK'
<1>1. /\ store' = store
      /\ \A path \in Paths :
           /\ end'[path] = IF path[1] = a THEN "none" ELSE end[path]
           /\ path[1] # a /\ path[2] # a => link'[path] = link[path]
           /\ path[1] = a /\ end[<<path[2], a>>] # "none" => link'[path] = <<Eof>>
  BY PathOf DEF LoseKey
<1> SUFFICES ASSUME NEW d \in Device, NEW e \in Device, d # e
             PROVE  PathOK(d, e)'
  BY DEF PathsOK
<1>2. <<d, e>> \in Paths /\ <<e, d>> \in Paths /\ PathOK(d, e)
  BY PathOf, AgreeFacts
<1>3. CASE e = a
  <2>1. end'[<<e, d>>] = "none"
    BY <1>1, <1>2, <1>3
  <2> QED
    BY <2>1, PathGone
<1>4. CASE d = a /\ end[<<e, d>>] = "none"
  <2>1. end'[<<e, d>>] = "none"
    BY <1>1, <1>2, <1>4
  <2> QED
    BY <2>1, PathGone
<1>5. CASE d = a /\ end[<<e, d>>] # "none"
  <2>1. link'[<<d, e>>] = <<Eof>>
    BY <1>1, <1>2, <1>5
  <2>2. Ended(link'[<<d, e>>])
    BY <2>1, SaidFew DEF Ended
  <2> QED
    BY <2>2, PathEnded
<1>6. CASE d # a /\ e # a
  <2>1. /\ end'[<<d, e>>] = end[<<d, e>>] /\ end'[<<e, d>>] = end[<<e, d>>]
        /\ link'[<<d, e>>] = link[<<d, e>>]
    BY <1>1, <1>2, <1>6
  <2> QED
    BY <1>1, <1>2, <2>1, StillCovers, PathSame
<1> QED
  BY <1>3, <1>4, <1>5, <1>6

(* A step that leaves stores, sessions and links alone.                    *)
LEMMA PathsUntouched ==
  ASSUME AgreeInv, UNCHANGED <<store, end, link>>
  PROVE  PathsOK'
BY StillCovers, PathSame, AgreeFacts DEF PathsOK
-----------------------------------------------------------------------------
(* send_roster_to_all: who stays connected is told the new roster, who     *)
(* does not that it is over.                                               *)
LEMMA AnnounceLinks ==
  ASSUME NEW links \in [Paths -> Seq(Message)], NEW a \in Device, NEW new \in Store,
         NEW told, NEW closed, Announce(a, new, told, closed, links)
  PROVE  /\ \A path \in Paths :
              path[1] # a => end'[path] = end[path] /\ link'[path] = links[path]
         /\ \A e \in Device \ {a} :
              LET path == <<a, e>>
              IN  /\ end'[path] = IF end[path] = "up" /\ e \in told \cup closed THEN "closing"
                                  ELSE end[path]
                  /\ end'[path] = "up" /\ end[<<e, a>>] # "none"
                       => RosterMessage(RosterOf(new)) \in Said(link'[path])
                  /\ end'[path] # end[path] /\ end[<<e, a>>] # "none" => Ended(link'[path])
                  /\ end[path] # "up" => link'[path] = links[path]
         /\ \A e \in Device \ {a} :
              Said(link'[<<a, e>>])
                \subseteq Said(links[<<a, e>>]) \cup {Bye, Eof, RosterMessage(RosterOf(new))}
<1> DEFINE M == Message
           roster == RosterMessage(RosterOf(new))
           messages == [e \in Device |->
                          CASE e \in Registered(a) \cap told -> <<Bye, Eof>>
                            [] e \in Registered(a) \cap (closed \ told) -> <<Eof>>
                            [] e \in Registered(a) \ (told \cup closed) -> <<roster>>
                            [] OTHER -> <<>>]
<1>1. /\ end' = [path \in Paths |->
           IF path[1] = a /\ end[path] = "up" /\ path[2] \in told \cup closed
           THEN "closing" ELSE end[path]]
      /\ link' = Sent(a, messages, links)
  BY DEF Announce
<1>2. link' = [path \in Paths |->
        IF path[1] = a /\ end[<<path[2], a>>] # "none"
        THEN links[path] \o messages[path[2]] ELSE links[path]]
  BY <1>1 DEF Sent
<1>3. \A e \in Device :
        /\ e \notin Registered(a) => messages[e] = <<>>
        /\ e \in Registered(a) /\ e \in told => messages[e] = <<Bye, Eof>>
        /\ e \in Registered(a) /\ e \notin told /\ e \in closed => messages[e] = <<Eof>>
        /\ e \in Registered(a) /\ e \notin told \cup closed => messages[e] = <<roster>>
  OBVIOUS
<1>4. roster \in M /\ Bye \in M /\ Eof \in M
  <2>1. RosterOf(new) \in Roster
    BY RosterOfCovers
  <2> QED
    BY <2>1 DEF Message, RosterMessage
<1> HIDE DEF M, roster, messages
<1>5. ASSUME NEW path \in Paths, path[1] # a
      PROVE  end'[path] = end[path] /\ link'[path] = links[path]
  BY <1>1, <1>2, <1>5
<1>6. ASSUME NEW e \in Device \ {a}
      PROVE  LET path == <<a, e>>
             IN  /\ end'[path] = IF end[path] = "up" /\ e \in told \cup closed THEN "closing"
                                 ELSE end[path]
                 /\ end'[path] = "up" /\ end[<<e, a>>] # "none" => roster \in Said(link'[path])
                 /\ end'[path] # end[path] /\ end[<<e, a>>] # "none" => Ended(link'[path])
                 /\ end[path] # "up" => link'[path] = links[path]
                 /\ Said(link'[path]) \subseteq Said(links[path]) \cup {Bye, Eof, roster}
  <2> DEFINE q == links[<<a, e>>]
             more == link'[<<a, e>>]
  <2>1. <<a, e>> \in Paths /\ q \in Seq(M)
    BY PathOf DEF M
  <2>2. end'[<<a, e>>] = IF end[<<a, e>>] = "up" /\ e \in told \cup closed THEN "closing"
                         ELSE end[<<a, e>>]
    BY <1>1, <2>1
  <2>3. more = IF end[<<e, a>>] # "none" THEN q \o messages[e] ELSE q
    BY <1>2, <2>1
  <2>4. e \in Registered(a) <=> end[<<a, e>>] = "up"
    BY DEF Registered
  <2> HIDE DEF q, more
  <2>5. q \o <<>> = q
    BY <2>1
  <2>6. /\ Said(q \o <<Bye, Eof>>) = Said(q) \cup {Bye, Eof}
        /\ Said(q \o <<Eof>>) = Said(q) \cup {Eof}
        /\ Said(q \o <<roster>>) = Said(q) \cup {roster}
    <3>1. Said(q \o <<Bye, Eof>>) = Said(q) \cup {Bye, Eof}
      BY <1>4, <2>1, SaidTwo
    <3>2. Said(q \o <<Eof>>) = Said(q) \cup {Eof}
      BY <1>4, <2>1, SaidThen
    <3>3. Said(q \o <<roster>>) = Said(q) \cup {roster}
      BY <1>4, <2>1, SaidThen
    <3> QED
      BY <3>1, <3>2, <3>3
  <2>7. CASE end[<<e, a>>] = "none"
    BY <2>2, <2>3, <2>7 DEF q, more
  <2>8. CASE end[<<e, a>>] # "none" /\ end[<<a, e>>] # "up"
    <3>1. messages[e] = <<>>
      BY <1>3, <2>4, <2>8
    <3>2. more = q
      BY <2>3, <2>5, <2>8, <3>1
    <3> QED
      BY <2>2, <2>8, <3>2 DEF q, more
  <2>9. CASE end[<<e, a>>] # "none" /\ end[<<a, e>>] = "up" /\ e \in told
    <3>1. messages[e] = <<Bye, Eof>>
      BY <1>3, <2>4, <2>9
    <3>2. Said(more) = Said(q) \cup {Bye, Eof} /\ Ended(more)
      BY <2>3, <2>6, <2>9, <3>1 DEF Ended
    <3>3. end'[<<a, e>>] = "closing"
      BY <2>2, <2>9
    <3> QED
      BY <2>2, <2>9, <3>2, <3>3 DEF q, more
  <2>10. CASE end[<<e, a>>] # "none" /\ end[<<a, e>>] = "up" /\ e \notin told /\ e \in closed
    <3>1. messages[e] = <<Eof>>
      BY <1>3, <2>4, <2>10
    <3>2. Said(more) = Said(q) \cup {Eof} /\ Ended(more)
      BY <2>3, <2>6, <2>10, <3>1 DEF Ended
    <3>3. end'[<<a, e>>] = "closing"
      BY <2>2, <2>10
    <3> QED
      BY <2>2, <2>10, <3>2, <3>3 DEF q, more
  <2>11. CASE end[<<e, a>>] # "none" /\ end[<<a, e>>] = "up" /\ e \notin told \cup closed
    <3>1. messages[e] = <<roster>>
      BY <1>3, <2>4, <2>11
    <3>2. Said(more) = Said(q) \cup {roster}
      BY <2>3, <2>6, <2>11, <3>1
    <3> QED
      BY <2>2, <2>11, <3>2 DEF q, more
  <2> QED
    BY <2>7, <2>8, <2>9, <2>10, <2>11
<1>7. \A e \in Device \ {a} : Said(link'[<<a, e>>]) \subseteq Said(links[<<a, e>>]) \cup {Bye, Eof, roster}
  BY <1>6
<1> QED
  BY <1>5, <1>6, <1>7 DEF roster

LEMMA AnnouncePaths ==
  ASSUME AgreeInv, NEW a \in Device, NEW new \in Store, NEW told, NEW closed,
         NEW links \in [Paths -> Seq(Message)],
         \A path \in Paths : path[2] # a => links[path] = link[path],
         store'[a] = new, \A c \in Device : c # a => store'[c] = store[c],
         \A x \in Device : StoreCovers(new, store[a], x),
         Announce(a, new, told, closed, links)
  PROVE  /\ \A e \in Device \ {a} : PathOK(a, e)'
         /\ \A e \in Device \ {a} : links[<<e, a>>] = link[<<e, a>>] => PathOK(e, a)'
         /\ \A e \in Device \ {a} : /\ end'[<<a, e>>] = "up" => end[<<a, e>>] = "up"
                                    /\ end[<<a, e>>] = "closing"
                                         => end'[<<a, e>>] = end[<<a, e>>]
                                    /\ end'[<<e, a>>] = end[<<e, a>>]
                                    /\ link'[<<e, a>>] = links[<<e, a>>]
         /\ \A c \in Device \ {a}, e \in Device \ {a} : c # e => PathOK(c, e)'
<1>1. \A c \in Device : \A x \in Device : StoreCovers(store'[c], store[c], x)
  BY CoversTransitive
<1>2. \A e \in Device \ {a} :
        LET path == <<a, e>>
        IN  /\ end'[path] = IF end[path] = "up" /\ e \in told \cup closed THEN "closing"
                            ELSE end[path]
            /\ end'[path] = "up" /\ end[<<e, a>>] # "none"
                 => RosterMessage(RosterOf(new)) \in Said(link'[path])
            /\ end'[path] # end[path] /\ end[<<e, a>>] # "none" => Ended(link'[path])
            /\ end[path] # "up" => link'[path] = links[path]
  BY AnnounceLinks
<1>3. ASSUME NEW e \in Device \ {a}
      PROVE  /\ PathOK(a, e)'
             /\ links[<<e, a>>] = link[<<e, a>>] => PathOK(e, a)'
             /\ end'[<<a, e>>] = "up" => end[<<a, e>>] = "up"
             /\ end[<<a, e>>] = "closing" => end'[<<a, e>>] = end[<<a, e>>]
             /\ end'[<<e, a>>] = end[<<e, a>>]
             /\ link'[<<e, a>>] = links[<<e, a>>]
  <2>1. /\ <<a, e>> \in Paths /\ <<e, a>> \in Paths /\ links[<<a, e>>] = link[<<a, e>>]
        /\ PathOK(a, e) /\ PathOK(e, a)
        /\ end[<<a, e>>] \in {"none", "starting", "up", "closing"}
    BY PathOf, AgreeFacts
  <2>2. end'[<<e, a>>] = end[<<e, a>>] /\ link'[<<e, a>>] = links[<<e, a>>]
    BY <2>1, AnnounceLinks
  <2>3. /\ end'[<<a, e>>] = end[<<a, e>>]
             \/ (end[<<a, e>>] = "up" /\ end'[<<a, e>>] = "closing")
        /\ end'[<<a, e>>] = "up" /\ end[<<e, a>>] # "none"
             => RosterMessage(RosterOf(new)) \in Said(link'[<<a, e>>])
        /\ end'[<<a, e>>] # end[<<a, e>>] /\ end[<<e, a>>] # "none" => Ended(link'[<<a, e>>])
        /\ end[<<a, e>>] # "up" => link'[<<a, e>>] = links[<<a, e>>]
    <3>1. e \in Device \ {a}
      OBVIOUS
    <3> QED
      BY <1>2, <3>1
  <2>4. PathOK(a, e)'
    <3>1. CASE end[<<e, a>>] = "none"
      BY <2>2, <3>1, PathGone
    <3>2. CASE end[<<e, a>>] # "none" /\ end'[<<a, e>>] # end[<<a, e>>]
      BY <2>3, <3>2, PathEnded
    <3>3. CASE end'[<<a, e>>] = "up"
      BY <1>1, <2>2, <2>3, <3>3, PathTold
    <3>4. CASE end'[<<a, e>>] = end[<<a, e>>] /\ end[<<a, e>>] # "up"
      <4>1. Said(link'[<<a, e>>]) = Said(link[<<a, e>>])
        BY <2>1, <2>3, <3>4
      <4> QED
        BY <1>1, <2>1, <2>2, <3>4, <4>1, PathFrame
    <3> QED
      BY <3>1, <3>2, <3>3, <3>4
  <2>5. ASSUME links[<<e, a>>] = link[<<e, a>>]
        PROVE  PathOK(e, a)'
    <3>1. \A x \in Device : StoreCovers(store[e], store'[e], x)
      BY <1>1, CoversTransitive
    <3>2. Said(link'[<<e, a>>]) = Said(link[<<e, a>>])
      BY <2>2, <2>5
    <3> QED
      BY <1>1, <2>1, <2>2, <2>3, <3>1, <3>2, PathFrame
  <2> QED
    BY <2>2, <2>3, <2>4, <2>5
<1>4. ASSUME NEW c \in Device \ {a}, NEW e \in Device \ {a}, c # e
      PROVE  PathOK(c, e)'
  <2>1. <<c, e>> \in Paths /\ <<e, c>> \in Paths /\ PathOK(c, e)
    BY <1>4, PathOf, AgreeFacts
  <2>2. /\ end'[<<c, e>>] = end[<<c, e>>] /\ end'[<<e, c>>] = end[<<e, c>>]
        /\ link'[<<c, e>>] = links[<<c, e>>]
    <3>1. \A path \in Paths : path[1] # a => end'[path] = end[path] /\ link'[path] = links[path]
      BY AnnounceLinks
    <3> QED
      BY <2>1, <3>1
  <2>3. link'[<<c, e>>] = link[<<c, e>>]
    BY <2>1, <2>2
  <2>4. store'[c] = store[c] /\ store'[e] = store[e]
    BY <1>1
  <2> QED
    BY <2>1, <2>2, <2>3, <2>4, PathSame, CoversTransitive
<1> QED
  BY <1>3, <1>4
-----------------------------------------------------------------------------
(* A store's own change: everybody connected is told.                      *)
LEMMA AnnounceAllPaths ==
  ASSUME AgreeInv, NEW a \in Device, NEW new \in Store, NEW told, NEW closed,
         store' = [store EXCEPT ![a] = new],
         \A x \in Device : StoreCovers(new, store[a], x),
         Announce(a, store'[a], told, closed, link)
  PROVE  PathsOK'
<1>1. store'[a] = new
  BY DEF AgreeInv, IInv, StoresDated
<1>2. link \in [Paths -> Seq(Message)]
  BY InvTyped DEF AgreeInv, TypeOK
<1>3. \A c \in Device : c # a => store'[c] = store[c]
  BY DEF AgreeInv, IInv, StoresDated
<1>4. Announce(a, new, told, closed, link)
  BY <1>1
<1>5. /\ \A e \in Device \ {a} : PathOK(a, e)'
      /\ \A e \in Device \ {a} : PathOK(e, a)'
      /\ \A c \in Device \ {a}, e \in Device \ {a} : c # e => PathOK(c, e)'
  BY <1>1, <1>2, <1>3, <1>4, AnnouncePaths
<1> SUFFICES ASSUME NEW d \in Device, NEW e \in Device, d # e
             PROVE  PathOK(d, e)'
  BY DEF PathsOK
<1>6. CASE d = a
  BY <1>5, <1>6
<1>7. CASE e = a
  BY <1>5, <1>7
<1>8. CASE d # a /\ e # a
  BY <1>5, <1>8
<1> QED
  BY <1>6, <1>7, <1>8

LEMMA UpsertCovers ==
  ASSUME NEW s \in Store, NEW e \in Device, NEW k \in Nat, NEW t \in Nat, s.removed[e] = None
  PROVE  /\ \A x \in Device : StoreCovers(Upsert(s, e, k, t), s, x)
         /\ \A x \in Device : Upsert(s, e, k, t).removed[x] = s.removed[x]
<1> DEFINE new == Upsert(s, e, k, t)
<1>1. [key |-> k, pairedAt |-> t] # None
  BY NoneAssumption DEF Member
<1>2. new.peers[e] # None
  BY <1>1 DEF Upsert, Store
<1>3. /\ new.removed[e] = None
      /\ \A f \in Device : f # e => new.peers[f] = s.peers[f] /\ new.removed[f] = s.removed[f]
  BY UpsertStore
<1> HIDE DEF new
<1>4. \A x \in Device : StoreCovers(new, s, x)
  BY <1>2, <1>3 DEF StoreCovers
<1> QED
  BY <1>3, <1>4 DEF new

LEMMA RemoveCovers ==
  ASSUME NEW s \in Store, NEW e \in Device, NEW t \in Nat, s.peers[e] # None
  PROVE  /\ \A x \in Device : StoreCovers(RemoveMember(s, e, t), s, x)
         /\ RemoveMember(s, e, t).removed[e] # None
         /\ RemoveMember(s, e, t).removed[e].removedAt = t
<1> DEFINE new == RemoveMember(s, e, t)
           entry == [key |-> s.peers[e].key, removedAt |-> t, notified |-> FALSE]
<1>1. entry # None /\ entry.removedAt = t
  <2>1. s.peers[e].key \in Nat
    BY EntryTypes
  <2>2. entry \in Removal
    BY <2>1 DEF Removal
  <2> HIDE DEF entry
  <2>3. entry # None
    BY <2>2, NoneAssumption
  <2> QED
    BY <2>3 DEF entry
<1>2. new.removed[e] = entry
  BY DEF RemoveMember, Store
<1>3. \A f \in Device : f # e => new.peers[f] = s.peers[f] /\ new.removed[f] = s.removed[f]
  BY RemoveStore
<1> HIDE DEF new, entry
<1>4. \A x \in Device : StoreCovers(new, s, x)
  BY <1>1, <1>2, <1>3 DEF StoreCovers
<1> QED
  BY <1>1, <1>2, <1>4 DEF new

(* Both that follow change one store, at a time of its device's clock.     *)
LEMMA StorePeerPaths ==
  ASSUME AgreeInv, NEW pending \in storing, StorePeer(pending),
         \A c \in Device : store[c].removed[pending.of] = None
  PROVE  PathsOK'
<1> DEFINE d == pending.by
           e == pending.of
           k == pending.key
           time == now + 1 + ClockSkew[d]
<1>1. d \in Device /\ e \in Device /\ k \in Nat /\ time \in Nat
  BY BoundsAssumption DEF AgreeInv, IInv, Plain
<1>2. /\ store' = [store EXCEPT ![d] = Upsert(store[d], e, k, time)]
      /\ Announce(d, store'[d], {}, {}, link)
  BY DEF StorePeer, LocalTime
<1>3. store[d] \in Store /\ store[d].removed[e] = None
  BY <1>1, AgreeFacts
<1> HIDE DEF d, e, k, time
<1>4. /\ Upsert(store[d], e, k, time) \in Store
      /\ \A x \in Device : StoreCovers(Upsert(store[d], e, k, time), store[d], x)
  BY <1>1, <1>3, UpsertStore, UpsertCovers
<1> QED
  BY <1>1, <1>2, <1>4, AnnounceAllPaths

LEMMA RemovePeerPaths ==
  ASSUME AgreeInv, NEW d \in Device, NEW e \in Device, RemovePeer(d, e)
  PROVE  PathsOK'
<1> DEFINE time == now + 1 + ClockSkew[d]
<1>1. time \in Nat
  BY BoundsAssumption DEF AgreeInv, IInv, Plain
<1>2. /\ store' = [store EXCEPT ![d] = RemoveMember(store[d], e, time)]
      /\ Announce(d, store'[d], {e}, {}, link)
  BY DEF RemovePeer, LocalTime
<1>3. store[d] \in Store /\ store[d].peers[e] # None
  BY AgreeFacts DEF RemovePeer, Trusts, Get
<1> HIDE DEF time
<1>4. /\ RemoveMember(store[d], e, time) \in Store
      /\ \A x \in Device : StoreCovers(RemoveMember(store[d], e, time), store[d], x)
  BY <1>1, <1>3, RemoveStore, RemoveCovers
<1> QED
  BY <1>2, <1>4, AnnounceAllPaths

(* a has taken in what b said first.                                       *)
LEMMA HeardPath ==
  ASSUME NEW a \in Device, NEW b \in Device, PathOK(b, a), NEW roster,
         Said(link[<<b, a>>]) = {RosterMessage(roster)} \cup Said(link'[<<b, a>>]),
         end'[<<b, a>>] = end[<<b, a>>],
         end[<<a, b>>] # "none",
         end'[<<a, b>>] \in {"starting", "up"} => end'[<<a, b>>] = "up" /\ end[<<a, b>>] = "up",
         store'[b] = store[b],
         \A x \in Device : StoreCovers(store'[a], store[a], x),
         \A x \in AboutOthers(a, b) :
           /\ roster.removed[x] # None => store'[a].removed[x] # None
           /\ roster.members[x] # None => store'[a].peers[x] # None \/ store'[a].removed[x] # None
  PROVE  PathOK(b, a)'
<1>1. Ended(link'[<<b, a>>]) <=> Ended(link[<<b, a>>])
  BY Messages DEF Ended
<1>2. ASSUME Talking(b, a)', NEW x \in AboutOthers(b, a)
      PROVE  Aware(b, a, x)'
  <2>1. /\ Talking(b, a) /\ Aware(b, a, x) /\ x \in Device /\ x \in AboutOthers(a, b)
        /\ end'[<<a, b>>] = "up"
    BY <1>1, <1>2 DEF PathOK, Talking, AboutOthers
  <2>2. CASE StoreCovers(store[a], store[b], x)
    <3>1. StoreCovers(store'[a], store[a], x)
      BY <2>1
    <3>2. StoreCovers(store'[a], store'[b], x)
      BY <2>2, <3>1, CoversTransitive
    <3> QED
      BY <2>1, <3>2 DEF Aware
  <2>3. CASE Carries(link[<<b, a>>], store[b], x)
    <3>1. PICK r \in Roster : RosterMessage(r) \in Said(link[<<b, a>>])
                              /\ RosterCovers(r, store[b], x)
      BY <2>3 DEF Carries
    <3>2. CASE RosterMessage(r) \in Said(link'[<<b, a>>])
      BY <3>1, <3>2 DEF Aware, Carries
    <3>3. CASE RosterMessage(r) = RosterMessage(roster)
      <4>1. r = roster
        BY <3>3, Messages
      <4>2. StoreCovers(store'[a], store'[b], x)
        BY <2>1, <3>1, <4>1 DEF StoreCovers, RosterCovers
      <4> QED
        BY <2>1, <4>2 DEF Aware
    <3> QED
      BY <3>1, <3>2, <3>3
  <2> QED
    BY <2>1, <2>2, <2>3 DEF Aware
<1>3. end'[<<b, a>>] \in {"none", "closing"} => Ended(link'[<<b, a>>])
  BY <1>1 DEF PathOK
<1> QED
  BY <1>2, <1>3 DEF PathOK

(* What ReadRoster reads, and what it leaves unread.                       *)
LEMMA ReadRosterFacts ==
  ASSUME AgreeInv, NEW a \in Device, NEW b \in Device, a # b, ReadRoster(a, b)
  PROVE  LET roster == Incoming(a, b).roster
             new    == Merge(store[a], a, b, roster)
             rest   == [link EXCEPT ![<<b, a>>] = Tail(@)]
         IN  /\ roster \in Roster /\ RosterMessage(roster) \in Said(link[<<b, a>>])
             /\ Said(link[<<b, a>>]) = {RosterMessage(roster)} \cup Said(rest[<<b, a>>])
             /\ \A path \in Paths : path # <<b, a>> => rest[path] = link[path]
             /\ rest \in [Paths -> Seq(Message)]
             /\ new \in Store /\ RemovalsFrom(lastPaired, new)
             /\ \A x \in Device : StoreCovers(new, store[a], x)
             /\ \A x \in AboutOthers(a, b) :
                  /\ roster.removed[x] # None => new.removed[x] # None
                  /\ roster.members[x] # None => new.peers[x] # None \/ new.removed[x] # None
<1> DEFINE roster == Incoming(a, b).roster
           new    == Merge(store[a], a, b, roster)
           rest   == [link EXCEPT ![<<b, a>>] = Tail(@)]
           M      == DatedMessage(lastPaired)
           q      == link[<<b, a>>]
<1>1. /\ <<b, a>> \in Paths /\ q # <<>> /\ q \in Seq(M)
      /\ Incoming(a, b) = Head(q) /\ Incoming(a, b).type = "roster"
      /\ DOMAIN link = Paths /\ AgreeInv
  BY PathOf, AgreeFacts DEF ReadRoster, Reading, Incoming
<1>2. Incoming(a, b) \in M
  BY <1>1, LinkFacts DEF Incoming, AgreeInv
<1>3. Incoming(a, b) = RosterMessage(roster) /\ roster \in DatedRoster(lastPaired)
  BY <1>1, <1>2, Messages
<1>4. rest[<<b, a>>] = Tail(q) /\ \A path \in Paths : path # <<b, a>> => rest[path] = link[path]
  BY <1>1
<1>5. Said(q) = {Head(q)} \cup Said(Tail(q))
  <2> HIDE DEF q, M
  <2> QED
    BY <1>1, SaidFirst
<1>6. rest \in [Paths -> Seq(Message)]
  <2>1. link \in [Paths -> Seq(Message)]
    BY InvTyped DEF AgreeInv, TypeOK
  <2>2. q \in Seq(Message)
    BY <1>1, <2>1
  <2>3. Tail(q) \in Seq(Message)
    BY <1>1, <2>2
  <2> HIDE DEF q
  <2> QED
    BY <2>1, <2>3, OnePath DEF q
<1>7. RosterMessage(roster) \in Said(q)
  BY <1>1, <1>3, <1>5
<1>8. /\ RemovalsFrom(lastPaired, store[a]) /\ RemovalsFrom(lastPaired, roster)
      /\ roster \in Roster
  BY <1>1, <1>3, <1>7 DEF AgreeInv, RemovalsLast, DatedRoster
<1> HIDE DEF roster
<1>9. /\ RemovalsFrom(lastPaired, new) /\ new \in DatedStore(lastPaired)
      /\ \A x \in Device : StoreCovers(new, store[a], x)
      /\ \A x \in AboutOthers(a, b) :
           /\ roster.removed[x] # None => new.removed[x] # None
           /\ roster.members[x] # None => new.peers[x] # None \/ new.removed[x] # None
  <2>1. store[a] \in DatedStore(lastPaired) /\ lastPaired \in [Device -> Nat]
    BY AgreeFacts DEF AgreeInv, IInv, Plain
  <2> QED
    BY <1>3, <1>8, <2>1, MergeGrows, MergeDated
<1>10. new \in Store
  BY <1>9 DEF DatedStore
<1> HIDE DEF new, rest, q
<1> QED
  BY <1>1, <1>3, <1>4, <1>5, <1>6, <1>7, <1>8, <1>9, <1>10 DEF roster, new, rest, q

LEMMA ReadRosterPaths ==
  ASSUME AgreeInv, NEW a \in Device, NEW b \in Device, a # b, ReadRoster(a, b)
  PROVE  PathsOK'
<1> DEFINE roster == Incoming(a, b).roster
           new    == Merge(store[a], a, b, roster)
           rest   == [link EXCEPT ![<<b, a>>] = Tail(@)]
<1>1. /\ roster \in Roster
      /\ Said(link[<<b, a>>]) = {RosterMessage(roster)} \cup Said(rest[<<b, a>>])
      /\ \A path \in Paths : path # <<b, a>> => rest[path] = link[path]
      /\ rest \in [Paths -> Seq(Message)]
      /\ new \in Store
      /\ \A x \in Device : StoreCovers(new, store[a], x)
      /\ \A x \in AboutOthers(a, b) :
           /\ roster.removed[x] # None => new.removed[x] # None
           /\ roster.members[x] # None => new.peers[x] # None \/ new.removed[x] # None
  BY ReadRosterFacts
<1>2. /\ store' = [store EXCEPT ![a] = new]
      /\ \/ Announce(a, new, Removed(store[a], new), Added(store[a], new), rest)
         \/ new = store[a] /\ link' = rest /\ end' = end
      /\ end[<<a, b>>] \in {"up", "closing"}
  BY DEF ReadRoster, Reading, HasNews
<1> HIDE DEF roster, new, rest
<1>3. /\ <<a, b>> \in Paths /\ <<b, a>> \in Paths /\ <<a, b>> # <<b, a>>
      /\ PathOK(b, a)
  BY PathOf, AgreeFacts
<1>4. /\ store'[a] = new
      /\ \A c \in Device : c # a => store'[c] = store[c]
  BY <1>2 DEF AgreeInv, IInv, StoresDated
<1>5. ASSUME end'[<<b, a>>] = end[<<b, a>>], link'[<<b, a>>] = rest[<<b, a>>],
             end'[<<a, b>>] = "up" => end[<<a, b>>] = "up",
             end[<<a, b>>] = "closing" => end'[<<a, b>>] = end[<<a, b>>],
             end'[<<a, b>>] # "starting"
      PROVE  PathOK(b, a)'
  <2>1. /\ Said(link[<<b, a>>]) = {RosterMessage(roster)} \cup Said(link'[<<b, a>>])
        /\ end[<<a, b>>] # "none"
        /\ end'[<<a, b>>] \in {"starting", "up"} => end'[<<a, b>>] = "up" /\ end[<<a, b>>] = "up"
    BY <1>1, <1>2, <1>5
  <2>2. store'[b] = store[b] /\ \A x \in Device : StoreCovers(store'[a], store[a], x)
    BY <1>1, <1>4
  <2>3. \A x \in AboutOthers(a, b) :
          /\ roster.removed[x] # None => store'[a].removed[x] # None
          /\ roster.members[x] # None => store'[a].peers[x] # None \/ store'[a].removed[x] # None
    BY <1>1, <1>4
  <2> QED
    BY <1>3, <1>5, <2>1, <2>2, <2>3, HeardPath
<1>6. CASE Announce(a, new, Removed(store[a], new), Added(store[a], new), rest)
  <2> DEFINE told == Removed(store[a], new)
             closed == Added(store[a], new)
  <2>1. \A path \in Paths : path[2] # a => rest[path] = link[path]
    BY <1>1
  <2>2. Announce(a, new, told, closed, rest)
    BY <1>6
  <2> HIDE DEF told, closed
  <2>3. /\ \A e \in Device \ {a} : PathOK(a, e)'
        /\ \A e \in Device \ {a} : rest[<<e, a>>] = link[<<e, a>>] => PathOK(e, a)'
        /\ \A c \in Device \ {a}, e \in Device \ {a} : c # e => PathOK(c, e)'
    BY <1>1, <1>4, <2>1, <2>2, AnnouncePaths
  <2>4. \A e \in Device \ {a} : /\ end'[<<a, e>>] = "up" => end[<<a, e>>] = "up"
                                /\ end[<<a, e>>] = "closing" => end'[<<a, e>>] = end[<<a, e>>]
                                /\ end'[<<e, a>>] = end[<<e, a>>]
                                /\ link'[<<e, a>>] = rest[<<e, a>>]
    BY <1>1, <1>4, <2>1, <2>2, AnnouncePaths
  <2>5. end'[<<a, b>>] # "starting"
    <3>1. end'[<<a, b>>] = IF end[<<a, b>>] = "up" /\ b \in told \cup closed THEN "closing"
                           ELSE end[<<a, b>>]
      BY <1>3, <2>2 DEF Announce
    <3> QED
      BY <1>2, <3>1
  <2>6. PathOK(b, a)'
    <3>1. b \in Device \ {a}
      OBVIOUS
    <3>2. /\ end'[<<b, a>>] = end[<<b, a>>] /\ link'[<<b, a>>] = rest[<<b, a>>]
          /\ end'[<<a, b>>] = "up" => end[<<a, b>>] = "up"
          /\ end[<<a, b>>] = "closing" => end'[<<a, b>>] = end[<<a, b>>]
      BY <2>4, <3>1
    <3> QED
      BY <1>5, <2>5, <3>2
  <2> SUFFICES ASSUME NEW d \in Device, NEW e \in Device, d # e
               PROVE  PathOK(d, e)'
    BY DEF PathsOK
  <2>7. CASE d = a
    BY <2>3, <2>7
  <2>8. CASE e = a /\ d # b
    <3>1. <<d, a>> \in Paths /\ <<d, a>> # <<b, a>>
      BY <2>8, PathOf
    <3>2. rest[<<d, a>>] = link[<<d, a>>]
      BY <1>1, <3>1
    <3> QED
      BY <2>3, <2>8, <3>2
  <2>9. CASE d # a /\ e # a
    BY <2>3, <2>9
  <2> QED
    BY <2>6, <2>7, <2>8, <2>9
<1>7. CASE new = store[a] /\ link' = rest /\ end' = end
  <2>1. PathOK(b, a)'
    BY <1>2, <1>5, <1>7
  <2>2. \A c \in Device : store'[c] = store[c]
    BY <1>4, <1>7
  <2> SUFFICES ASSUME NEW d \in Device, NEW e \in Device, d # e, <<d, e>> # <<b, a>>
               PROVE  PathOK(d, e)'
    BY <2>1 DEF PathsOK
  <2>3. <<d, e>> \in Paths /\ PathOK(d, e)
    BY PathOf, AgreeFacts
  <2>4. link'[<<d, e>>] = link[<<d, e>>]
    BY <1>1, <1>7, <2>3
  <2>5. /\ \A x \in Device : StoreCovers(store[d], store'[d], x)
        /\ \A x \in Device : StoreCovers(store'[e], store[e], x)
    BY <2>2, CoversTransitive
  <2> QED
    BY <1>7, <2>3, <2>4, <2>5, PathSame
<1> QED
  BY <1>2, <1>6, <1>7

LEMMA ReadByePaths ==
  ASSUME AgreeInv, NEW a \in Device, NEW b \in Device, a # b, ReadBye(a, b)
  PROVE  PathsOK'
<1> DEFINE M == DatedMessage(lastPaired)
           leaves == Trusts(a, b)
<1>1. PICK kept \in 0..Len(link[<<a, b>>]) :
        /\ store' = [store EXCEPT ![a] = IF leaves THEN Clear(@) ELSE @]
        /\ end' = [path \in Paths |->
             IF path = <<a, b>> THEN "none"
             ELSE IF leaves /\ path[1] = a /\ end[path] = "up" THEN "closing"
             ELSE end[path]]
        /\ link' = [path \in Paths |->
             IF leaves /\ path[1] = a /\ path[2] \in Registered(a) \ {b}
                /\ end[<<path[2], a>>] # "none"
             THEN Append(Dropped(a, b, kept)[path], Eof) ELSE Dropped(a, b, kept)[path]]
  BY DEF ReadBye
<1>2. end[<<a, b>>] # "none"
  BY DEF ReadBye, Reading
<1>3. /\ end[<<b, a>>] # "none" => Ended(Dropped(a, b, kept)[<<a, b>>])
      /\ \A path \in Paths : path \notin {<<a, b>>, <<b, a>>}
                             => Dropped(a, b, kept)[path] = link[path]
  BY <1>2, DroppedPaths
<1>4. /\ \A c \in Device : c # a => store'[c] = store[c]
      /\ ~leaves => store'[a] = store[a]
  BY <1>1 DEF AgreeInv, IInv, StoresDated
<1>5. <<a, b>> \in Paths /\ <<b, a>> \in Paths
  BY PathOf
<1> HIDE DEF leaves, M
<1> SUFFICES ASSUME NEW d \in Device, NEW e \in Device, d # e
             PROVE  PathOK(d, e)'
  BY DEF PathsOK
<1>6. <<d, e>> \in Paths /\ <<e, d>> \in Paths /\ PathOK(d, e)
  BY PathOf, AgreeFacts
<1>7. CASE d = a /\ e = b
  <2>1. end'[<<b, a>>] = end[<<b, a>>]
    BY <1>1, <1>5
  <2>2. link'[<<a, b>>] = Dropped(a, b, kept)[<<a, b>>]
    BY <1>1, <1>5
  <2>3. CASE end[<<b, a>>] = "none"
    BY <1>7, <2>1, <2>3, PathGone
  <2>4. CASE end[<<b, a>>] # "none"
    BY <1>3, <1>7, <2>2, <2>4, PathEnded
  <2> QED
    BY <2>3, <2>4
<1>8. CASE d = b /\ e = a
  <2>1. end'[<<a, b>>] = "none"
    BY <1>1, <1>5
  <2> QED
    BY <1>8, <2>1, PathGone
<1>9. CASE d = a /\ e # b
  <2>1. Dropped(a, b, kept)[<<a, e>>] = link[<<a, e>>]
    <3>1. <<a, e>> \in Paths /\ <<a, e>> \notin {<<a, b>>, <<b, a>>}
      BY <1>6, <1>9
    <3> QED
      BY <1>3, <3>1
  <2>2. end'[<<e, a>>] = end[<<e, a>>]
    BY <1>1, <1>6, <1>9
  <2>3. CASE leaves /\ end[<<a, e>>] = "up"
    <3>1. CASE end[<<e, a>>] = "none"
      BY <1>9, <2>2, <3>1, PathGone
    <3>2. CASE end[<<e, a>>] # "none"
      <4> DEFINE q == link[<<a, e>>]
      <4>1. e \in Registered(a) \ {b}
        BY <1>9, <2>3 DEF Registered
      <4>2. link'[<<a, e>>] = Append(q, Eof)
        BY <1>1, <1>6, <1>9, <2>1, <2>3, <3>2, <4>1
      <4>3. q \in Seq(M) /\ Eof \in M
        BY <1>6, <1>9, AgreeFacts, MessageTypes DEF M
      <4> HIDE DEF q
      <4>4. Said(Append(q, Eof)) = Said(q) \cup {Eof}
        BY <4>3, SaidAppended
      <4>5. Ended(link'[<<a, e>>])
        BY <4>2, <4>4 DEF Ended
      <4> QED
        BY <1>9, <4>5, PathEnded
    <3> QED
      BY <3>1, <3>2
  <2>4. CASE ~(leaves /\ end[<<a, e>>] = "up")
    <3>1. end'[<<a, e>>] = end[<<a, e>>]
      BY <1>1, <1>6, <1>9, <2>4
    <3>2. link'[<<a, e>>] = link[<<a, e>>]
      BY <1>1, <1>6, <1>9, <2>1, <2>4 DEF Registered
    <3>3. end[<<a, e>>] = "up" => \A x \in Device : StoreCovers(store[a], store'[a], x)
      BY <1>4, <2>4, CoversTransitive
    <3>4. \A x \in Device : StoreCovers(store'[e], store[e], x)
      BY <1>4, <1>9, CoversTransitive
    <3> QED
      BY <1>6, <1>9, <2>2, <3>1, <3>2, <3>3, <3>4, PathFrame
  <2> QED
    BY <2>3, <2>4
<1>10. CASE e = a /\ d # b
  <2>1. link'[<<d, a>>] = link[<<d, a>>]
    <3>1. <<d, a>> \notin {<<a, b>>, <<b, a>>} /\ d # a
      BY <1>10
    <3> QED
      BY <1>1, <1>3, <1>6, <1>10, <3>1
  <2>2. end'[<<d, a>>] = end[<<d, a>>]
    BY <1>1, <1>6, <1>10
  <2>3. end'[<<a, d>>] = IF leaves /\ end[<<a, d>>] = "up" THEN "closing" ELSE end[<<a, d>>]
    BY <1>1, <1>6, <1>10
  <2>4. end'[<<a, d>>] = "up" => \A x \in Device : StoreCovers(store'[a], store[a], x)
    BY <1>4, <2>3, CoversTransitive
  <2>5. \A x \in Device : StoreCovers(store[d], store'[d], x)
    BY <1>4, <1>10, CoversTransitive
  <2> QED
    BY <1>6, <1>10, <2>1, <2>2, <2>3, <2>4, <2>5, PathFrame
<1>11. CASE d # a /\ e # a
  <2>1. end'[<<d, e>>] = end[<<d, e>>] /\ end'[<<e, d>>] = end[<<e, d>>]
    BY <1>1, <1>6, <1>11
  <2>2. link'[<<d, e>>] = link[<<d, e>>]
    BY <1>1, <1>3, <1>6, <1>11
  <2>3. /\ \A x \in Device : StoreCovers(store[d], store'[d], x)
        /\ \A x \in Device : StoreCovers(store'[e], store[e], x)
    BY <1>4, <1>11, CoversTransitive
  <2> QED
    BY <1>6, <2>1, <2>2, <2>3, PathSame
<1> QED
  BY <1>7, <1>8, <1>9, <1>10, <1>11
-----------------------------------------------------------------------------
(* Dates.  What a step says is a goodbye or the roster of a store as it    *)
(* is after the step.                                                      *)
NothingInvented ==
  \A path \in Paths : \A m \in Said(link'[path]) :
    m \in Said(link[path]) \cup {Bye, Eof} \/ \E c \in Device : m = RosterMessage(RosterOf(store'[c]))

LEMMA RemovalsKept ==
  ASSUME RemovalsLast, NothingInvented,
         \A d \in Device : store'[d] \in Store /\ RemovalsFrom(lastPaired', store'[d]),
         \A d, x \in Device : store[d].removed[x] # None
                              => store'[d].removed[x] # None /\ lastPaired'[x] = lastPaired[x]
  PROVE  RemovalsLast'
<1>1. ASSUME NEW path \in Paths, NEW r \in Roster, RosterMessage(r) \in Said(link'[path])
      PROVE  /\ RemovalsFrom(lastPaired', r)
             /\ \A x \in Device : r.removed[x] # None => \E d \in Device : store'[d].removed[x] # None
  <2>1. \/ RosterMessage(r) \in Said(link[path])
        \/ \E c \in Device : RosterMessage(r) = RosterMessage(RosterOf(store'[c]))
    BY <1>1, Messages DEF NothingInvented
  <2>2. CASE RosterMessage(r) \in Said(link[path])
    <3>1. /\ RemovalsFrom(lastPaired, r)
          /\ \A x \in Device : r.removed[x] # None => \E d \in Device : store[d].removed[x] # None
      BY <2>2 DEF RemovalsLast
    <3> QED
      BY <3>1 DEF RemovalsFrom
  <2>3. CASE \E c \in Device : RosterMessage(r) = RosterMessage(RosterOf(store'[c]))
    <3>1. PICK c \in Device : r = RosterOf(store'[c])
      BY <2>3, Messages
    <3>2. store'[c] \in Store /\ RemovalsFrom(lastPaired', store'[c])
      OBVIOUS
    <3>3. \A x \in Device : r.removed[x] # None =>
            /\ store'[c].removed[x] # None
            /\ r.removed[x].removedAt = store'[c].removed[x].removedAt
      BY <3>1, <3>2, RosterOfCovers
    <3> QED
      BY <3>2, <3>3 DEF RemovalsFrom
  <2> QED
    BY <2>1, <2>2, <2>3
<1> QED
  BY <1>1 DEF RemovalsLast

LEMMA ClockStaysPast ==
  ASSUME IInv, ClockPast, lastPaired' = lastPaired, now' \in {now, now + 1}
  PROVE  ClockPast'
<1>1. \A d, x \in Device : ClockSkew[d] \in Nat /\ lastPaired[x] \in Nat /\ now \in Nat
  BY BoundsAssumption DEF IInv, Plain
<1> QED
  BY <1>1 DEF ClockPast, LocalTime

LEMMA SameDates ==
  ASSUME AgreeInv, NothingInvented, UNCHANGED <<store, lastPaired, now>>
  PROVE  RemovalsLast' /\ ClockPast'
<1>1. RemovalsLast'
  <2>1. \A d \in Device : store'[d] \in Store /\ RemovalsFrom(lastPaired', store'[d])
    BY AgreeFacts DEF AgreeInv, RemovalsLast
  <2> QED
    BY <2>1, RemovalsKept DEF AgreeInv
<1>2. ClockPast'
  BY ClockStaysPast DEF AgreeInv
<1> QED
  BY <1>1, <1>2

LEMMA DroppedSaid ==
  ASSUME AgreeInv, NEW d \in Device, NEW e \in Device, d # e,
         NEW kept \in 0..Len(link[<<d, e>>])
  PROVE  \A path \in Paths : Said(Dropped(d, e, kept)[path]) \subseteq Said(link[path]) \cup {Eof}
<1> DEFINE M == DatedMessage(lastPaired)
           q == link[<<d, e>>]
           cut == Append(SubSeq(q, 1, kept), Eof)
<1>1. /\ <<d, e>> \in Paths /\ <<e, d>> \in Paths /\ <<d, e>> # <<e, d>>
      /\ DOMAIN link = Paths /\ q \in Seq(M) /\ Eof \in M
  BY AgreeFacts, PathOf, MessageTypes
<1>2. Said(cut) \subseteq Said(q) \cup {Eof}
  <2> HIDE DEF q, M
  <2> QED
    BY <1>1, CutOff DEF q
<1>3. \A path \in Paths :
        \/ Dropped(d, e, kept)[path] = link[path]
        \/ Dropped(d, e, kept)[path] = <<>>
        \/ path = <<d, e>> /\ Dropped(d, e, kept)[path] = cut
  BY <1>1 DEF Dropped
<1> HIDE DEF cut
<1> QED
  BY <1>2, <1>3, SaidFew

LEMMA AnnounceSaid ==
  ASSUME NEW links \in [Paths -> Seq(Message)], NEW a \in Device, NEW new \in Store,
         NEW told, NEW closed, Announce(a, new, told, closed, links)
  PROVE  \A path \in Paths :
           Said(link'[path]) \subseteq Said(links[path]) \cup {Bye, Eof, RosterMessage(RosterOf(new))}
<1>2. \A path \in Paths : path[1] # a => link'[path] = links[path]
  BY AnnounceLinks
<1>3. \A e \in Device \ {a} :
        Said(link'[<<a, e>>])
          \subseteq Said(links[<<a, e>>]) \cup {Bye, Eof, RosterMessage(RosterOf(new))}
  BY AnnounceLinks
<1> SUFFICES ASSUME NEW path \in Paths
             PROVE  Said(link'[path])
                      \subseteq Said(links[path]) \cup {Bye, Eof, RosterMessage(RosterOf(new))}
  OBVIOUS
<1>4. CASE path[1] = a
  <2>1. path[2] \in Device \ {a} /\ path = <<a, path[2]>>
    BY <1>4 DEF Paths
  <2> QED
    BY <1>3, <2>1
<1>5. CASE path[1] # a
  BY <1>2, <1>5
<1> QED
  BY <1>4, <1>5

LEMMA SessionDates ==
  ASSUME AgreeInv, NEW a \in Device, NEW b \in Device, a # b,
         \/ Handshake(a, b) \/ Register(a, b) \/ ReadEof(a, b) \/ Break(a, b)
  PROVE  RemovalsLast' /\ ClockPast'
<1> DEFINE M == DatedMessage(lastPaired)
<1>1. UNCHANGED <<store, lastPaired, now>>
  BY DEF Handshake, Register, ReadEof, Break
<1>2. /\ <<a, b>> \in Paths /\ <<b, a>> \in Paths /\ DOMAIN link = Paths
      /\ link[<<a, b>>] \in Seq(M) /\ link[<<b, a>>] \in Seq(M) /\ Eof \in M
  BY PathOf, AgreeFacts, MessageTypes
<1>3. CASE Handshake(a, b)
  <2>1. NothingInvented
    BY <1>3 DEF Handshake, NothingInvented
  <2> QED
    BY <1>1, <2>1, SameDates
<1>4. CASE Register(a, b)
  <2> DEFINE roster == RosterMessage(RosterOf(store[a]))
             messages == [f \in Device |-> IF f = b THEN <<roster>> ELSE <<>>]
  <2>1. CASE Trusts(a, b)
    <3>1. link' = Sent(a, messages, link)
      BY <1>4, <2>1 DEF Register
    <3>2. /\ \A f \in Device : messages[f] \in {<<>>, <<roster>>}
          /\ roster \in Message /\ link \in [Paths -> Seq(Message)]
      <4>1. link \in [Paths -> Seq(Message)]
        BY InvTyped DEF AgreeInv, TypeOK
      <4>2. RosterOf(store[a]) \in Roster
        BY AgreeFacts, RosterOfCovers
      <4> QED
        BY <4>1, <4>2 DEF Message, RosterMessage
    <3> HIDE DEF messages
    <3>3. ASSUME NEW path \in Paths
          PROVE  Said(link'[path]) \subseteq Said(link[path]) \cup {roster}
      <4> DEFINE q == link[path]
                 N == Message
      <4>1. q \in Seq(N) /\ roster \in N /\ path[2] \in Device
        BY <3>2, PathOf
      <4>2. link'[path] \in {q, q \o <<>>, q \o <<roster>>}
        BY <3>1, <3>2, <4>1 DEF Sent
      <4> HIDE DEF q, N, roster
      <4>3. Said(q \o <<roster>>) = Said(q) \cup {roster} /\ q \o <<>> = q
        BY <4>1, SaidThen
      <4> QED
        BY <4>2, <4>3 DEF q
    <3>4. NothingInvented
      BY <1>1, <3>3 DEF NothingInvented
    <3> QED
      BY <1>1, <3>4, SameDates
  <2>2. CASE ~Trusts(a, b)
    <3>1. link' = Dropped(a, b, 0) /\ 0 \in 0..Len(link[<<a, b>>])
      BY <1>2, <1>4, <2>2 DEF Register
    <3>2. NothingInvented
      BY <3>1, DroppedSaid DEF NothingInvented
    <3> QED
      BY <1>1, <3>2, SameDates
  <2> QED
    BY <2>1, <2>2
<1>5. CASE ReadEof(a, b)
  <2>1. PICK kept \in 0..Len(link[<<a, b>>]) : link' = Dropped(a, b, kept)
    BY <1>5 DEF ReadEof
  <2>2. NothingInvented
    BY <2>1, DroppedSaid DEF NothingInvented
  <2> QED
    BY <1>1, <2>2, SameDates
<1>6. CASE Break(a, b)
  <2>1. PICK there \in 0..Len(link[<<a, b>>]), back \in 0..Len(link[<<b, a>>]) :
          link' = [link EXCEPT ![<<a, b>>] = Append(SubSeq(@, 1, there), Eof),
                               ![<<b, a>>] = Append(SubSeq(@, 1, back), Eof)]
    BY <1>6 DEF Break
  <2>2. <<a, b>> # <<b, a>>
    OBVIOUS
  <2>3. /\ link'[<<a, b>>] = Append(SubSeq(link[<<a, b>>], 1, there), Eof)
        /\ link'[<<b, a>>] = Append(SubSeq(link[<<b, a>>], 1, back), Eof)
        /\ \A path \in Paths : path \notin {<<a, b>>, <<b, a>>} => link'[path] = link[path]
    BY <1>2, <2>1, <2>2
  <2>4. /\ Said(link'[<<a, b>>]) \subseteq Said(link[<<a, b>>]) \cup {Eof}
        /\ Said(link'[<<b, a>>]) \subseteq Said(link[<<b, a>>]) \cup {Eof}
    <3> HIDE DEF M
    <3> QED
      BY <1>2, <2>3, CutOff
  <2>5. \A path \in Paths : Said(link'[path]) \subseteq Said(link[path]) \cup {Eof}
    BY <2>3, <2>4
  <2>6. NothingInvented
    BY <2>5 DEF NothingInvented
  <2> QED
    BY <1>1, <2>6, SameDates
<1> QED
  BY <1>3, <1>4, <1>5, <1>6

(* A key lost, a pairing begun or given up.                                *)
LEMMA QuietDates ==
  ASSUME AgreeInv,
         \/ \E d \in Device : LoseKey(d)
         \/ \E d, e \in Device : Pair(d, e)
         \/ \E pending \in storing : PairingFails(pending)
         \/ UNCHANGED vars
  PROVE  RemovalsLast' /\ ClockPast'
<1>1. UNCHANGED <<store, lastPaired, now>>
  BY DEF LoseKey, Pair, PairingFails, vars
<1>2. \A path \in Paths : link'[path] \in {link[path], <<>>, <<Eof>>}
  BY DEF LoseKey, Pair, PairingFails, vars, sessionVars
<1>3. NothingInvented
  BY <1>2, SaidFew DEF NothingInvented
<1> QED
  BY <1>1, <1>3, SameDates

LEMMA TellRemovedDates ==
  ASSUME AgreeInv, NEW a \in Device, NEW b \in Device, a # b, TellRemoved(a, b)
  PROVE  RemovalsLast' /\ ClockPast'
<1>1. /\ store' = [store EXCEPT ![b] = MarkNotified(store[b], a)]
      /\ lastPaired' = lastPaired /\ now' = now
      /\ \A path \in Paths : link'[path] \in {link[path], <<Bye, Eof>>}
  BY AgreeFacts DEF TellRemoved
<1>2. NothingInvented
  BY <1>1, SaidFew DEF NothingInvented
<1>3. \A d \in Device : store'[d] = IF d = b THEN MarkNotified(store[b], a) ELSE store[d]
  BY <1>1 DEF AgreeInv, IInv, StoresDated
<1>4. \A d \in Device : store'[d] \in Store
  <2>1. IInv'
    BY TellRemovedInv DEF AgreeInv
  <2> QED
    BY <2>1 DEF IInv, StoresDated, DatedStore
<1>5. \A d, x \in Device :
        /\ store'[d].removed[x] = None <=> store[d].removed[x] = None
        /\ store'[d].removed[x] # None
             => store'[d].removed[x].removedAt = store[d].removed[x].removedAt
  <2>1. \A x \in Device :
          /\ MarkNotified(store[b], a).removed[x] = None <=> store[b].removed[x] = None
          /\ MarkNotified(store[b], a).removed[x] # None
               => MarkNotified(store[b], a).removed[x].removedAt = store[b].removed[x].removedAt
    BY AgreeFacts, MarkedStore
  <2> QED
    BY <1>3, <2>1
<1>6. \A d \in Device : RemovalsFrom(lastPaired', store'[d])
  BY <1>1, <1>5 DEF AgreeInv, RemovalsLast, RemovalsFrom
<1>7. RemovalsLast'
  BY <1>1, <1>2, <1>4, <1>5, <1>6, RemovalsKept DEF AgreeInv
<1>8. ClockPast'
  BY <1>1, ClockStaysPast DEF AgreeInv
<1> QED
  BY <1>7, <1>8

LEMMA ReadRosterDates ==
  ASSUME AgreeInv, NEW a \in Device, NEW b \in Device, a # b, ReadRoster(a, b)
  PROVE  RemovalsLast' /\ ClockPast'
<1> DEFINE roster == Incoming(a, b).roster
           new    == Merge(store[a], a, b, roster)
           rest   == [link EXCEPT ![<<b, a>>] = Tail(@)]
<1>1. /\ Said(link[<<b, a>>]) = {RosterMessage(roster)} \cup Said(rest[<<b, a>>])
      /\ \A path \in Paths : path # <<b, a>> => rest[path] = link[path]
      /\ rest \in [Paths -> Seq(Message)]
      /\ new \in Store /\ RemovalsFrom(lastPaired, new)
      /\ \A x \in Device : StoreCovers(new, store[a], x)
  BY ReadRosterFacts
<1>2. /\ store' = [store EXCEPT ![a] = new] /\ lastPaired' = lastPaired /\ now' = now
      /\ \/ Announce(a, new, Removed(store[a], new), Added(store[a], new), rest)
         \/ link' = rest
  BY DEF ReadRoster
<1> HIDE DEF roster, new, rest
<1>3. \A d \in Device : store'[d] = IF d = a THEN new ELSE store[d]
  BY <1>2 DEF AgreeInv, IInv, StoresDated
<1>4. \A path \in Paths : Said(rest[path]) \subseteq Said(link[path])
  BY <1>1
<1>5. \A path \in Paths :
        Said(link'[path]) \subseteq Said(rest[path]) \cup {Bye, Eof, RosterMessage(RosterOf(new))}
  <2> DEFINE told == Removed(store[a], new)
             closed == Added(store[a], new)
  <2>1. Announce(a, new, told, closed, rest) \/ link' = rest
    BY <1>2
  <2> HIDE DEF told, closed
  <2> QED
    BY <1>1, <2>1, AnnounceSaid
<1>6. NothingInvented
  <2>1. store'[a] = new
    BY <1>3
  <2> QED
    BY <1>4, <1>5, <2>1 DEF NothingInvented
<1>7. \A d \in Device : store'[d] \in Store /\ RemovalsFrom(lastPaired', store'[d])
  BY <1>1, <1>2, <1>3, AgreeFacts DEF AgreeInv, RemovalsLast
<1>8. \A d, x \in Device : store[d].removed[x] # None => store'[d].removed[x] # None
  BY <1>1, <1>3 DEF StoreCovers
<1>9. RemovalsLast'
  BY <1>2, <1>6, <1>7, <1>8, RemovalsKept DEF AgreeInv
<1>10. ClockPast'
  BY <1>2, ClockStaysPast DEF AgreeInv
<1> QED
  BY <1>9, <1>10

LEMMA ReadByeDates ==
  ASSUME AgreeInv, NEW a \in Device, NEW b \in Device, a # b, ReadBye(a, b)
  PROVE  RemovalsLast' /\ ClockPast'
<1> DEFINE M == DatedMessage(lastPaired)
           leaves == Trusts(a, b)
<1>1. PICK kept \in 0..Len(link[<<a, b>>]) :
        /\ store' = [store EXCEPT ![a] = IF leaves THEN Clear(@) ELSE @]
        /\ link' = [path \in Paths |->
             IF leaves /\ path[1] = a /\ path[2] \in Registered(a) \ {b}
                /\ end[<<path[2], a>>] # "none"
             THEN Append(Dropped(a, b, kept)[path], Eof) ELSE Dropped(a, b, kept)[path]]
  BY DEF ReadBye
<1>2. lastPaired' = lastPaired /\ now' = now
  BY DEF ReadBye
<1>3. \A d \in Device : store'[d] \in {store[d], Clear(store[d])}
  BY <1>1 DEF AgreeInv, IInv, StoresDated
<1>4. \A d \in Device : store[d] \in DatedStore(lastPaired) /\ store[d] \in Store
  BY AgreeFacts
<1>5. \A d \in Device : store'[d] \in Store /\ store'[d].removed = store[d].removed
  <2>1. \A d \in Device : Clear(store[d]).removed = store[d].removed
    BY <1>4 DEF Clear, Store
  <2>2. \A d \in Device : Clear(store[d]) \in Store
    BY <1>4, ClearDated DEF DatedStore
  <2> QED
    BY <1>3, <1>4, <2>1, <2>2
<1>6. \A path \in Paths :
        /\ Dropped(a, b, kept)[path] \in Seq(M)
        /\ Said(Dropped(a, b, kept)[path]) \subseteq Said(link[path]) \cup {Eof}
  <2>1. link \in [Paths -> Seq(M)] /\ Eof \in M
    BY LinkFacts DEF AgreeInv
  <2>2. Dropped(a, b, kept) \in [Paths -> Seq(M)]
    BY <2>1, DroppedTyped
  <2> QED
    BY <2>2, DroppedSaid
<1>7. ASSUME NEW path \in Paths
      PROVE  Said(link'[path]) \subseteq Said(link[path]) \cup {Eof}
  <2> DEFINE q == Dropped(a, b, kept)[path]
  <2>1. q \in Seq(M) /\ Eof \in M /\ Said(q) \subseteq Said(link[path]) \cup {Eof}
    BY <1>6, MessageTypes
  <2>2. link'[path] \in {q, Append(q, Eof)}
    BY <1>1
  <2> HIDE DEF q, M
  <2>3. Said(Append(q, Eof)) = Said(q) \cup {Eof}
    BY <2>1, SaidAppended
  <2> QED
    BY <2>1, <2>2, <2>3
<1>8. NothingInvented
  BY <1>7 DEF NothingInvented
<1>9. \A d \in Device : RemovalsFrom(lastPaired', store'[d])
  BY <1>2, <1>5 DEF AgreeInv, RemovalsLast, RemovalsFrom
<1>10. RemovalsLast'
  BY <1>2, <1>5, <1>8, <1>9, RemovalsKept DEF AgreeInv
<1>11. ClockPast'
  BY <1>2, ClockStaysPast DEF AgreeInv
<1> QED
  BY <1>10, <1>11

(* What a change of one's own store says, and to what it applies.          *)
LEMMA OwnChange ==
  ASSUME AgreeInv, NEW a \in Device, NEW new \in Store, NEW told, NEW closed,
         store' = [store EXCEPT ![a] = new], Announce(a, store'[a], told, closed, link)
  PROVE  /\ NothingInvented
         /\ \A d \in Device : store'[d] = IF d = a THEN new ELSE store[d]
<1>1. \A d \in Device : store'[d] = IF d = a THEN new ELSE store[d]
  BY DEF AgreeInv, IInv, StoresDated
<1>2. link \in [Paths -> Seq(Message)]
  BY InvTyped DEF AgreeInv, TypeOK
<1>3. Announce(a, new, told, closed, link)
  BY <1>1
<1>4. \A path \in Paths :
        Said(link'[path]) \subseteq Said(link[path]) \cup {Bye, Eof, RosterMessage(RosterOf(new))}
  BY <1>2, <1>3, AnnounceSaid
<1>5. store'[a] = new
  BY <1>1
<1>6. NothingInvented
  BY <1>4, <1>5 DEF NothingInvented
<1> QED
  BY <1>1, <1>6

LEMMA RemovePeerDates ==
  ASSUME AgreeInv, NEW d \in Device, NEW e \in Device, RemovePeer(d, e)
  PROVE  RemovalsLast' /\ ClockPast'
<1> DEFINE time == now + 1 + ClockSkew[d]
           new  == RemoveMember(store[d], e, time)
<1>1. now \in Nat /\ ClockSkew[d] \in Nat /\ time \in Nat /\ lastPaired[e] \in Nat
  BY BoundsAssumption DEF AgreeInv, IInv, Plain
<1>2. /\ store' = [store EXCEPT ![d] = new]
      /\ Announce(d, store'[d], {e}, {}, link)
      /\ now' = now + 1 /\ lastPaired' = lastPaired
  BY DEF RemovePeer, LocalTime
<1>3. store[d] \in Store /\ store[d].peers[e] # None
  BY AgreeFacts DEF RemovePeer, Trusts, Get
<1>4. time >= lastPaired[e]
  BY <1>1 DEF AgreeInv, ClockPast, LocalTime
<1> HIDE DEF time
<1>5. /\ new \in Store /\ new.removed[e] # None /\ new.removed[e].removedAt = time
      /\ \A f \in Device : f # e => new.removed[f] = store[d].removed[f]
  BY <1>1, <1>3, RemoveStore, RemoveCovers
<1> HIDE DEF new
<1>6. /\ NothingInvented
      /\ \A c \in Device : store'[c] = IF c = d THEN new ELSE store[c]
  BY <1>2, <1>5, OwnChange
<1>7. RemovalsFrom(lastPaired, new)
  BY <1>4, <1>5 DEF AgreeInv, RemovalsLast, RemovalsFrom
<1>8. \A c \in Device : store'[c] \in Store /\ RemovalsFrom(lastPaired', store'[c])
  BY <1>2, <1>5, <1>6, <1>7, AgreeFacts DEF AgreeInv, RemovalsLast
<1>9. \A c, x \in Device : store[c].removed[x] # None => store'[c].removed[x] # None
  BY <1>5, <1>6
<1>10. RemovalsLast'
  BY <1>2, <1>6, <1>8, <1>9, RemovalsKept DEF AgreeInv
<1>11. ClockPast'
  BY <1>2, ClockStaysPast DEF AgreeInv
<1> QED
  BY <1>10, <1>11

LEMMA StorePeerDates ==
  ASSUME ClocksAgree, AgreeInv, NEW pending \in storing, StorePeer(pending),
         \A c \in Device : store[c].removed[pending.of] = None
  PROVE  RemovalsLast' /\ ClockPast'
<1> DEFINE d == pending.by
           e == pending.of
           k == pending.key
           time == now + 1 + ClockSkew[d]
           new == Upsert(store[d], e, k, time)
<1>1. /\ d \in Device /\ e \in Device /\ k \in Nat /\ time \in Nat /\ now \in Nat
      /\ ClockSkew \in [Device -> Nat] /\ lastPaired \in [Device -> Nat]
  BY BoundsAssumption DEF AgreeInv, IInv, Plain
<1>2. /\ store' = [store EXCEPT ![d] = new]
      /\ Announce(d, store'[d], {}, {}, link)
      /\ now' = now + 1 /\ lastPaired' = [lastPaired EXCEPT ![e] = Later(time, @)]
  BY DEF StorePeer, LocalTime
<1>3. \A c \in Device : store[c] \in Store /\ store[c].removed[e] = None
  BY AgreeFacts
<1>4. ClockPast'
  <2>1. time = now + 1 + ClockSkew[d]
    OBVIOUS
  <2> HIDE DEF d, e, time, new
  <2>2. \A c \in Device : /\ ClockSkew[c] \in Nat /\ ClockSkew[c] = ClockSkew[d]
                          /\ \A x \in Device : lastPaired[x] <= now + ClockSkew[c]
    BY <1>1 DEF ClocksAgree, AgreeInv, ClockPast, LocalTime
  <2>3. \A x \in Device : lastPaired[x] \in Nat /\ lastPaired'[x] \in {time, lastPaired[x]}
    BY <1>1, <1>2 DEF Later
  <2>4. ASSUME NEW c \in Device, NEW x \in Device
        PROVE  lastPaired'[x] <= (now + 1) + ClockSkew[c]
    <3>1. ClockSkew[c] \in Nat /\ ClockSkew[c] = ClockSkew[d] /\ lastPaired[x] <= now + ClockSkew[c]
      BY <2>2
    <3>2. lastPaired[x] \in Nat /\ lastPaired'[x] \in {time, lastPaired[x]}
      BY <2>3
    <3> QED
      BY <1>1, <2>1, <3>1, <3>2
  <2> QED
    BY <1>2, <2>4 DEF ClockPast, LocalTime
<1> HIDE DEF d, e, k, time
<1>5. new \in Store /\ \A x \in Device : new.removed[x] = store[d].removed[x]
  <2>1. store[d] \in Store /\ store[d].removed[e] = None
    BY <1>1, <1>3
  <2>2. Upsert(store[d], e, k, time) \in Store
    BY <1>1, <2>1, UpsertStore
  <2>3. \A x \in Device : Upsert(store[d], e, k, time).removed[x] = store[d].removed[x]
    BY <1>1, <2>1, UpsertCovers
  <2> QED
    BY <2>2, <2>3
<1> HIDE DEF new
<1>6. /\ NothingInvented
      /\ \A c \in Device : store'[c] = IF c = d THEN new ELSE store[c]
  BY <1>1, <1>2, <1>5, OwnChange
<1>7. \A c \in Device : store'[c] \in Store /\ \A x \in Device : store'[c].removed[x] = store[c].removed[x]
  BY <1>3, <1>5, <1>6
<1>8. \A x \in Device : x # e => lastPaired'[x] = lastPaired[x]
  BY <1>1, <1>2
<1>9. \A c, x \in Device : store[c].removed[x] # None
                           => store'[c].removed[x] # None /\ lastPaired'[x] = lastPaired[x]
  BY <1>3, <1>7, <1>8
<1>10. \A c \in Device : RemovalsFrom(lastPaired', store'[c])
  BY <1>7, <1>9 DEF AgreeInv, RemovalsLast, RemovalsFrom
<1>11. RemovalsLast'
  BY <1>6, <1>7, <1>9, <1>10, RemovalsKept DEF AgreeInv
<1> QED
  BY <1>4, <1>11
-----------------------------------------------------------------------------
LEMMA InitAgrees == Init => AgreeInv
<1> SUFFICES ASSUME Init PROVE AgreeInv
  OBVIOUS
<1>1. IInv
  BY InitInv
<1>2. PathsOK
  BY PathOf DEF Init, PathsOK, PathOK, Talking
<1>3. RemovalsLast
  <2>1. \A d, x \in Device : store[d].removed[x] = None
    BY DEF Init, EmptyStore
  <2>2. \A path \in Paths : Said(link[path]) = {}
    BY SaidFew DEF Init
  <2> QED
    BY <2>1, <2>2 DEF RemovalsLast, RemovalsFrom
<1>4. ClockPast
  BY BoundsAssumption DEF Init, ClockPast, LocalTime
<1> QED
  BY <1>1, <1>2, <1>3, <1>4 DEF AgreeInv

LEMMA NextAgrees ==
  ASSUME ClocksAgree
  PROVE  AgreeInv /\ [Next]_vars /\ [NoReturn]_vars => AgreeInv'
<1> SUFFICES ASSUME AgreeInv, [Next]_vars, [NoReturn]_vars PROVE AgreeInv'
  OBVIOUS
<1>1. IInv'
  BY NextInv DEF AgreeInv
<1> SUFFICES PathsOK' /\ RemovalsLast' /\ ClockPast'
  BY <1>1 DEF AgreeInv
<1>2. ASSUME NEW pending \in storing, StorePeer(pending)
      PROVE  PathsOK' /\ RemovalsLast' /\ ClockPast'
  <2>1. now \in Nat
    BY DEF AgreeInv, IInv, Plain
  <2>2. now' # now
    BY <1>2, <2>1 DEF StorePeer
  <2>3. \A c \in Device : store[c].removed[pending.of] = None
    BY <1>2, <2>2 DEF NoReturn, vars
  <2> QED
    BY <1>2, <2>3, StorePeerPaths, StorePeerDates
<1>3. ASSUME NEW pending \in storing, PairingFails(pending)
      PROVE  PathsOK' /\ RemovalsLast' /\ ClockPast'
  BY <1>3, PathsUntouched, QuietDates DEF PairingFails, sessionVars
<1>4. ASSUME NEW d \in Device, LoseKey(d)
      PROVE  PathsOK' /\ RemovalsLast' /\ ClockPast'
  BY <1>4, LoseKeyPaths, QuietDates
<1>5. ASSUME NEW d \in Device, NEW e \in Device, Pair(d, e)
      PROVE  PathsOK' /\ RemovalsLast' /\ ClockPast'
  BY <1>5, PathsUntouched, QuietDates DEF Pair, sessionVars
<1>6. ASSUME NEW d \in Device, NEW e \in Device, d # e, RemovePeer(d, e)
      PROVE  PathsOK' /\ RemovalsLast' /\ ClockPast'
  BY <1>6, RemovePeerPaths, RemovePeerDates
<1>7. ASSUME NEW d \in Device, NEW e \in Device, d # e,
             Handshake(d, e) \/ Register(d, e) \/ ReadEof(d, e) \/ Break(d, e)
      PROVE  PathsOK' /\ RemovalsLast' /\ ClockPast'
  BY <1>7, HandshakePaths, RegisterPaths, ReadEofPaths, BreakPaths, SessionDates
<1>8. ASSUME NEW d \in Device, NEW e \in Device, d # e, TellRemoved(d, e)
      PROVE  PathsOK' /\ RemovalsLast' /\ ClockPast'
  BY <1>8, TellRemovedPaths, TellRemovedDates
<1>9. ASSUME NEW d \in Device, NEW e \in Device, d # e, ReadRoster(d, e)
      PROVE  PathsOK' /\ RemovalsLast' /\ ClockPast'
  BY <1>9, ReadRosterPaths, ReadRosterDates
<1>10. ASSUME NEW d \in Device, NEW e \in Device, d # e, ReadBye(d, e)
      PROVE  PathsOK' /\ RemovalsLast' /\ ClockPast'
  BY <1>10, ReadByePaths, ReadByeDates
<1>11. CASE UNCHANGED vars
  BY <1>11, PathsUntouched, QuietDates DEF vars, sessionVars
<1> QED
  BY <1>2, <1>3, <1>4, <1>5, <1>6, <1>7, <1>8, <1>9, <1>10, <1>11 DEF Next

(* "The newer of joining and removal wins, so rosters can arrive in any    *)
(* order and still agree" (PeerStore::merge): with clocks that agree, and  *)
(* as long as nobody is paired whose removal some device has recorded,     *)
(* connected devices with nothing left to say agree on who else belongs to *)
(* the group, whatever was lost, closed or broken before.                  *)
THEOREM AgreeUnlessPairedAgain ==
  ASSUME ClocksAgree
  PROVE  Spec /\ [][NoReturn]_vars => []RostersAgree
<1>1. AgreeInv /\ [Next]_vars /\ [NoReturn]_vars => AgreeInv'
  BY NextAgrees
<1> QED
  BY <1>1, InitAgrees, AgreeAtRest, PTL DEF Spec
===============================================================================
