------------------------------ MODULE Membership ------------------------------
(***************************************************************************)
(* How a group of devices agrees on who belongs to it: pairing, removal,   *)
(* rosters and the notice to a removed device, over sessions that start,   *)
(* are closed by either side, or break (crates/cled-lan/src/node.rs).      *)
(*                                                                         *)
(* A pair of devices has one session at a time here; which of two          *)
(* simultaneous connections survives is not modelled.  How a handler holds *)
(* its locks is not either: each handler is one step.                      *)
(***************************************************************************)
EXTENDS PeerStore, Sequences, FiniteSets

CONSTANTS
  Group,        \* devices paired with each other, and in agreement, at the start
  Reachable,    \* {d, e} of the devices that can connect to each other
  Remover,      \* devices whose users may remove another one
  ClockSkew,    \* [Device -> Nat]: how far each clock is ahead
  MaxPairings, MaxRemovals, MaxFaults   \* bounds

ASSUME BoundsAssumption ==
  /\ {Group, Remover} \subseteq SUBSET Device
  /\ Reachable \subseteq SUBSET Device
  /\ ClockSkew \in [Device -> Nat]
  /\ {MaxPairings, MaxRemovals, MaxFaults} \subseteq Nat

VARIABLES
  now,      \* true time: how many timestamps were taken, as no two of them fall
            \* in the same millisecond
  key,      \* each device's static key
  store,    \* each device's PeerStore
  end,      \* each device's end of its session with another: "none";
            \* "starting", not yet registered; "up"; "closing", no longer
            \* registered but still reading until the other side closes
  link,     \* what one device sent another on their session, unread
  storing,  \* results of pairing exchanges not yet stored: by whom, of whom
  pairings, removals, faults,   \* how many there were
  lastPaired   \* history: when a device was last stored as paired

sessionVars == <<end, link>>
vars == <<now, key, store, sessionVars, storing, pairings, removals, faults, lastPaired>>

Paths == {path \in Device \X Device : path[1] # path[2]}

Bye == [type |-> "bye"]
Eof == [type |-> "eof"]   \* the writer was shut down
RosterMessage(roster) == [type |-> "roster", roster |-> roster]
Message == {Bye, Eof} \cup [type: {"roster"}, roster: Roster]

TypeOK ==
  /\ now \in Nat
  /\ key \in [Device -> Nat]
  /\ store \in [Device -> Store]
  /\ end \in [Paths -> {"none", "starting", "up", "closing"}]
  /\ link \in [Paths -> Seq(Message)]
  /\ storing \subseteq [by: Device, of: Device, key: Nat]
  /\ {pairings, removals, faults} \subseteq Nat
  /\ lastPaired \in [Device -> Nat]
  /\ \A d \in Device :
       /\ store[d].peers[d] = None
       /\ \A e \in Device : store[d].peers[e] = None \/ store[d].removed[e] = None

LocalTime(d) == now + ClockSkew[d]

Later(s, t) == IF s > t THEN s ELSE t

Init ==
  /\ now = 0
  /\ key = [d \in Device |-> 0]
  /\ store = [d \in Device |-> [EmptyStore EXCEPT !.peers =
                [e \in Device |-> IF {d, e} \subseteq Group /\ d # e
                                  THEN [key |-> 0, pairedAt |-> 0] ELSE None]]]
  /\ end = [path \in Paths |-> "none"]
  /\ link = [path \in Paths |-> <<>>]
  /\ storing = {}
  /\ pairings = 0 /\ removals = 0 /\ faults = 0
  /\ lastPaired = [d \in Device |-> 0]
-----------------------------------------------------------------------------
(* Sessions.                                                               *)

Registered(d) == {e \in Device \ {d} : end[<<d, e>>] = "up"}

(* What d sends on its sessions: messages[e] goes to e, unless e's end is  *)
(* gone.                                                                   *)
Sent(d, messages, links) ==
  [path \in Paths |->
     IF path[1] = d /\ end[<<path[2], d>>] # "none"
     THEN links[path] \o messages[path[2]] ELSE links[path]]

(* send_roster_to_all, with what else the handler sends: the connections   *)
(* in told are closed after a Bye, those in closed without one.            *)
Announce(d, new, told, closed, links) ==
  /\ end' = [path \in Paths |->
       IF path[1] = d /\ end[path] = "up" /\ path[2] \in told \cup closed
       THEN "closing" ELSE end[path]]
  /\ link' = Sent(d, [e \in Device |->
       CASE e \in Registered(d) \cap told -> <<Bye, Eof>>
         [] e \in Registered(d) \cap (closed \ told) -> <<Eof>>
         [] e \in Registered(d) \ (told \cup closed) -> <<RosterMessage(RosterOf(new))>>
         [] OTHER -> <<>>], links)

(* d stops reading from e and drops the connection; of what d had queued,  *)
(* the first kept messages still arrive.                                   *)
Dropped(d, e, kept) ==
  IF end[<<e, d>>] = "none" THEN [link EXCEPT ![<<d, e>>] = <<>>, ![<<e, d>>] = <<>>]
  ELSE [link EXCEPT ![<<e, d>>] = <<>>,
                    ![<<d, e>>] = IF end[<<d, e>>] = "closing" THEN @
                                  ELSE Append(SubSeq(@, 1, kept), Eof)]

Reading(d, e) ==
  /\ end[<<d, e>>] \in {"up", "closing"}
  /\ link[<<e, d>>] # <<>>

Incoming(d, e) == Head(link[<<e, d>>])

Trusts(d, e) == Get(store[d], e) # None
KnowsKey(entry, d) == entry # None /\ entry.key = key[d]

(* d dials e, and each authenticates the other.                            *)
Handshake(d, e) ==
  /\ {d, e} \in Reachable
  /\ end[<<d, e>>] = "none" /\ end[<<e, d>>] = "none"
  /\ KnowsKey(Get(store[d], e), e)
  /\ KnowsKey(Get(store[e], d), d)
  /\ end' = [end EXCEPT ![<<d, e>>] = "starting", ![<<e, d>>] = "starting"]
  /\ UNCHANGED <<now, key, store, link, storing, pairings, removals, faults, lastPaired>>

(* d dials e, which removed it: e authenticates it with its old key, tells *)
(* it and closes.                                                          *)
TellRemoved(d, e) ==
  /\ {d, e} \in Reachable
  /\ end[<<d, e>>] = "none" /\ end[<<e, d>>] = "none"
  /\ KnowsKey(Get(store[d], e), e)
  /\ Get(store[e], d) = None
  /\ KnowsKey(GetRemoved(store[e], d), d)
  /\ end' = [end EXCEPT ![<<d, e>>] = "starting"]
  /\ link' = [link EXCEPT ![<<e, d>>] = <<Bye, Eof>>]
  /\ store' = [store EXCEPT ![e] = MarkNotified(@, d)]
  /\ UNCHANGED <<now, key, storing, pairings, removals, faults, lastPaired>>

(* start_session: the connection is registered and d sends its roster,     *)
(* unless e was removed while the connection was being set up.             *)
Register(d, e) ==
  /\ end[<<d, e>>] = "starting"
  /\ IF Trusts(d, e)
     THEN /\ end' = [end EXCEPT ![<<d, e>>] = "up"]
          /\ link' = Sent(d, [f \in Device |->
               IF f = e THEN <<RosterMessage(RosterOf(store[d]))>> ELSE <<>>], link)
     ELSE /\ end' = [end EXCEPT ![<<d, e>>] = "none"]
          /\ link' = Dropped(d, e, 0)
  /\ UNCHANGED <<now, key, store, storing, pairings, removals, faults, lastPaired>>

(* read_loop ends: the other side closed.                                  *)
ReadEof(d, e) ==
  /\ Reading(d, e)
  /\ Incoming(d, e) = Eof
  /\ end' = [end EXCEPT ![<<d, e>>] = "none"]
  /\ \E kept \in 0..Len(link[<<d, e>>]) : link' = Dropped(d, e, kept)
  /\ UNCHANGED <<now, key, store, storing, pairings, removals, faults, lastPaired>>

(* apply_roster: d takes in the group as e sees it.                        *)
ReadRoster(d, e) ==
  /\ Reading(d, e)
  /\ Incoming(d, e).type = "roster"
  /\ LET old  == store[d]
         new  == Merge(old, d, e, Incoming(d, e).roster)
         rest == [link EXCEPT ![<<e, d>>] = Tail(@)]
     IN  /\ store' = [store EXCEPT ![d] = new]
         /\ IF HasNews(old, new) THEN Announce(d, new, Removed(old, new), Added(old, new), rest)
            ELSE link' = rest /\ UNCHANGED end
  /\ UNCHANGED <<now, key, storing, pairings, removals, faults, lastPaired>>

(* leave_group: e, which d trusts, told d that it was removed.  Every      *)
(* session of d is closed, and the one with e is no longer read.           *)
ReadBye(d, e) ==
  /\ Reading(d, e)
  /\ Incoming(d, e) = Bye
  /\ LET leaves == Trusts(d, e)
     IN  \E kept \in 0..Len(link[<<d, e>>]) :
           LET links == Dropped(d, e, kept)
           IN  /\ store' = [store EXCEPT ![d] = IF leaves THEN Clear(@) ELSE @]
               /\ end' = [path \in Paths |->
                    IF path = <<d, e>> THEN "none"
                    ELSE IF leaves /\ path[1] = d /\ end[path] = "up" THEN "closing"
                    ELSE end[path]]
               /\ link' = [path \in Paths |->
                    IF leaves /\ path[1] = d /\ path[2] \in Registered(d) \ {e}
                       /\ end[<<path[2], d>>] # "none"
                    THEN Append(links[path], Eof) ELSE links[path]]
  /\ UNCHANGED <<now, key, storing, pairings, removals, faults, lastPaired>>
-----------------------------------------------------------------------------
(* d, showing a code, and e, typing it, exchange keys.  Each stores the    *)
(* other on its own, by its own clock.                                     *)
Pair(d, e) ==
  /\ d # e /\ {d, e} \in Reachable
  /\ pairings < MaxPairings
  /\ \A pending \in storing : {pending.by, pending.of} \cap {d, e} = {}
  /\ pairings' = pairings + 1
  /\ storing' = storing \cup {[by |-> d, of |-> e, key |-> key[e]],
                              [by |-> e, of |-> d, key |-> key[d]]}
  /\ UNCHANGED <<now, key, store, sessionVars, removals, faults, lastPaired>>

StorePeer(pending) ==
  /\ pending \in storing
  /\ storing' = storing \ {pending}
  /\ now' = now + 1
  /\ LET d    == pending.by
         e    == pending.of
         time == LocalTime(d)'
     IN  /\ store' = [store EXCEPT ![d] = Upsert(@, e, pending.key, time)]
         /\ lastPaired' = [lastPaired EXCEPT ![e] = Later(time, @)]
         /\ Announce(d, store'[d], {}, {}, link)
  /\ UNCHANGED <<key, pairings, removals, faults>>

(* The last message of the exchange is lost: one side gives up, the other  *)
(* may not notice.                                                         *)
PairingFails(pending) ==
  /\ pending \in storing
  /\ faults < MaxFaults
  /\ faults' = faults + 1
  /\ storing' = storing \ {pending}
  /\ UNCHANGED <<now, key, store, sessionVars, pairings, removals, lastPaired>>

(* remove_peer: the user of d removes e from the group.                    *)
RemovePeer(d, e) ==
  /\ Trusts(d, e)
  /\ removals < MaxRemovals
  /\ removals' = removals + 1
  /\ now' = now + 1
  /\ store' = [store EXCEPT ![d] = RemoveMember(@, e, LocalTime(d)')]
  /\ Announce(d, store'[d], {e}, {}, link)
  /\ UNCHANGED <<key, storing, pairings, faults, lastPaired>>
-----------------------------------------------------------------------------
(* A connection breaks; what was last sent on it is lost.                  *)
Break(d, e) ==
  /\ faults < MaxFaults
  /\ end[<<d, e>>] # "none" /\ end[<<e, d>>] # "none"
  /\ faults' = faults + 1
  /\ \E there \in 0..Len(link[<<d, e>>]), back \in 0..Len(link[<<e, d>>]) :
       link' = [link EXCEPT ![<<d, e>>] = Append(SubSeq(@, 1, there), Eof),
                            ![<<e, d>>] = Append(SubSeq(@, 1, back), Eof)]
  /\ UNCHANGED <<now, key, store, end, storing, pairings, removals, lastPaired>>

(* d starts again without its key file and makes a new key.                *)
LoseKey(d) ==
  /\ faults < MaxFaults
  /\ faults' = faults + 1
  /\ \A pending \in storing : d \notin {pending.by, pending.of}
  /\ key' = [key EXCEPT ![d] = @ + 1]
  /\ end' = [path \in Paths |-> IF path[1] = d THEN "none" ELSE end[path]]
  /\ link' = [path \in Paths |->
       IF path[2] = d THEN <<>>
       ELSE IF path[1] = d /\ end[<<path[2], d>>] # "none" THEN <<Eof>> ELSE link[path]]
  /\ UNCHANGED <<now, store, storing, pairings, removals, lastPaired>>

-----------------------------------------------------------------------------
Next ==
  \/ \E pending \in storing : StorePeer(pending) \/ PairingFails(pending)
  \/ \E d \in Device : LoseKey(d)
  \/ \E d, e \in Device :
       \/ Pair(d, e)
       \/ d \in Remover /\ d # e /\ RemovePeer(d, e)
       \/ d # e /\ Handshake(d, e)
       \/ d # e /\ TellRemoved(d, e)
       \/ d # e /\ Register(d, e)
       \/ d # e /\ ReadRoster(d, e)
       \/ d # e /\ ReadBye(d, e)
       \/ d # e /\ ReadEof(d, e)
       \/ d # e /\ Break(d, e)

Spec == Init /\ [][Next]_vars

(* The dialer comes back to every known device that is not connected, the  *)
(* tasks of a session run, and pairing ends.                               *)
Fairness ==
  /\ WF_vars(\E pending \in storing : StorePeer(pending))
  /\ \A d, e \in Device :
       d # e => /\ WF_vars(Handshake(d, e) \/ TellRemoved(d, e))
                /\ WF_vars(Register(d, e) \/ ReadRoster(d, e) \/ ReadBye(d, e) \/ ReadEof(d, e))

FairSpec == Spec /\ Fairness
-----------------------------------------------------------------------------
(* No session is starting or closing and every message was read.           *)
Silent == \A path \in Paths : link[path] = <<>> /\ end[path] \in {"none", "up"}

Quiescent ==
  /\ storing = {}
  /\ Silent
  /\ \A path \in Paths :
       Trusts(path[1], path[2]) /\ Trusts(path[2], path[1])
         /\ KnowsKey(store[path[1]].peers[path[2]], path[2])
         /\ KnowsKey(store[path[2]].peers[path[1]], path[1])
         /\ {path[1], path[2]} \in Reachable
         => end[path] = "up"

(* "The newer of joining and removal wins, so rosters can arrive in any    *)
(* order and still agree" (PeerStore::merge): connected devices that have  *)
(* nothing left to say agree on who else belongs to the group.             *)
RostersAgree ==
  Silent =>
    \A d, e \in Device :
      (d # e /\ end[<<d, e>>] = "up") =>
        \A other \in AboutOthers(d, e) : Trusts(d, other) <=> Trusts(e, other)

(* A removal is kept "so a roster from a member that hasn't heard can't    *)
(* add the device back" (RFC 1): who has heard of it trusts the device     *)
(* again only by pairing it, or when a pairing is newer than the removal.  *)
NotAddedBack ==
  [][\A d, e \in Device :
       d # e /\ store[d].removed[e] # None /\ Trusts(d, e)'
         => \/ lastPaired[e] > store[d].removed[e].removedAt
            \/ \E pending \in storing : pending.by = d /\ pending.of = e /\ StorePeer(pending)]_vars

(* Rosters are not passed around for ever: once the users stop, devices    *)
(* that can reach and trust each other are connected and say nothing.      *)
GossipEnds == <>[]Quiescent
=============================================================================
