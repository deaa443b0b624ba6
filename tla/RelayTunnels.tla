----------------------------- MODULE RelayTunnels -----------------------------
(***************************************************************************)
(* Tunnels through the relay: byte streams between sessions on two devices *)
(* of a user (apps/desktop/src-tauri/src/tunnel.rs), in frames that the    *)
(* relay forwards (apps/relay/src/features/relay/routes.ts, tunnel.ts).    *)
(* Which sockets are registered is RelaySession's; here a device is        *)
(* connected to the relay or not, and the relay may be late to notice.     *)
(*                                                                         *)
(* A session is the code that talks over a tunnel (Connections,            *)
(* Membership): it writes at least its pings, and ends when it likes.      *)
(***************************************************************************)
EXTENDS Integers, Sequences, Functions

CONSTANTS
  Device,
  MaxOpens,   \* bound: tunnels opened
  MaxFaults,  \* bound: relay connections lost
  MaxEnds     \* bound: sessions that end by themselves

ASSUME TunnelsAssumption == {MaxOpens, MaxFaults, MaxEnds} \subseteq Nat

VARIABLES
  link,     \* a device's connection to the relay: "on", "gone" (lost, and the
            \* relay has not noticed) or "off"
  up, down, \* frames to the relay, and from it
  nextId,   \* Tunnels.next_id
  tunnels,  \* Tunnels.open: for each key, the session over the tunnel
  pumped,   \* what sessions wrote, not yet sent
  opens, faults, ends,
  usedIds,  \* history: the numbers a device gave to tunnels
  reused,   \* history: a device gave a number to a second tunnel
  broken    \* history: some session read what its other end did not write,
            \* or not all of it, or in another order

vars == <<link, up, down, nextId, tunnels, pumped, opens, faults, ends, usedIds, reused, broken>>

Key == [peer: Device, id: 1..MaxOpens, openedHere: BOOLEAN]

(* A session: the opening it belongs to (run), whether it has ended, and   *)
(* how much it wrote and read, counted modulo 2.                           *)
Session == [run: 1..MaxOpens, ended: BOOLEAN, wrote: 0..1, read: 0..1]

(* What a session wrote: its place in the stream, or the stream's end.     *)
Piece == [run: 1..MaxOpens, at: 0..1, end: BOOLEAN]

(* run, at: history, for what the frame carries.                           *)
Frame == [kind: {"open", "data", "close"}, opener: BOOLEAN, id: 1..MaxOpens,
          device: Device, run: 0..MaxOpens, at: 0..1]

TypeOK ==
  /\ link \in [Device -> {"on", "gone", "off"}]
  /\ up \in [Device -> Seq(Frame)] /\ down \in [Device -> Seq(Frame)]
  /\ nextId \in [Device -> 1..MaxOpens + 1]
  /\ \A d \in Device : /\ DOMAIN tunnels[d] \subseteq Key
                       /\ \A k \in DOMAIN tunnels[d] : tunnels[d][k] \in Session
                       /\ \A i \in DOMAIN pumped[d] : pumped[d][i].key \in Key
                       /\ link[d] # "on" => DOMAIN tunnels[d] = {}
  /\ opens \in 0..MaxOpens /\ faults \in 0..MaxFaults /\ ends \in 0..MaxEnds
  /\ usedIds \in [Device -> SUBSET (1..MaxOpens)]
  /\ {reused, broken} \subseteq BOOLEAN

Init ==
  /\ link = [d \in Device |-> "on"]
  /\ up = [d \in Device |-> <<>>] /\ down = [d \in Device |-> <<>>]
  /\ nextId = [d \in Device |-> 1]
  /\ tunnels = [d \in Device |-> <<>>]
  /\ pumped = [d \in Device |-> <<>>]
  /\ opens = 0 /\ faults = 0 /\ ends = 0
  /\ usedIds = [d \in Device |-> {}] /\ reused = FALSE /\ broken = FALSE
-----------------------------------------------------------------------------
\* Mutant: the frame says nothing of who opened the tunnel.
EncodeIgnoresOpener(kind, key, run, at) ==
  [kind |-> kind, opener |-> TRUE, id |-> key.id, device |-> key.peer, run |-> run, at |-> at]

Encode(kind, key, run, at) ==
  [kind |-> kind, opener |-> key.openedHere, id |-> key.id, device |-> key.peer,
   run |-> run, at |-> at]

(* The flag says whether the sender opened it.                             *)
Decode(frame) == [peer |-> frame.device, id |-> frame.id, openedHere |-> ~frame.opener]

Without(d, key) == [tunnels EXCEPT ![d] = Restrict(@, DOMAIN @ \ {key})]

(* create: also takes the place of a tunnel with the same key.             *)
Create(d, key, run) ==
  LET session == [run |-> run, ended |-> FALSE, wrote |-> 0, read |-> 0]
  IN  tunnels' = [tunnels EXCEPT ![d] =
        [k \in DOMAIN tunnels[d] \cup {key} |-> IF k = key THEN session ELSE tunnels[d][k]]]

Has(d, peer) == \E k \in DOMAIN tunnels[d] : k.peer = peer

(* dial: to a paired device without a tunnel.  (pair opens tunnels in the  *)
(* same way, to devices that are not paired, whether or not there is one.) *)
Open(d, peer) ==
  /\ opens < MaxOpens
  /\ link[d] = "on" /\ peer # d
  /\ ~Has(d, peer)
  /\ LET key == [peer |-> peer, id |-> nextId[d], openedHere |-> TRUE]
     IN  /\ Create(d, key, opens + 1)
         /\ up' = [up EXCEPT ![d] = Append(@, Encode("open", key, opens + 1, 0))]
         /\ reused' = (reused \/ nextId[d] \in usedIds[d])
         /\ usedIds' = [usedIds EXCEPT ![d] = @ \cup {nextId[d]}]
  /\ nextId' = [nextId EXCEPT ![d] = @ + 1]
  /\ opens' = opens + 1
  /\ UNCHANGED <<link, down, pumped, faults, ends, broken>>

After(n) == (n + 1) % 2

(* Bound: sessions write when nothing is on the way.                       *)
Busy == \E d \in Device : pumped[d] # <<>> \/ up[d] # <<>> \/ down[d] # <<>>

(* The session writes; a read of the stream takes all it wrote so far.     *)
Write(d, key) ==
  /\ key \in DOMAIN tunnels[d] /\ ~tunnels[d][key].ended
  /\ ~Busy
  /\ LET at == After(tunnels[d][key].wrote)
     IN  /\ tunnels' = [tunnels EXCEPT ![d][key].wrote = at]
         /\ pumped' = [pumped EXCEPT ![d] =
              Append(@, [key |-> key, run |-> tunnels[d][key].run, at |-> at, end |-> FALSE])]
  /\ UNCHANGED <<link, up, down, nextId, opens, faults, ends, usedIds, reused, broken>>

EndSession(d, key) ==
  /\ ends < MaxEnds
  /\ ends' = ends + 1
  /\ key \in DOMAIN tunnels[d] /\ ~tunnels[d][key].ended
  /\ tunnels' = [tunnels EXCEPT ![d][key].ended = TRUE]
  /\ pumped' = [pumped EXCEPT ![d] =
       Append(@, [key |-> key, run |-> tunnels[d][key].run,
                  at |-> tunnels[d][key].wrote, end |-> TRUE])]
  /\ UNCHANGED <<link, up, down, nextId, opens, faults, usedIds, reused, broken>>

OnPumped(d) ==
  /\ pumped[d] # <<>>
  /\ LET p == Head(pumped[d])
     IN  IF p.key \notin DOMAIN tunnels[d] THEN UNCHANGED <<up, tunnels>>
         ELSE IF p.end
         THEN /\ tunnels' = Without(d, p.key)
              /\ up' = [up EXCEPT ![d] = Append(@, Encode("close", p.key, p.run, p.at))]
         ELSE /\ up' = [up EXCEPT ![d] = Append(@, Encode("data", p.key, p.run, p.at))]
              /\ UNCHANGED tunnels
  /\ pumped' = [pumped EXCEPT ![d] = Tail(@)]
  /\ UNCHANGED <<link, down, nextId, opens, faults, ends, usedIds, reused, broken>>
-----------------------------------------------------------------------------
(* The relay.                                                              *)

\* Mutant: the close names the tunnel as the sender sees it.
UndeliverableAsSent(frame) == [frame EXCEPT !.kind = "close", !.run = 0, !.at = 0]

(* The tunnel as seen from the other end.                                  *)
Undeliverable(frame) ==
  [frame EXCEPT !.kind = "close", !.opener = ~@, !.run = 0, !.at = 0]

(* forwardTunnelFrame: the destination becomes the source.                 *)
Forward(d) ==
  /\ link[d] = "on" /\ up[d] # <<>>
  /\ LET frame == Head(up[d])
     IN  down' = CASE link[frame.device] = "on" ->
                        [down EXCEPT ![frame.device] = Append(@, [frame EXCEPT !.device = d])]
                   [] link[frame.device] = "gone" -> down
                   [] link[frame.device] = "off" ->
                        IF frame.kind = "close" THEN down
                        ELSE [down EXCEPT ![d] = Append(@, Undeliverable(frame))]
  /\ up' = [up EXCEPT ![d] = Tail(@)]
  /\ UNCHANGED <<link, nextId, tunnels, pumped, opens, faults, ends, usedIds, reused, broken>>
-----------------------------------------------------------------------------
(* on_frame.                                                               *)

OnOpen(d, frame) ==
  /\ IF frame.opener THEN Create(d, Decode(frame), frame.run) ELSE UNCHANGED tunnels
  /\ UNCHANGED <<up, broken>>

\* Mutant: data for an unknown tunnel is dropped.
RefuseSilently(d, key) == UNCHANGED <<up, tunnels, broken>>

(* Unknown here, or the session has ended: tell the other side.            *)
Refuse(d, key) ==
  /\ tunnels' = Without(d, key)
  /\ up' = [up EXCEPT ![d] = Append(@, Encode("close", key, 0, 0))]
  /\ UNCHANGED broken

(* The first data after a session ended may go unnoticed.                  *)
OnData(d, frame) ==
  LET key == Decode(frame)
  IN  IF key \notin DOMAIN tunnels[d] THEN Refuse(d, key)
      ELSE LET session == tunnels[d][key]
           IN  \/ /\ session.ended
                  /\ Refuse(d, key) \/ UNCHANGED <<up, tunnels, broken>>
               \/ /\ ~session.ended
                  /\ tunnels' = [tunnels EXCEPT ![d][key].read = frame.at]
                  /\ broken' = (broken \/ frame.run # session.run
                                       \/ frame.at # After(session.read))
                  /\ UNCHANGED up

(* The session reads what is left; all there was, if the other one ended.  *)
OnClose(d, frame) ==
  LET key == Decode(frame)
  IN  /\ tunnels' = Without(d, key)
      /\ broken' = \/ broken
                   \/ /\ key \in DOMAIN tunnels[d] /\ ~tunnels[d][key].ended
                      /\ frame.run # 0
                      /\ \/ frame.run # tunnels[d][key].run
                         \/ frame.at # tunnels[d][key].read
      /\ UNCHANGED up

Receive(d) ==
  /\ link[d] = "on" /\ down[d] # <<>>
  /\ LET frame == Head(down[d])
     IN  CASE frame.kind = "open"  -> OnOpen(d, frame)
           [] frame.kind = "data"  -> OnData(d, frame)
           [] frame.kind = "close" -> OnClose(d, frame)
  /\ down' = [down EXCEPT ![d] = Tail(@)]
  /\ UNCHANGED <<link, nextId, pumped, opens, faults, ends, usedIds, reused>>
-----------------------------------------------------------------------------
\* Mutant: the tunnels outlive the connection.
DisconnectKeepsTunnels(d) ==
  /\ faults < MaxFaults
  /\ faults' = faults + 1
  /\ link[d] = "on"
  /\ link' = [link EXCEPT ![d] = "gone"]
  /\ up' = [up EXCEPT ![d] = <<>>] /\ down' = [down EXCEPT ![d] = <<>>]
  /\ UNCHANGED <<nextId, tunnels, pumped, opens, ends, usedIds, reused, broken>>

(* The connection to the relay is lost; the tunnels go with it.            *)
Disconnect(d) ==
  /\ faults < MaxFaults
  /\ faults' = faults + 1
  /\ link[d] = "on"
  /\ link' = [link EXCEPT ![d] = "gone"]
  /\ up' = [up EXCEPT ![d] = <<>>] /\ down' = [down EXCEPT ![d] = <<>>]
  /\ tunnels' = [tunnels EXCEPT ![d] = <<>>]
  /\ pumped' = [pumped EXCEPT ![d] = <<>>]
  /\ UNCHANGED <<nextId, opens, ends, usedIds, reused, broken>>

RelayNotices(d) ==
  /\ link[d] = "gone"
  /\ link' = [link EXCEPT ![d] = "off"]
  /\ UNCHANGED <<up, down, nextId, tunnels, pumped, opens, faults, ends, usedIds, reused, broken>>

(* Tunnels::new: numbers start from 1 again.                               *)
Reconnect(d) ==
  /\ link[d] # "on"
  /\ link' = [link EXCEPT ![d] = "on"]
  /\ nextId' = [nextId EXCEPT ![d] = 1]
  /\ UNCHANGED <<up, down, tunnels, pumped, opens, faults, ends, usedIds, reused, broken>>

Next ==
  \E d \in Device :
    \/ \E peer \in Device : Open(d, peer)
    \/ \E key \in DOMAIN tunnels[d] : Write(d, key) \/ EndSession(d, key)
    \/ OnPumped(d) \/ Forward(d) \/ Receive(d)
    \/ Disconnect(d) \/ RelayNotices(d) \/ Reconnect(d)

Spec == Init /\ [][Next]_vars

(* The tunnel with this number that opener opened, at both of its ends.    *)
Ping(opener, id) ==
  \E d \in Device : \E key \in DOMAIN tunnels[d] :
    /\ key.id = id
    /\ key.openedHere <=> d = opener
    /\ key.openedHere \/ key.peer = opener
    /\ Write(d, key)

(* Both programs keep running, the relay notices a lost connection, and    *)
(* one of the sessions of every tunnel writes now and then (its pings):    *)
(* strong fairness, since the bound on writes disables them now and then.  *)
Fairness ==
  \A d \in Device :
    /\ WF_vars(OnPumped(d)) /\ WF_vars(Forward(d)) /\ WF_vars(Receive(d))
    /\ WF_vars(RelayNotices(d))
    /\ \A id \in 1..MaxOpens : SF_vars(Ping(d, id))

FairSpec == Spec /\ Fairness
-----------------------------------------------------------------------------
(* "An ordered byte stream between this device and one of its paired       *)
(* devices" (tunnel.rs): a session reads what the session at the other end *)
(* wrote, in order and without gaps, and all of it if that one ended.      *)
(* This rests on numbers not being given twice, which a device that        *)
(* reconnects does not ensure.                                             *)
StreamsIntact == broken => reused

(* "Tell the other side, so its session ends too instead of waiting for a  *)
(* timeout" (on_frame): in the end every tunnel is open at both ends, each *)
(* having been opened by one of them, or at none.                          *)
Mirror(d, key) == [peer |-> d, id |-> key.id, openedHere |-> ~key.openedHere]

NoneHalfOpen ==
  <>[](\A d \in Device : \A key \in DOMAIN tunnels[d] :
         Mirror(d, key) \in DOMAIN tunnels[key.peer])
===============================================================================
