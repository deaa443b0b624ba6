----------------------------- MODULE Connections ------------------------------
(***************************************************************************)
(* How two paired devices come to keep one connection, whoever dials       *)
(* (crates/cled-lan/src/node.rs): the device with the lower ID dials, the  *)
(* other one as a fallback, and either may also open a tunnel through the  *)
(* relay (apps/desktop/src-tauri/src/tunnel.rs).  What is said on a        *)
(* connection, and who is trusted, is Membership's.                        *)
(***************************************************************************)
EXTENDS Naturals

CONSTANTS
  Device, Lower,          \* the two devices; the one with the lower ID
  Slot,                   \* connections that may exist at a time
  None,                   \* Option::None
  MaxTunnels, MaxFaults   \* bounds

ASSUME DevicesAssumption ==
  /\ \E higher \in Device \ {Lower} : Device = {Lower, higher}
  /\ None \notin Device \cup Slot
  /\ {MaxTunnels, MaxFaults} \subseteq Nat

VARIABLES
  initiator,  \* who started the connection in a slot
  tunnelled,  \* slots whose connection is a tunnel
  end,        \* each device's end of each connection: "none"; "setup", until the
              \* handshake is done; "reading"; "ended", not yet unregistered
  closed,     \* what each device has yet to find out about the other end:
              \* "no"; "failed", closed during the handshake; "closed" after it
  conns,      \* each device's registered connection to the other
  dialing,    \* devices with a dial under way
  formed,     \* history: both ends of some connection finished the handshake
  tunnels, faults   \* how many there were

vars == <<initiator, tunnelled, end, closed, conns, dialing, formed, tunnels, faults>>

TypeOK ==
  /\ initiator \in [Slot -> Device \cup {None}]
  /\ tunnelled \subseteq Slot
  /\ end \in [Slot -> [Device -> {"none", "setup", "reading", "ended"}]]
  /\ closed \in [Slot -> [Device -> {"no", "failed", "closed"}]]
  /\ conns \in [Device -> Slot \cup {None}]
  /\ dialing \subseteq Device
  /\ formed \in BOOLEAN
  /\ tunnels \in Nat /\ faults \in Nat
  /\ \A d \in Device : conns[d] # None => end[conns[d]][d] \in {"reading", "ended"}

Other(d) == CHOOSE e \in Device : e # d

Init ==
  /\ initiator = [s \in Slot |-> None]
  /\ tunnelled = {}
  /\ end = [s \in Slot |-> [d \in Device |-> "none"]]
  /\ closed = [s \in Slot |-> [d \in Device |-> "no"]]
  /\ conns = [d \in Device |-> None]
  /\ dialing = {}
  /\ formed = FALSE
  /\ tunnels = 0 /\ faults = 0

IsFree(s) == \A d \in Device : end[s][d] = "none"
-----------------------------------------------------------------------------
(* Dialing.  How long the device with the higher ID waits is left open.    *)

Open(d, s) ==
  /\ IsFree(s)
  /\ initiator' = [initiator EXCEPT ![s] = d]
  /\ end' = [end EXCEPT ![s] = [e \in Device |-> "setup"]]
  /\ closed' = [closed EXCEPT ![s] = [e \in Device |-> "no"]]
  /\ UNCHANGED <<conns, formed, faults>>

Dial(d) ==
  /\ conns[d] = None
  /\ d \notin dialing
  /\ dialing' = dialing \cup {d}
  /\ \E s \in Slot : Open(d, s) /\ tunnelled' = tunnelled \ {s}
  /\ UNCHANGED tunnels

(* Unlike a dial, a tunnel does not look at the dials under way.           *)
HasTunnel(d) == \E s \in tunnelled : end[s][d] # "none"

DialTunnel(d) ==
  /\ tunnels < MaxTunnels
  /\ tunnels' = tunnels + 1
  /\ conns[d] = None
  /\ ~HasTunnel(d)
  /\ \E s \in Slot : Open(d, s) /\ tunnelled' = tunnelled \cup {s}
  /\ UNCHANGED dialing

DialEnds(s, d) ==
  dialing' = IF initiator[s] = d /\ s \notin tunnelled THEN dialing \ {d} ELSE dialing
-----------------------------------------------------------------------------
\* Mutants: the new connection always wins; the first one always stays.
AlwaysReplaces(existing, s) == TRUE
NeverReplaces(existing, s) == existing = None

(* register: whether a connection takes the place of the registered one.   *)
Replaces(existing, s) ==
  existing = None \/ (initiator[existing] # Lower /\ initiator[s] = Lower)

(* The other end learns that d closed its end.                             *)
Tell(status, s, d, how) == [status EXCEPT ![s][Other(d)] = IF @ = "no" THEN how ELSE @]

(* start_session: d finished the handshake, and registers the connection   *)
(* or drops it.                                                            *)
StartSession(s, d) ==
  /\ end[s][d] = "setup"
  /\ closed[s][d] # "failed"
  /\ LET existing == conns[d]
     IN  IF Replaces(existing, s)
         THEN /\ conns' = [conns EXCEPT ![d] = s]
              /\ end' = [end EXCEPT ![s][d] = "reading"]
              /\ closed' = IF existing = None THEN closed
                           ELSE Tell(closed, existing, d, "closed")
         ELSE /\ end' = [end EXCEPT ![s][d] = "none"]
              /\ closed' = Tell(closed, s, d, "closed")
              /\ UNCHANGED conns
  /\ formed' = (formed \/ end[s][Other(d)] # "setup")
  /\ DialEnds(s, d)
  /\ UNCHANGED <<initiator, tunnelled, tunnels, faults>>

(* The other end failed during the handshake, or it took too long.         *)
SetupFails(s, d) ==
  /\ end[s][d] = "setup"
  /\ \/ closed[s][d] = "failed" /\ UNCHANGED faults
     \/ closed[s][d] = "no" /\ faults < MaxFaults /\ faults' = faults + 1
  /\ end' = [end EXCEPT ![s][d] = "none"]
  /\ closed' = Tell(closed, s, d, "failed")
  /\ DialEnds(s, d)
  /\ UNCHANGED <<initiator, tunnelled, conns, formed, tunnels>>

(* read_loop ends: the other side closed, or was silent for too long; the  *)
(* writer is stopped too.                                                  *)
ReadLoopEnds(s, d) ==
  /\ end[s][d] = "reading"
  /\ closed[s][d] # "no"
  /\ end' = [end EXCEPT ![s][d] = "ended"]
  /\ closed' = Tell(closed, s, d, "closed")
  /\ UNCHANGED <<initiator, tunnelled, conns, dialing, formed, tunnels, faults>>

\* Mutants: whatever connection is registered is dropped; the entry stays.
ForgetsAny(d, s) == None
ForgetsNone(d, s) == conns[d]

Unregistered(d, s) == IF conns[d] = s THEN None ELSE conns[d]

Unregister(s, d) ==
  /\ end[s][d] = "ended"
  /\ end' = [end EXCEPT ![s][d] = "none"]
  /\ conns' = [conns EXCEPT ![d] = Unregistered(d, s)]
  /\ UNCHANGED <<initiator, tunnelled, closed, dialing, formed, tunnels, faults>>
-----------------------------------------------------------------------------
(* A connection breaks; both ends notice in their own time.                *)
Break(s) ==
  /\ faults < MaxFaults
  /\ faults' = faults + 1
  /\ \E d \in Device : end[s][d] # "none" /\ closed[s][d] = "no"
  /\ closed' = [closed EXCEPT ![s] = [d \in Device |->
       IF @[d] # "no" THEN @[d] ELSE IF end[s][d] = "setup" THEN "failed" ELSE "closed"]]
  /\ UNCHANGED <<initiator, tunnelled, end, conns, dialing, formed, tunnels>>

(* The program on d is started again; the other device notices in its time.*)
Restart(d) ==
  /\ faults < MaxFaults
  /\ faults' = faults + 1
  /\ closed' = [s \in Slot |->
       [closed[s] EXCEPT ![Other(d)] = IF end[s][d] = "none" \/ @ # "no" THEN @
                                       ELSE IF end[s][d] = "setup" THEN "failed" ELSE "closed"]]
  /\ end' = [s \in Slot |-> [end[s] EXCEPT ![d] = "none"]]
  /\ conns' = [conns EXCEPT ![d] = None]
  /\ dialing' = dialing \ {d}
  /\ UNCHANGED <<initiator, tunnelled, formed, tunnels>>
-----------------------------------------------------------------------------
Next ==
  \E d \in Device :
    \/ Dial(d) \/ DialTunnel(d) \/ Restart(d)
    \/ \E s \in Slot :
         \/ StartSession(s, d)
         \/ SetupFails(s, d)
         \/ ReadLoopEnds(s, d)
         \/ Unregister(s, d)
         \/ Break(s)

Spec == Init /\ [][Next]_vars

(* The dialer of the device with the lower ID comes back, handshakes end   *)
(* one way or the other (HANDSHAKE_TIMEOUT), and a silent connection is    *)
(* given up (IDLE_TIMEOUT).  The fallback and tunnels are not relied on.   *)
Fairness ==
  /\ WF_vars(Dial(Lower))
  /\ \A s \in Slot, d \in Device :
       /\ WF_vars(StartSession(s, d) \/ (closed[s][d] = "failed" /\ SetupFails(s, d)))
       /\ WF_vars(ReadLoopEnds(s, d)) /\ WF_vars(Unregister(s, d))

FairSpec == Spec /\ Fairness
-----------------------------------------------------------------------------
(* Both ends of every connection are past the handshake or gone, and know  *)
(* of each other what there is to know.                                    *)
Settled ==
  \A s \in Slot, d \in Device :
    /\ end[s][d] \in {"none", "reading"}
    /\ end[s][d] = "reading" => closed[s][d] = "no"

(* "Paired devices keep one TCP connection per pair" (RFC 1): when nothing *)
(* is under way, the devices have registered the same connection or none,  *)
(* and read no other.                                                      *)
OneConnection ==
  Settled =>
    /\ \A d, e \in Device : conns[d] = conns[e]
    /\ \A s \in Slot, d \in Device : end[s][d] = "reading" => conns[d] = s

(* "If two connections still form, both sides keep the one started by the  *)
(* lower ID" (RFC 1): of several connections, the devices do not drop all, *)
(* as what was sent on a dropped one is lost.  This holds of the dials of  *)
(* both devices however they cross, but not of a tunnel and a dial.        *)
OneDialIsKept ==
  tunnels = 0 /\ faults = 0 /\ Settled /\ formed => \A d \in Device : conns[d] # None

(* The devices end up connected, whatever broke and whoever dialed.        *)
StayConnected == <>[](\A d, e \in Device : conns[d] # None /\ conns[d] = conns[e])
=============================================================================
