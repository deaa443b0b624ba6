----------------------------- MODULE RelaySession -----------------------------
(***************************************************************************)
(* Devices on the relay: the control messages of a connection, from both   *)
(* ends.  The relay (apps/relay/src/features/relay/routes.ts) verifies     *)
(* access tokens, registers sockets and answers; the client is session()   *)
(* of apps/desktop/src-tauri/src/relay.rs with the requests the window     *)
(* makes.  When a device connects again is left open here (see Account),   *)
(* and so is what tunnels carry (see RelayTunnels).                        *)
(***************************************************************************)
EXTENDS Registry, Integers, Sequences, FiniteSets

CONSTANTS
  StartAccounts,  \* the users devices may be signed in as
  Caller,         \* devices whose window asks for something
  Request,        \* what it asks for: test messages and pairings
  MaxEvents       \* bound: connections made, requests, dial ticks, connections
                  \* that fail and sessions given up, together

ASSUME RelayAssumption ==
  /\ {Socket, Request} \subseteq SUBSET Nat    \* numbered as they come
  /\ Caller \subseteq Device
  /\ None \notin Request \cup [device: Device, kind: {"test", "pair"}]
  /\ StartAccounts \subseteq [Device -> User]
  /\ MaxEvents \in Nat

VARIABLES
  \* the relay
  registry,
  ready,      \* readyState of each socket, and "unopened"
  verifying,  \* sockets whose token is being verified
  timer,      \* sockets whose registration timeout is running
  \* between a socket's ends
  up, down,   \* messages to the relay, and from it
  dead,       \* sockets that deliver nothing any more
  \* the devices
  owner,      \* the device that opened a socket
  account,    \* the user a device is signed in as
  socket,     \* each device's connection
  phase,      \* "idle", "registering" or "connected"
  outgoing,   \* requests not yet taken up
  pending,    \* tests sent and not yet answered
  pairing,    \* the pairing that waits for the list of devices
  asked,      \* who made a request, and of which kind
  outcome,    \* what its caller was told
  events

relayVars  == <<registry, ready, verifying, timer>>
linkVars   == <<up, down, dead>>
clientVars == <<owner, account, socket, phase>>
askVars    == <<outgoing, pending, pairing, asked, outcome>>
vars == <<relayVars, linkVars, clientVars, askVars, events>>

Register == [type |-> "register"]
Test(r)  == [type |-> "message", of |-> r]
Devices  == [type |-> "devices"]
ToRelay  == {Register, Devices} \cup {Test(r) : r \in Request}

Registered     == [type |-> "registered"]
Message(u)     == [type |-> "message", user |-> u]
DeviceList     == [type |-> "devices"]
Sent(r)        == [type |-> "sent", of |-> r]
Error(code, r) == [type |-> "error", code |-> code, of |-> r]
Close(code)    == [type |-> "close", code |-> code]
FromRelay ==
  {Registered, DeviceList} \cup {Message(u) : u \in User} \cup {Sent(r) : r \in Request}
  \cup {Error(c, r) : c \in {"unauthorized", "not_registered", "already_registered",
                             "no_other_devices"}, r \in Request \cup {None}}
  \cup {Close(c) : c \in {"replaced", "unauthorized", "timeout"}}

TypeOK ==
  /\ registry \in Registries
  /\ ready \in [Socket -> {"unopened", "open", "closing", "closed"}]
  /\ verifying \subseteq Socket /\ timer \subseteq Socket /\ dead \subseteq Socket
  /\ up \in [Socket -> Seq(ToRelay)] /\ down \in [Socket -> Seq(FromRelay)]
  /\ owner \in [Socket -> Device \cup {None}]
  /\ account \in [Device -> User]
  /\ socket \in [Device -> Socket \cup {None}]
  /\ phase \in [Device -> {"idle", "registering", "connected"}]
  /\ outgoing \in [Device -> Seq(Request)] /\ pending \in [Device -> Seq(Request)]
  /\ pairing \in [Device -> Request \cup {None}]
  /\ asked \in [Request -> [device: Device, kind: {"test", "pair"}] \cup {None}]
  /\ outcome \in [Request -> {"none", "waiting", "answered", "refused", "lost", "timeout"}]
  /\ \A d \in Device : phase[d] = "idle" <=> socket[d] = None
  /\ events \in 0..MaxEvents

Init ==
  /\ registry = EmptyRegistry
  /\ ready = [s \in Socket |-> "unopened"]
  /\ verifying = {} /\ timer = {} /\ dead = {}
  /\ up = [s \in Socket |-> <<>>] /\ down = [s \in Socket |-> <<>>]
  /\ owner = [s \in Socket |-> None]
  /\ account \in StartAccounts
  /\ socket = [d \in Device |-> None]
  /\ phase = [d \in Device |-> "idle"]
  /\ outgoing = [d \in Device |-> <<>>] /\ pending = [d \in Device |-> <<>>]
  /\ pairing = [d \in Device |-> None]
  /\ asked = [r \in Request |-> None]
  /\ outcome = [r \in Request |-> "none"]
  /\ events = 0
Event == events < MaxEvents /\ events' = events + 1
-----------------------------------------------------------------------------
(* The relay.                                                              *)

(* send: nothing on a socket that is not open, and nothing arrives on one  *)
(* that is dead or that its device has given up.                           *)
Reaches(s) == ready[s] = "open" /\ s \notin dead /\ socket[owner[s]] = s

Put(queues, s, message) ==
  [queues EXCEPT ![s] = IF Reaches(s) THEN Append(@, message) ELSE @]

(* Another registered connection of the same user.                         *)
\* Mutant: of any user.
OthersOfAnyone(s) == {t \in Socket : GetBySocket(registry, t) # None} \ {s}

Others(s) == GetUserConnections(registry, GetBySocket(registry, s).user) \ {s}

OnRegister(s) ==
  IF GetBySocket(registry, s) # None \/ s \in verifying
  THEN down' = Put(down, s, Error("already_registered", None)) /\ UNCHANGED verifying
  ELSE verifying' = verifying \cup {s} /\ UNCHANGED down

OnDevices(s) ==
  /\ down' = Put(down, s, IF GetBySocket(registry, s) = None
                          THEN Error("not_registered", None) ELSE DeviceList)
  /\ UNCHANGED verifying

OnMessage(s, r) ==
  /\ down' =
       IF GetBySocket(registry, s) = None THEN Put(down, s, Error("not_registered", r))
       ELSE IF Others(s) = {} THEN Put(down, s, Error("no_other_devices", r))
       ELSE [t \in Socket |->
              IF t \in Others(s)
              THEN Put(down, t, Message(GetBySocket(registry, s).user))[t]
              ELSE IF t = s THEN Put(down, s, Sent(r))[s] ELSE down[t]]
  /\ UNCHANGED verifying

HandleFrame(s) ==
  /\ ready[s] \in {"open", "closing"}
  /\ up[s] # <<>>
  /\ up' = [up EXCEPT ![s] = Tail(@)]
  /\ LET message == Head(up[s])
     IN  CASE message.type = "register" -> OnRegister(s)
           [] message.type = "devices"  -> OnDevices(s)
           [] message.type = "message"  -> OnMessage(s, message.of)
  /\ UNCHANGED <<registry, ready, timer, dead, clientVars, askVars, events>>

(* The relay closes a socket; its close event is still to come.            *)
ServerCloses(s, queues, code) ==
  /\ ready' = [ready EXCEPT ![s] = IF @ = "open" THEN "closing" ELSE @]
  /\ down' = Put(queues, s, Close(code))

Rejected(s) ==
  /\ ServerCloses(s, Put(down, s, Error("unauthorized", None)), "unauthorized")
  /\ UNCHANGED <<registry, timer>>

(* The token names the user, the message the device.                       *)
IdentityOf(s) == [user |-> account[owner[s]], device |-> owner[s]]

\* Mutants: the state of the socket is not looked at after the await; the
\* replaced connection is not closed.
VerifiedWhateverReadyState(s) ==
  /\ timer' = timer \ {s}
  /\ registry' = Add(registry, s, IdentityOf(s))
  /\ down' = Put(down, s, Registered)
  /\ UNCHANGED ready

VerifiedKeepsReplaced(s) ==
  IF ready[s] # "open" THEN UNCHANGED <<registry, ready, timer, down>>
  ELSE /\ timer' = timer \ {s}
       /\ registry' = Add(registry, s, IdentityOf(s))
       /\ down' = Put(down, s, Registered)
       /\ UNCHANGED ready

Verified(s) ==
  IF ready[s] # "open" THEN UNCHANGED <<registry, ready, timer, down>>
  ELSE LET id       == IdentityOf(s)
           replaced == GetConnection(registry, id.user, id.device)
       IN  /\ timer' = timer \ {s}
           /\ registry' = Add(registry, s, id)
           /\ IF replaced = None THEN down' = Put(down, s, Registered) /\ UNCHANGED ready
              ELSE ServerCloses(replaced, Put(down, s, Registered), "replaced")

(* register, after the await: the token may have expired, been revoked, or *)
(* not be verified because Clerk could not be reached.                     *)
VerifyDone(s) ==
  /\ s \in verifying
  /\ verifying' = verifying \ {s}
  /\ Verified(s) \/ Rejected(s)
  /\ UNCHANGED <<up, dead, clientVars, askVars, events>>

AuthTimeout(s) ==
  /\ s \in timer
  /\ timer' = timer \ {s}
  /\ IF GetBySocket(registry, s) = None
     THEN ServerCloses(s, down, "timeout") ELSE UNCHANGED <<ready, down>>
  /\ UNCHANGED <<registry, verifying, up, dead, clientVars, askVars, events>>

(* The close event, after either end closed or the connection failed.      *)
CloseEvent(s) ==
  /\ ready[s] = "closing" \/ (ready[s] = "open" /\ (s \in dead \/ socket[owner[s]] # s))
  /\ ready' = [ready EXCEPT ![s] = "closed"]
  /\ timer' = timer \ {s}
  /\ registry' = RemoveBySocket(registry, s)
  /\ up' = [up EXCEPT ![s] = <<>>]
  /\ UNCHANGED <<verifying, down, dead, clientVars, askVars, events>>
-----------------------------------------------------------------------------
(* A device's session.                                                     *)

Connect(d) ==
  /\ Event
  /\ phase[d] = "idle"
  /\ \E s \in Socket :
       /\ ready[s] = "unopened"
       /\ \A t \in Socket : t < s => ready[t] # "unopened"
       /\ ready' = [ready EXCEPT ![s] = "open"]
       /\ timer' = timer \cup {s}
       /\ up' = [up EXCEPT ![s] = <<Register>>]
       /\ owner' = [owner EXCEPT ![s] = d]
       /\ socket' = [socket EXCEPT ![d] = s]
  /\ phase' = [phase EXCEPT ![d] = "registering"]
  /\ UNCHANGED <<registry, verifying, down, dead, account, askVars>>

SendUp(s, message) == up' = [up EXCEPT ![s] = IF s \in dead THEN @ ELSE Append(@, message)]

Resolve(requests, how) ==
  [r \in Request |-> IF r \in requests /\ outcome[r] = "waiting" THEN how ELSE outcome[r]]

Waiting(d) == {pending[d][i] : i \in DOMAIN pending[d]} \cup ({pairing[d]} \ {None})

\* Mutant: callers are not told that the connection is gone.
EndedQuietly(d) ==
  /\ phase' = [phase EXCEPT ![d] = "idle"]
  /\ socket' = [socket EXCEPT ![d] = None]
  /\ up' = [up EXCEPT ![socket[d]] = <<>>]
  /\ down' = [down EXCEPT ![socket[d]] = <<>>]
  /\ pending' = [pending EXCEPT ![d] = <<>>]
  /\ pairing' = [pairing EXCEPT ![d] = None]
  /\ UNCHANGED outcome

\* Mutant: the connection is kept.
EndedKeepsSocket(d) ==
  /\ phase' = [phase EXCEPT ![d] = "idle"]
  /\ up' = [up EXCEPT ![socket[d]] = <<>>]
  /\ down' = [down EXCEPT ![socket[d]] = <<>>]
  /\ pending' = [pending EXCEPT ![d] = <<>>]
  /\ pairing' = [pairing EXCEPT ![d] = None]
  /\ outcome' = Resolve(Waiting(d), "lost")
  /\ UNCHANGED socket

(* The session returns, whatever ended it; dropping the reply channels     *)
(* tells the callers.  What the relay still reads of it, it read before.   *)
Ended(d) ==
  /\ phase' = [phase EXCEPT ![d] = "idle"]
  /\ socket' = [socket EXCEPT ![d] = None]
  /\ up' = [up EXCEPT ![socket[d]] = <<>>]
  /\ down' = [down EXCEPT ![socket[d]] = <<>>]
  /\ pending' = [pending EXCEPT ![d] = <<>>]
  /\ pairing' = [pairing EXCEPT ![d] = None]
  /\ outcome' = Resolve(Waiting(d), "lost")

(* The first answer must be the confirmation; any other ends the session.  *)
AwaitRegistered(d) ==
  /\ phase[d] = "registering"
  /\ LET s == socket[d]
     IN  /\ down[s] # <<>>
         /\ IF Head(down[s]) = Registered
            THEN /\ phase' = [phase EXCEPT ![d] = "connected"]
                 /\ down' = [down EXCEPT ![s] = Tail(@)]
                 /\ UNCHANGED <<up, socket, pending, pairing, outcome>>
            ELSE Ended(d)
  /\ UNCHANGED <<relayVars, dead, owner, account, outgoing, asked, events>>

(* "The relay answers test messages in order, so replies are matched first *)
(* in, first out."                                                         *)
OnAnswer(d) ==
  /\ IF pending[d] = <<>> THEN UNCHANGED <<pending, outcome>>
     ELSE /\ pending' = [pending EXCEPT ![d] = Tail(@)]
          /\ outcome' = Resolve({Head(pending[d])}, "answered")
  /\ UNCHANGED pairing

(* A waiting pairing goes on with this list (Tunnels::pair).               *)
OnDeviceList(d) ==
  /\ pairing' = [pairing EXCEPT ![d] = None]
  /\ outcome' = Resolve({pairing[d]}, "answered")
  /\ UNCHANGED pending

Read(d) ==
  /\ phase[d] = "connected"
  /\ LET s == socket[d]
     IN  /\ down[s] # <<>>
         /\ IF Head(down[s]).type = "close" THEN Ended(d)
            ELSE /\ down' = [down EXCEPT ![s] = Tail(@)]
                 /\ CASE Head(down[s]).type \in {"sent", "error"} -> OnAnswer(d)
                      [] Head(down[s]).type = "devices" -> OnDeviceList(d)
                      [] OTHER -> UNCHANGED <<pending, pairing, outcome>>
                 /\ UNCHANGED <<up, phase, socket>>
  /\ UNCHANGED <<relayVars, dead, owner, account, outgoing, asked, events>>

(* Nothing arrives: no answer to the registration within CONNECT_TIMEOUT,  *)
(* or no frame within IDLE_TIMEOUT.  A relay that only answers late is     *)
(* DropSession's case.                                                     *)
TimesOut(d) ==
  /\ phase[d] # "idle" /\ socket[d] \in dead
  /\ Ended(d)
  /\ UNCHANGED <<relayVars, dead, owner, account, outgoing, asked, events>>

(* The desired state changes and the session is dropped, or the relay took *)
(* too long to answer the registration.                                    *)
DropSession(d) ==
  /\ Event
  /\ phase[d] # "idle"
  /\ Ended(d)
  /\ UNCHANGED <<relayVars, dead, owner, account, outgoing, asked>>

(* Takes up the next request, or turns it away while not connected.        *)
Serve(d) ==
  /\ outgoing[d] # <<>>
  /\ phase[d] # "registering"
  /\ outgoing' = [outgoing EXCEPT ![d] = Tail(@)]
  /\ LET r == Head(outgoing[d])
         s == socket[d]
     IN  IF phase[d] = "idle" \/ (asked[r].kind = "pair" /\ pairing[d] # None)
         THEN outcome' = Resolve({r}, "refused") /\ UNCHANGED <<up, pending, pairing>>
         ELSE IF asked[r].kind = "test"
         THEN /\ SendUp(s, Test(r))
              /\ pending' = [pending EXCEPT ![d] = Append(@, r)]
              /\ UNCHANGED <<pairing, outcome>>
         ELSE /\ SendUp(s, Devices)
              /\ pairing' = [pairing EXCEPT ![d] = r]
              /\ UNCHANGED <<pending, outcome>>
  /\ UNCHANGED <<relayVars, down, dead, clientVars, asked, events>>

(* The dial timer also asks for the list of devices.                       *)
DialTick(d) ==
  /\ Event
  /\ phase[d] = "connected"
  /\ SendUp(socket[d], Devices)
  /\ UNCHANGED <<relayVars, down, dead, clientVars, askVars>>
-----------------------------------------------------------------------------
(* send_relay_test and pair_through_relay.                                 *)
Ask(d, kind) ==
  /\ Event
  /\ \E r \in Request :
       /\ asked[r] = None
       /\ \A q \in Request : q < r => asked[q] # None
       /\ asked' = [asked EXCEPT ![r] = [device |-> d, kind |-> kind]]
       /\ outcome' = [outcome EXCEPT ![r] = "waiting"]
       /\ outgoing' = [outgoing EXCEPT ![d] = Append(@, r)]
  /\ UNCHANGED <<relayVars, linkVars, clientVars, pending, pairing>>

\* Mutant: a request given up is no longer expected to be answered.
GiveUpForgets(r) ==
  /\ outcome[r] = "waiting"
  /\ outcome' = Resolve({r}, "timeout")
  /\ pending' = [d \in Device |-> SelectSeq(pending[d], LAMBDA p : p # r)]
  /\ UNCHANGED <<relayVars, linkVars, clientVars, outgoing, pairing, asked, events>>

(* The caller stops waiting; what it asked for stays where it is.          *)
GiveUp(r) ==
  /\ outcome[r] = "waiting"
  /\ outcome' = Resolve({r}, "timeout")
  /\ UNCHANGED <<relayVars, linkVars, clientVars, outgoing, pending, pairing, asked,
                 events>>

(* A connection fails without a word: both ends find out by themselves.    *)
Fail(s) ==
  /\ Event
  /\ ready[s] \in {"open", "closing"} /\ s \notin dead
  /\ dead' = dead \cup {s}
  /\ up' = [up EXCEPT ![s] = <<>>] /\ down' = [down EXCEPT ![s] = <<>>]
  /\ UNCHANGED <<relayVars, clientVars, askVars>>

Next ==
  \/ \E s \in Socket : HandleFrame(s) \/ VerifyDone(s) \/ AuthTimeout(s) \/ CloseEvent(s) \/ Fail(s)
  \/ \E d \in Device :
       \/ Connect(d) \/ AwaitRegistered(d) \/ Read(d) \/ TimesOut(d) \/ DropSession(d)
       \/ Serve(d) \/ DialTick(d)
       \/ d \in Caller /\ \E kind \in {"test", "pair"} : Ask(d, kind)
  \/ \E r \in Request : GiveUp(r)

Spec == Init /\ [][Next]_vars

(* Both programs keep running, verifications and timers end.  No device    *)
(* has to connect, and no caller to give up.                               *)
Fairness ==
  /\ \A s \in Socket : /\ WF_vars(HandleFrame(s)) /\ WF_vars(VerifyDone(s))
                       /\ WF_vars(AuthTimeout(s)) /\ WF_vars(CloseEvent(s))
  /\ \A d \in Device : /\ WF_vars(AwaitRegistered(d) \/ Read(d) \/ TimesOut(d))
                       /\ WF_vars(Serve(d))

FairSpec == Spec /\ Fairness
-----------------------------------------------------------------------------
(* "Invariant: every connection in #users is in #sockets and vice versa"   *)
(* (ConnectionRegistry), and "a closed socket must never enter the         *)
(* registry: its close event has already fired, so nothing would remove    *)
(* it" (register).                                                         *)
RegistryIsExact ==
  /\ Consistent(registry)
  /\ \A s \in Socket : ready[s] \in {"unopened", "closed"} => GetBySocket(registry, s) = None

(* "A device can only ever reach its own user's devices" (protocol.ts):    *)
(* what a connection is sent comes from the user it authenticated as.      *)
OwnUserOnly ==
  \A s \in Socket : \A i \in DOMAIN down[s] :
    down[s][i].type = "message" => down[s][i].user = account[owner[s]]

(* "The relay answers test messages in order, so replies are matched first *)
(* in, first out" (relay.rs): a caller is told the answer to its own       *)
(* request, also when an earlier caller has given up.                      *)
AnswersMatch ==
  [][\A r \in Request :
       outcome[r] = "waiting" /\ outcome'[r] = "answered" /\ asked[r].kind = "test"
       => \E s \in Socket : /\ down[s] # <<>> /\ down'[s] = Tail(down[s])
                            /\ Head(down[s]).type \in {"sent", "error"}
                            /\ Head(down[s]).of = r]_vars

(* "Registered with the relay" (RelayStatus::Connected): unless the        *)
(* connection failed or a close is on its way, the relay agrees, so that   *)
(* no device waits on a connection over which nothing can reach it.        *)
ConnectedIsRegistered ==
  \A d \in Device :
    LET s == socket[d]
    IN  phase[d] = "connected" /\ s \notin dead /\ ready[s] = "open"
        => GetBySocket(registry, s) = IdentityOf(s)

(* Every request ends without its caller's timeout, whatever happens to    *)
(* the connection, and a pairing does not block later ones for ever.       *)
RequestsEnd ==
  (\E r \in Request : outcome[r] = "waiting") ~> (\A r \in Request : outcome[r] # "waiting")
===============================================================================
