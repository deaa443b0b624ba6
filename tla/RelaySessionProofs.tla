-------------------------- MODULE RelaySessionProofs --------------------------
(***************************************************************************)
(* Proofs about Registry and RelaySession, for every set of users, devices *)
(* and connections, any requests and any bound on events.                  *)
(***************************************************************************)
EXTENDS RelaySession, TLAPS

(***************************************************************************)
(* The registry.                                                           *)
(***************************************************************************)
LEMMA EmptyExact ==
  /\ EmptyRegistry \in Registries
  /\ Consistent(EmptyRegistry)
  /\ \A s \in Socket : GetBySocket(EmptyRegistry, s) = None
BY DEF EmptyRegistry, Registries, Consistent, GetBySocket, GetConnection

(* A socket that is not registered takes the place of the connection its   *)
(* device has, and of no other.                                            *)
LEMMA AddExact ==
  ASSUME NEW reg \in Registries, Consistent(reg), NEW s \in Socket, NEW id \in Identity,
         GetBySocket(reg, s) = None
  PROVE  /\ Add(reg, s, id) \in Registries
         /\ Consistent(Add(reg, s, id))
         /\ GetBySocket(Add(reg, s, id), s) = id
         /\ \A t \in Socket \ {s} :
              GetBySocket(Add(reg, s, id), t) =
                IF t = GetConnection(reg, id.user, id.device) THEN None ELSE GetBySocket(reg, t)
<1> DEFINE new == Add(reg, s, id)
           replaced == GetConnection(reg, id.user, id.device)
<1>1. id.user \in User /\ id.device \in Device /\ id # None
  BY NoneIsNothing DEF Identity
<1>2. /\ reg.users \in [User -> [Device -> Socket \cup {None}]]
      /\ reg.sockets \in [Socket -> Identity \cup {None}]
  BY DEF Registries
<1>3. /\ new.users = [reg.users EXCEPT ![id.user][id.device] = s]
      /\ new.sockets = [t \in Socket |-> IF t = s THEN id
                                         ELSE IF t = replaced THEN None
                                         ELSE reg.sockets[t]]
      /\ new = [users |-> new.users, sockets |-> new.sockets]
  BY DEF Add
<1>4. /\ new.users \in [User -> [Device -> Socket \cup {None}]]
      /\ new.sockets \in [Socket -> Identity \cup {None}]
  BY <1>1, <1>2, <1>3
<1>5. new \in Registries
  BY <1>3, <1>4 DEF Registries
<1>6. /\ GetBySocket(new, s) = id
      /\ \A t \in Socket \ {s} :
           GetBySocket(new, t) = IF t = replaced THEN None ELSE GetBySocket(reg, t)
  BY <1>3 DEF GetBySocket
<1>7. /\ GetConnection(new, id.user, id.device) = s
      /\ \A u \in User, d \in Device :
           u # id.user \/ d # id.device => GetConnection(new, u, d) = GetConnection(reg, u, d)
  BY <1>1, <1>2, <1>3 DEF GetConnection
<1> HIDE DEF new
<1>8. ASSUME NEW t \in Socket, GetBySocket(new, t) # None
      PROVE  GetConnection(new, GetBySocket(new, t).user, GetBySocket(new, t).device) = t
  <2>1. CASE t = s
    BY <2>1, <1>6, <1>7
  <2>2. CASE t # s
    <3>1. t # replaced /\ GetBySocket(new, t) = GetBySocket(reg, t)
      BY <1>6, <1>8, <2>2
    <3>2. GetBySocket(reg, t) \in Identity
      BY <1>2, <1>8, <3>1 DEF GetBySocket
    <3>3. GetConnection(reg, GetBySocket(reg, t).user, GetBySocket(reg, t).device) = t
      BY <1>8, <3>1 DEF Consistent
    <3> QED
      BY <1>7, <3>1, <3>2, <3>3 DEF Identity
  <2> QED
    BY <2>1, <2>2
<1>9. ASSUME NEW u \in User, NEW d \in Device, GetConnection(new, u, d) # None
      PROVE  GetBySocket(new, GetConnection(new, u, d)) = [user |-> u, device |-> d]
  <2>1. CASE u = id.user /\ d = id.device
    BY <2>1, <1>6, <1>7 DEF Identity
  <2>2. CASE u # id.user \/ d # id.device
    <3>1. GetConnection(new, u, d) = GetConnection(reg, u, d)
      BY <1>7, <2>2
    <3> DEFINE t == GetConnection(reg, u, d)
    <3>2. t \in Socket
      BY <1>2, <1>9, <3>1 DEF GetConnection
    <3>3. GetBySocket(reg, t) = [user |-> u, device |-> d]
      BY <1>9, <3>1 DEF Consistent
    <3>4. [user |-> u, device |-> d] # None
      BY NoneIsNothing
    <3>5. t # s
      BY <3>3, <3>4
    <3>6. t # replaced
      BY <1>1, <2>2, <3>2, <3>3, NoneIsNothing DEF Consistent
    <3> QED
      BY <1>6, <3>1, <3>2, <3>3, <3>5, <3>6
  <2> QED
    BY <2>1, <2>2
<1>10. Consistent(new)
  BY <1>8, <1>9 DEF Consistent
<1> QED
  BY <1>5, <1>6, <1>10 DEF new

LEMMA RemoveExact ==
  ASSUME NEW reg \in Registries, Consistent(reg), NEW s \in Socket
  PROVE  /\ RemoveBySocket(reg, s) \in Registries
         /\ Consistent(RemoveBySocket(reg, s))
         /\ \A t \in Socket : GetBySocket(RemoveBySocket(reg, s), t) =
                                IF t = s THEN None ELSE GetBySocket(reg, t)
<1> DEFINE new == RemoveBySocket(reg, s)
           id  == GetBySocket(reg, s)
<1>1. /\ reg.users \in [User -> [Device -> Socket \cup {None}]]
      /\ reg.sockets \in [Socket -> Identity \cup {None}]
  BY DEF Registries
<1>2. CASE id = None
  BY <1>2 DEF RemoveBySocket
<1>3. CASE id # None
  <2>1. id \in Identity /\ id.user \in User /\ id.device \in Device
    BY <1>1, <1>3 DEF GetBySocket, Identity
  <2>2. /\ new.users = [reg.users EXCEPT ![id.user][id.device] = None]
        /\ new.sockets = [reg.sockets EXCEPT ![s] = None]
        /\ new = [users |-> new.users, sockets |-> new.sockets]
    BY <1>3 DEF RemoveBySocket
  <2>3. new \in Registries
    BY <1>1, <2>1, <2>2 DEF Registries
  <2>4. \A t \in Socket : GetBySocket(new, t) = IF t = s THEN None ELSE GetBySocket(reg, t)
    BY <1>1, <2>2 DEF GetBySocket
  <2>5. /\ GetConnection(new, id.user, id.device) = None
        /\ \A u \in User, d \in Device :
             u # id.user \/ d # id.device => GetConnection(new, u, d) = GetConnection(reg, u, d)
    BY <1>1, <2>1, <2>2 DEF GetConnection
  <2>6. GetConnection(reg, id.user, id.device) = s
    BY <1>3 DEF Consistent
  <2> HIDE DEF new
  <2>7. ASSUME NEW t \in Socket, GetBySocket(new, t) # None
        PROVE  GetConnection(new, GetBySocket(new, t).user, GetBySocket(new, t).device) = t
    <3>1. t # s /\ GetBySocket(new, t) = GetBySocket(reg, t)
      BY <2>4, <2>7
    <3>2. GetBySocket(reg, t) \in Identity
      BY <1>1, <2>7, <3>1 DEF GetBySocket
    <3>3. GetConnection(reg, GetBySocket(reg, t).user, GetBySocket(reg, t).device) = t
      BY <2>7, <3>1 DEF Consistent
    <3>4. GetBySocket(reg, t).user # id.user \/ GetBySocket(reg, t).device # id.device
      BY <2>6, <3>1, <3>3
    <3> QED
      BY <2>5, <3>1, <3>2, <3>3, <3>4 DEF Identity
  <2>8. ASSUME NEW u \in User, NEW d \in Device, GetConnection(new, u, d) # None
        PROVE  GetBySocket(new, GetConnection(new, u, d)) = [user |-> u, device |-> d]
    <3> DEFINE t == GetConnection(reg, u, d)
    <3>1. (u # id.user \/ d # id.device) /\ GetConnection(new, u, d) = t
      BY <2>5, <2>8
    <3>2. t \in Socket
      BY <1>1, <2>8, <3>1 DEF GetConnection
    <3>3. GetBySocket(reg, t) = [user |-> u, device |-> d]
      BY <2>8, <3>1 DEF Consistent
    <3>4. t # s
      BY <3>1, <3>3
    <3> QED
      BY <2>4, <3>1, <3>2, <3>3, <3>4
  <2>9. Consistent(new)
    BY <2>7, <2>8 DEF Consistent
  <2> QED
    BY <2>3, <2>4, <2>9 DEF new
<1> QED
  BY <1>2, <1>3

(***************************************************************************)
(* Messages and queues.                                                    *)
(***************************************************************************)
LEMMA MessageTypes ==
  /\ Register \in ToRelay /\ Devices \in ToRelay
  /\ \A r \in Request : Test(r) \in ToRelay /\ Sent(r) \in FromRelay
  /\ Registered \in FromRelay /\ DeviceList \in FromRelay
  /\ \A u \in User : Message(u) \in FromRelay
  /\ \A c \in {"unauthorized", "not_registered", "already_registered", "no_other_devices"},
        r \in Request \cup {None} : Error(c, r) \in FromRelay
  /\ \A c \in {"replaced", "unauthorized", "timeout"} : Close(c) \in FromRelay
BY DEF ToRelay, FromRelay

LEMMA ToRelayCases ==
  ASSUME NEW m \in ToRelay
  PROVE  \/ m.type = "register"
         \/ m.type = "devices"
         \/ m.type = "message" /\ m.of \in Request
BY DEF ToRelay, Register, Devices, Test

LEMMA PutType ==
  ASSUME NEW queues \in [Socket -> Seq(FromRelay)], NEW s \in Socket, NEW m \in FromRelay
  PROVE  Put(queues, s, m) \in [Socket -> Seq(FromRelay)]
<1>1. Append(queues[s], m) \in Seq(FromRelay)
  OBVIOUS
<1> QED
  BY <1>1 DEF Put

LEMMA TailType ==
  ASSUME NEW S, NEW seq \in Seq(S), seq # <<>>
  PROVE  Head(seq) \in S /\ Tail(seq) \in Seq(S)
OBVIOUS

LEMMA ResolveType ==
  ASSUME TypeOK, NEW requests,
         NEW how \in {"none", "waiting", "answered", "refused", "lost", "timeout"}
  PROVE  Resolve(requests, how) \in
           [Request -> {"none", "waiting", "answered", "refused", "lost", "timeout"}]
BY DEF Resolve, TypeOK

(***************************************************************************)
(* Type correctness.  What a socket stands for is known once it is open:   *)
(* only then is its device known, and only then is a token verified.       *)
(***************************************************************************)
Opened ==
  /\ \A s \in Socket : ready[s] # "unopened" => owner[s] \in Device
  /\ \A s \in verifying : ready[s] # "unopened"

LEMMA IdentityType ==
  ASSUME TypeOK, Opened, NEW s \in Socket, ready[s] # "unopened"
  PROVE  IdentityOf(s) \in Identity
BY DEF TypeOK, Opened, IdentityOf, Identity

LEMMA ConnectionType ==
  ASSUME TypeOK, NEW u \in User
  PROVE  /\ \A d \in Device : GetConnection(registry, u, d) \in Socket \cup {None}
         /\ GetUserConnections(registry, u) \subseteq Socket
BY DEF TypeOK, Registries, GetConnection, GetUserConnections

LEMMA ServerClosesType ==
  ASSUME TypeOK, Opened, NEW s \in Socket, NEW queues \in [Socket -> Seq(FromRelay)],
         NEW code \in {"replaced", "unauthorized", "timeout"}, ServerCloses(s, queues, code)
  PROVE  /\ ready' \in [Socket -> {"unopened", "open", "closing", "closed"}]
         /\ \A t \in Socket : ready'[t] = "unopened" <=> ready[t] = "unopened"
         /\ down' \in [Socket -> Seq(FromRelay)]
<1>1. down' \in [Socket -> Seq(FromRelay)]
  BY MessageTypes, PutType DEF ServerCloses
<1> QED
  BY <1>1 DEF ServerCloses, TypeOK

LEMMA EndedType ==
  ASSUME TypeOK, NEW d \in Device, phase[d] # "idle", Ended(d)
  PROVE  /\ socket[d] \in Socket
         /\ phase' \in [Device -> {"idle", "registering", "connected"}]
         /\ socket' \in [Device -> Socket \cup {None}]
         /\ \A e \in Device : phase'[e] = "idle" <=> socket'[e] = None
         /\ up' \in [Socket -> Seq(ToRelay)] /\ down' \in [Socket -> Seq(FromRelay)]
         /\ pending' \in [Device -> Seq(Request)]
         /\ pairing' \in [Device -> Request \cup {None}]
         /\ outcome' \in [Request -> {"none", "waiting", "answered", "refused", "lost", "timeout"}]
<1>1. outcome' \in [Request -> {"none", "waiting", "answered", "refused", "lost", "timeout"}]
  BY ResolveType DEF Ended
<1>2. <<>> \in Seq(ToRelay) /\ <<>> \in Seq(FromRelay) /\ <<>> \in Seq(Request)
  OBVIOUS
<1> QED
  BY <1>1, <1>2 DEF Ended, TypeOK

LEMMA InitTyped == Init => TypeOK /\ Opened
<1> SUFFICES ASSUME Init PROVE TypeOK /\ Opened
  OBVIOUS
<1>1. registry \in Registries
  BY EmptyExact DEF Init
<1>2. 0 \in 0..MaxEvents
  BY RelayAssumption
<1>3. <<>> \in Seq(ToRelay) /\ <<>> \in Seq(FromRelay) /\ <<>> \in Seq(Request)
  OBVIOUS
<1>4. account \in [Device -> User]
  BY RelayAssumption DEF Init
<1> QED
  BY <1>1, <1>2, <1>3, <1>4 DEF Init, TypeOK, Opened

LEMMA EventTyped == TypeOK /\ Event => events' \in 0..MaxEvents
BY RelayAssumption DEF TypeOK, Event

LEMMA HandleFrameTyped ==
  ASSUME TypeOK, Opened, NEW s \in Socket, HandleFrame(s)
  PROVE  TypeOK' /\ Opened'
<1> DEFINE m == Head(up[s])
<1>1. up[s] \in Seq(ToRelay) /\ up[s] # <<>>
  BY DEF TypeOK, HandleFrame
<1>2. m \in ToRelay /\ Tail(up[s]) \in Seq(ToRelay)
  BY <1>1, TailType
<1>3. up' \in [Socket -> Seq(ToRelay)]
  BY <1>2 DEF TypeOK, HandleFrame
<1>4. GetBySocket(registry, s) # None => GetBySocket(registry, s).user \in User
  BY DEF TypeOK, Registries, Identity, GetBySocket
<1>5. /\ down' \in [Socket -> Seq(FromRelay)]
      /\ verifying' = verifying \/ verifying' = verifying \cup {s}
  <2>0. down \in [Socket -> Seq(FromRelay)]
    BY DEF TypeOK
  <2>1. CASE m.type = "register"
    <3>1. OnRegister(s)
      BY <2>1 DEF HandleFrame
    <3> QED
      BY <2>0, <3>1, PutType, MessageTypes DEF OnRegister
  <2>2. CASE m.type = "devices"
    <3>1. OnDevices(s)
      BY <2>2 DEF HandleFrame
    <3> QED
      BY <2>0, <3>1, PutType, MessageTypes DEF OnDevices
  <2>3. CASE m.type = "message" /\ m.of \in Request
    <3>1. OnMessage(s, m.of)
      BY <2>3 DEF HandleFrame
    <3> DEFINE told == Message(GetBySocket(registry, s).user)
    <3>2. CASE GetBySocket(registry, s) = None
      BY <2>0, <2>3, <3>1, <3>2, PutType, MessageTypes DEF OnMessage
    <3>3. CASE GetBySocket(registry, s) # None /\ Others(s) = {}
      BY <2>0, <2>3, <3>1, <3>3, PutType, MessageTypes DEF OnMessage
    <3>4. CASE GetBySocket(registry, s) # None /\ Others(s) # {}
      <4>1. \A t \in Socket : Put(down, t, told) \in [Socket -> Seq(FromRelay)]
        BY <1>4, <2>0, <3>4, PutType, MessageTypes
      <4>2. Put(down, s, Sent(m.of)) \in [Socket -> Seq(FromRelay)]
        BY <2>0, <2>3, PutType, MessageTypes
      <4>3. down' = [t \in Socket |->
                      IF t \in Others(s) THEN Put(down, t, told)[t]
                      ELSE IF t = s THEN Put(down, s, Sent(m.of))[s] ELSE down[t]]
        BY <3>1, <3>4 DEF OnMessage
      <4> QED
        BY <2>0, <3>1, <4>1, <4>2, <4>3 DEF OnMessage
    <3> QED
      BY <3>2, <3>3, <3>4
  <2> QED
    BY <1>2, <2>1, <2>2, <2>3, ToRelayCases
<1>6. ready[s] # "unopened"
  BY DEF HandleFrame
<1> QED
  BY <1>3, <1>5, <1>6
  DEF TypeOK, Opened, HandleFrame, clientVars, askVars

LEMMA VerifyDoneTyped ==
  ASSUME TypeOK, Opened, RegistryIsExact, NEW s \in Socket, GetBySocket(registry, s) = None,
         VerifyDone(s)
  PROVE  TypeOK' /\ Opened'
<1>1. /\ registry' \in Registries
      /\ ready' \in [Socket -> {"unopened", "open", "closing", "closed"}]
      /\ \A t \in Socket : ready'[t] = "unopened" <=> ready[t] = "unopened"
      /\ down' \in [Socket -> Seq(FromRelay)]
      /\ timer' \subseteq Socket
  <2>1. CASE Rejected(s)
    <3>1. Put(down, s, Error("unauthorized", None)) \in [Socket -> Seq(FromRelay)]
      BY PutType, MessageTypes DEF TypeOK
    <3> QED
      BY <2>1, <3>1, ServerClosesType DEF Rejected, TypeOK
  <2>2. CASE Verified(s) /\ ready[s] # "open"
    BY <2>2 DEF Verified, TypeOK
  <2>3. CASE Verified(s) /\ ready[s] = "open"
    <3> DEFINE id == IdentityOf(s)
               replaced == GetConnection(registry, id.user, id.device)
    <3>1. id \in Identity /\ id.user \in User /\ id.device \in Device
      BY <2>3, IdentityType DEF Identity
    <3>2. Add(registry, s, id) \in Registries
      BY <3>1, AddExact DEF TypeOK, RegistryIsExact
    <3>3. replaced \in Socket \cup {None}
      BY <3>1, ConnectionType
    <3>4. Put(down, s, Registered) \in [Socket -> Seq(FromRelay)]
      BY PutType, MessageTypes DEF TypeOK
    <3>5. CASE replaced = None
      BY <2>3, <3>2, <3>4, <3>5 DEF Verified, TypeOK
    <3>6. CASE replaced # None
      BY <2>3, <3>2, <3>3, <3>4, <3>6, ServerClosesType DEF Verified, TypeOK
    <3> QED
      BY <3>5, <3>6
  <2> QED
    BY <2>1, <2>2, <2>3 DEF VerifyDone
<1> QED
  BY <1>1 DEF VerifyDone, TypeOK, Opened, clientVars, askVars

LEMMA AuthTimeoutTyped ==
  ASSUME TypeOK, Opened, NEW s \in Socket, AuthTimeout(s)
  PROVE  TypeOK' /\ Opened'
<1>1. /\ ready' \in [Socket -> {"unopened", "open", "closing", "closed"}]
      /\ \A t \in Socket : ready'[t] = "unopened" <=> ready[t] = "unopened"
      /\ down' \in [Socket -> Seq(FromRelay)]
  <2>1. CASE GetBySocket(registry, s) = None
    <3>1. ServerCloses(s, down, "timeout")
      BY <2>1 DEF AuthTimeout
    <3> QED
      BY <3>1, ServerClosesType DEF TypeOK
  <2>2. CASE GetBySocket(registry, s) # None
    BY <2>2 DEF AuthTimeout, TypeOK
  <2> QED
    BY <2>1, <2>2
<1> QED
  BY <1>1 DEF AuthTimeout, TypeOK, Opened, clientVars, askVars

LEMMA CloseEventTyped ==
  ASSUME TypeOK, Opened, RegistryIsExact, NEW s \in Socket, CloseEvent(s)
  PROVE  TypeOK' /\ Opened'
<1>1. registry' \in Registries
  BY RemoveExact DEF CloseEvent, TypeOK, RegistryIsExact
<1>2. up' \in [Socket -> Seq(ToRelay)]
  BY DEF CloseEvent, TypeOK
<1>3. /\ ready' \in [Socket -> {"unopened", "open", "closing", "closed"}]
      /\ \A t \in Socket : ready'[t] = "unopened" <=> ready[t] = "unopened"
  BY DEF CloseEvent, TypeOK
<1> QED
  BY <1>1, <1>2, <1>3 DEF CloseEvent, TypeOK, Opened, clientVars, askVars

LEMMA FailTyped ==
  ASSUME TypeOK, Opened, NEW s \in Socket, Fail(s)
  PROVE  TypeOK' /\ Opened'
<1>1. <<>> \in Seq(ToRelay) /\ <<>> \in Seq(FromRelay)
  OBVIOUS
<1>2. up' \in [Socket -> Seq(ToRelay)] /\ down' \in [Socket -> Seq(FromRelay)]
  BY <1>1 DEF Fail, TypeOK
<1> QED
  BY <1>2, EventTyped DEF Fail, TypeOK, Opened, relayVars, clientVars, askVars

LEMMA ConnectTyped ==
  ASSUME TypeOK, Opened, NEW d \in Device, Connect(d)
  PROVE  TypeOK' /\ Opened'
<1>1. PICK s \in Socket :
        /\ ready[s] = "unopened"
        /\ ready' = [ready EXCEPT ![s] = "open"]
        /\ timer' = timer \cup {s}
        /\ up' = [up EXCEPT ![s] = <<Register>>]
        /\ owner' = [owner EXCEPT ![s] = d]
        /\ socket' = [socket EXCEPT ![d] = s]
  BY DEF Connect
<1>2. <<Register>> \in Seq(ToRelay)
  BY MessageTypes
<1>3. up' \in [Socket -> Seq(ToRelay)]
  BY <1>1, <1>2 DEF TypeOK
<1>4. s # None
  BY NoneIsNothing
<1>5. \A e \in Device : phase'[e] = "idle" <=> socket'[e] = None
  BY <1>1, <1>4 DEF Connect, TypeOK
<1> QED
  BY <1>1, <1>3, <1>5, EventTyped DEF Connect, TypeOK, Opened, askVars

LEMMA SessionOverTyped ==
  ASSUME TypeOK, Opened, NEW d \in Device, phase[d] # "idle", Ended(d),
         UNCHANGED <<relayVars, dead, owner, account, outgoing, asked>>,
         events' \in 0..MaxEvents
  PROVE  TypeOK' /\ Opened'
BY EndedType DEF TypeOK, Opened, relayVars

LEMMA AwaitRegisteredTyped ==
  ASSUME TypeOK, Opened, NEW d \in Device, AwaitRegistered(d)
  PROVE  TypeOK' /\ Opened'
<1> DEFINE s == socket[d]
<1>1. s \in Socket /\ down[s] \in Seq(FromRelay) /\ down[s] # <<>>
  BY DEF AwaitRegistered, TypeOK
<1>2. CASE Head(down[s]) = Registered
  <2>1. Tail(down[s]) \in Seq(FromRelay)
    BY <1>1
  <2>2. /\ phase' = [phase EXCEPT ![d] = "connected"]
        /\ down' = [down EXCEPT ![s] = Tail(@)]
        /\ UNCHANGED <<up, socket, pending, pairing, outcome>>
    BY <1>2, Zenon DEF AwaitRegistered
  <2>3. down' \in [Socket -> Seq(FromRelay)]
    BY <1>1, <2>1, <2>2 DEF TypeOK
  <2> QED
    BY <2>2, <2>3 DEF AwaitRegistered, TypeOK, Opened, relayVars
<1>3. CASE Head(down[s]) # Registered
  BY <1>3, SessionOverTyped DEF AwaitRegistered, TypeOK
<1> QED
  BY <1>2, <1>3

LEMMA ReadTyped ==
  ASSUME TypeOK, Opened, NEW d \in Device, Read(d)
  PROVE  TypeOK' /\ Opened'
<1> DEFINE s == socket[d]
<1>1. s \in Socket /\ down[s] \in Seq(FromRelay) /\ down[s] # <<>>
  BY DEF Read, TypeOK
<1>2. CASE Head(down[s]).type = "close"
  BY <1>2, SessionOverTyped DEF Read, TypeOK
<1>3. CASE Head(down[s]).type # "close"
  <2>1. Tail(down[s]) \in Seq(FromRelay)
    BY <1>1
  <2>2. down' \in [Socket -> Seq(FromRelay)]
    BY <1>1, <1>3, <2>1 DEF Read, TypeOK
  <2>3. /\ pending' \in [Device -> Seq(Request)]
        /\ pairing' \in [Device -> Request \cup {None}]
        /\ outcome' \in [Request -> {"none", "waiting", "answered", "refused", "lost", "timeout"}]
    <3>1. CASE OnAnswer(d)
      <4>1. pending[d] # <<>> => Tail(pending[d]) \in Seq(Request)
        BY DEF TypeOK
      <4>2. outcome' = outcome \/ outcome' = Resolve({Head(pending[d])}, "answered")
        BY <3>1, Zenon DEF OnAnswer
      <4>3. outcome' \in [Request -> {"none", "waiting", "answered", "refused", "lost", "timeout"}]
        BY <4>2, ResolveType DEF TypeOK
      <4> QED
        BY <3>1, <4>1, <4>3 DEF OnAnswer, TypeOK
    <3>2. CASE OnDeviceList(d)
      BY <3>2, ResolveType DEF OnDeviceList, TypeOK
    <3>3. CASE UNCHANGED <<pending, pairing, outcome>>
      BY <3>3 DEF TypeOK
    <3>4. OnAnswer(d) \/ OnDeviceList(d) \/ UNCHANGED <<pending, pairing, outcome>>
      BY <1>3, Zenon DEF Read
    <3> QED
      BY <3>1, <3>2, <3>3, <3>4
  <2> QED
    BY <1>3, <2>2, <2>3 DEF Read, TypeOK, Opened, relayVars
<1> QED
  BY <1>2, <1>3

LEMMA TimesOutTyped ==
  ASSUME TypeOK, Opened, NEW d \in Device, TimesOut(d) \/ DropSession(d)
  PROVE  TypeOK' /\ Opened'
BY SessionOverTyped, EventTyped DEF TimesOut, DropSession, TypeOK

LEMMA SendUpType ==
  ASSUME TypeOK, NEW s \in Socket, NEW m \in ToRelay, SendUp(s, m)
  PROVE  up' \in [Socket -> Seq(ToRelay)]
<1>1. Append(up[s], m) \in Seq(ToRelay)
  BY DEF TypeOK
<1> QED
  BY <1>1 DEF SendUp, TypeOK

LEMMA ServeTyped ==
  ASSUME TypeOK, Opened, NEW d \in Device, Serve(d)
  PROVE  TypeOK' /\ Opened'
<1> DEFINE r == Head(outgoing[d])
           s == socket[d]
<1>1. r \in Request /\ Tail(outgoing[d]) \in Seq(Request)
  BY DEF TypeOK, Serve
<1>2. outgoing' \in [Device -> Seq(Request)]
  BY <1>1 DEF Serve, TypeOK
<1>3. /\ up' \in [Socket -> Seq(ToRelay)]
      /\ pending' \in [Device -> Seq(Request)]
      /\ pairing' \in [Device -> Request \cup {None}]
      /\ outcome' \in [Request -> {"none", "waiting", "answered", "refused", "lost", "timeout"}]
  <2>1. CASE phase[d] = "idle" \/ (asked[r].kind = "pair" /\ pairing[d] # None)
    <3>1. outcome' = Resolve({r}, "refused") /\ UNCHANGED <<up, pending, pairing>>
      BY <2>1 DEF Serve
    <3> QED
      BY <3>1, ResolveType DEF TypeOK
  <2>2. CASE ~(phase[d] = "idle" \/ (asked[r].kind = "pair" /\ pairing[d] # None))
    <3>1. s \in Socket
      BY <2>2 DEF TypeOK
    <3>2. CASE asked[r].kind = "test"
      <4>1. SendUp(s, Test(r)) /\ pending' = [pending EXCEPT ![d] = Append(@, r)]
        BY <2>2, <3>2 DEF Serve
      <4>2. Append(pending[d], r) \in Seq(Request)
        BY <1>1 DEF TypeOK
      <4>3. pending' \in [Device -> Seq(Request)]
        BY <4>1, <4>2 DEF TypeOK
      <4> QED
        BY <1>1, <2>2, <3>1, <3>2, <4>1, <4>3, SendUpType, MessageTypes DEF Serve, TypeOK
    <3>3. CASE asked[r].kind # "test"
      <4>1. SendUp(s, Devices) /\ pairing' = [pairing EXCEPT ![d] = r]
        BY <2>2, <3>3 DEF Serve
      <4> QED
        BY <1>1, <2>2, <3>1, <3>3, <4>1, SendUpType, MessageTypes DEF Serve, TypeOK
    <3> QED
      BY <3>2, <3>3
  <2> QED
    BY <2>1, <2>2
<1> QED
  BY <1>2, <1>3 DEF Serve, TypeOK, Opened, relayVars, clientVars

LEMMA DialTickTyped ==
  ASSUME TypeOK, Opened, NEW d \in Device, DialTick(d)
  PROVE  TypeOK' /\ Opened'
<1>1. socket[d] \in Socket
  BY DEF DialTick, TypeOK
<1>2. up' \in [Socket -> Seq(ToRelay)]
  BY <1>1, SendUpType, MessageTypes DEF DialTick
<1> QED
  BY <1>2, EventTyped DEF DialTick, TypeOK, Opened, relayVars, clientVars, askVars

LEMMA AskTyped ==
  ASSUME TypeOK, Opened, NEW d \in Device, NEW kind \in {"test", "pair"}, Ask(d, kind)
  PROVE  TypeOK' /\ Opened'
<1>1. PICK r \in Request :
        /\ asked' = [asked EXCEPT ![r] = [device |-> d, kind |-> kind]]
        /\ outcome' = [outcome EXCEPT ![r] = "waiting"]
        /\ outgoing' = [outgoing EXCEPT ![d] = Append(@, r)]
  BY DEF Ask
<1>2. Append(outgoing[d], r) \in Seq(Request)
  BY DEF TypeOK
<1>3. outgoing' \in [Device -> Seq(Request)]
  BY <1>1, <1>2 DEF TypeOK
<1> QED
  BY <1>1, <1>3, EventTyped DEF Ask, TypeOK, Opened, relayVars, linkVars, clientVars

LEMMA GiveUpTyped ==
  ASSUME TypeOK, Opened, NEW r \in Request, GiveUp(r)
  PROVE  TypeOK' /\ Opened'
BY ResolveType DEF GiveUp, TypeOK, Opened, relayVars, linkVars, clientVars

(***************************************************************************)
(* The inductive invariant.  RegistryIsExact alone is not inductive: that  *)
(* a verification may end needs a socket being verified not to be in the   *)
(* registry, and what is sent to a user's other connections needs every    *)
(* entry to be the identity its socket authenticated as.                   *)
(***************************************************************************)
Registration ==
  /\ RegistryIsExact
  /\ \A s \in Socket : GetBySocket(registry, s) # None => GetBySocket(registry, s) = IdentityOf(s)
  /\ \A s \in verifying : GetBySocket(registry, s) = None

Delivery ==
  /\ \A s \in Socket : ready[s] = "unopened" => down[s] = <<>>
  /\ OwnUserOnly

IInv == TypeOK /\ Opened /\ Registration /\ Delivery

LEMMA InitRegistration == Init => Registration /\ Delivery
BY EmptyExact DEF Init, Registration, RegistryIsExact, Delivery, OwnUserOnly

(* Nothing else than a verification, a close event, a new connection and a *)
(* registration disturbs the registry.                                     *)
LEMMA UndisturbedRegistration ==
  ASSUME TypeOK, Registration, UNCHANGED <<registry, verifying, owner, account>>,
         \A s \in Socket : ready[s] \notin {"unopened", "closed"}
                           => ready'[s] \notin {"unopened", "closed"}
  PROVE  Registration'
<1>1. RegistryIsExact'
  BY DEF Registration, RegistryIsExact, Consistent, GetBySocket, GetConnection
<1>2. \A s \in Socket : IdentityOf(s)' = IdentityOf(s)
  BY DEF IdentityOf
<1> QED
  BY <1>1, <1>2 DEF Registration, GetBySocket, TypeOK

(* A verification that ends registers the socket as what its device and    *)
(* token say, and unregisters the connection it replaces.                  *)
LEMMA VerifyDoneRegistration ==
  ASSUME IInv, NEW s \in Socket, VerifyDone(s)
  PROVE  Registration'
<1> USE DEF IInv
<1>1. GetBySocket(registry, s) = None /\ verifying' = verifying \ {s}
  BY DEF VerifyDone, Registration
<1>2. \A t \in Socket : IdentityOf(t)' = IdentityOf(t)
  BY DEF VerifyDone, clientVars, IdentityOf
<1>3. ASSUME registry' = registry,
             \A t \in Socket : ready[t] \notin {"unopened", "closed"}
                               => ready'[t] \notin {"unopened", "closed"}
      PROVE  Registration'
  <2>1. RegistryIsExact'
    BY <1>3 DEF Registration, RegistryIsExact, Consistent, GetBySocket, GetConnection
  <2> QED
    BY <1>1, <1>2, <1>3, <2>1 DEF Registration, GetBySocket, TypeOK
<1>4. CASE Rejected(s)
  BY <1>3, <1>4 DEF Rejected, ServerCloses, TypeOK
<1>5. CASE Verified(s) /\ ready[s] # "open"
  BY <1>3, <1>5 DEF Verified
<1>6. CASE Verified(s) /\ ready[s] = "open"
  <2> DEFINE id == IdentityOf(s)
             replaced == GetConnection(registry, id.user, id.device)
  <2>1. id \in Identity
    BY <1>6, IdentityType
  <2>2. registry' = Add(registry, s, id)
    BY <1>6 DEF Verified
  <2>3. /\ Consistent(registry')
        /\ GetBySocket(registry', s) = id
        /\ \A t \in Socket \ {s} : \/ GetBySocket(registry', t) = None
                                   \/ GetBySocket(registry', t) = GetBySocket(registry, t)
    BY <1>1, <2>1, <2>2, AddExact DEF TypeOK, Registration, RegistryIsExact
  <2>4. \A t \in Socket : ready'[t] \in {"unopened", "closed"} => ready[t] = ready'[t]
    BY <1>6 DEF Verified, ServerCloses, TypeOK
  <2>5. RegistryIsExact'
    BY <1>6, <2>3, <2>4 DEF Registration, RegistryIsExact, Consistent, GetBySocket, GetConnection
  <2>6. \A t \in Socket : GetBySocket(registry', t) # None =>
          GetBySocket(registry', t) = IdentityOf(t)' /\ t \notin verifying'
    BY <1>1, <1>2, <2>3 DEF Registration
  <2>7. verifying' \subseteq Socket
    BY <1>1 DEF TypeOK
  <2> QED
    BY <2>5, <2>6, <2>7 DEF Registration, GetBySocket
<1> QED
  BY <1>4, <1>5, <1>6 DEF VerifyDone

LEMMA CloseEventRegistration ==
  ASSUME IInv, NEW s \in Socket, CloseEvent(s)
  PROVE  Registration'
<1> USE DEF IInv
<1>1. /\ Consistent(registry')
      /\ \A t \in Socket : GetBySocket(registry', t) =
                             IF t = s THEN None ELSE GetBySocket(registry, t)
  BY RemoveExact DEF CloseEvent, TypeOK, Registration, RegistryIsExact
<1>2. \A t \in Socket : IdentityOf(t)' = IdentityOf(t)
  BY DEF CloseEvent, clientVars, IdentityOf
<1>3. \A t \in Socket \ {s} : ready'[t] = ready[t]
  BY DEF CloseEvent, TypeOK
<1>4. RegistryIsExact'
  BY <1>1, <1>3 DEF Registration, RegistryIsExact, Consistent, GetBySocket, GetConnection
<1>5. verifying' = verifying /\ verifying \subseteq Socket
  BY DEF CloseEvent, TypeOK
<1> QED
  BY <1>1, <1>2, <1>4, <1>5 DEF Registration, GetBySocket

(* The socket of a new connection is not in the registry yet.              *)
LEMMA ConnectRegistration ==
  ASSUME IInv, NEW d \in Device, Connect(d)
  PROVE  Registration'
<1> USE DEF IInv
<1>1. PICK s \in Socket :
        /\ ready[s] = "unopened"
        /\ ready' = [ready EXCEPT ![s] = "open"]
        /\ owner' = [owner EXCEPT ![s] = d]
  BY DEF Connect
<1>2. GetBySocket(registry, s) = None
  BY <1>1 DEF Registration, RegistryIsExact
<1>3. \A t \in Socket \ {s} : IdentityOf(t)' = IdentityOf(t) /\ ready'[t] = ready[t]
  BY <1>1 DEF Connect, IdentityOf, TypeOK
<1>4. registry' = registry /\ verifying' = verifying
  BY DEF Connect
<1>5. RegistryIsExact'
  BY <1>2, <1>3, <1>4 DEF Registration, RegistryIsExact, Consistent, GetBySocket, GetConnection
<1>6. verifying \subseteq Socket
  BY DEF TypeOK
<1> QED
  BY <1>2, <1>3, <1>4, <1>5, <1>6 DEF Registration, GetBySocket

LEMMA HandleFrameRegistration ==
  ASSUME IInv, NEW s \in Socket, HandleFrame(s)
  PROVE  Registration'
<1> USE DEF IInv
<1> DEFINE m == Head(up[s])
<1>1. m \in ToRelay
  BY TailType DEF TypeOK, HandleFrame
<1>2. verifying' = verifying
      \/ (GetBySocket(registry, s) = None /\ verifying' = verifying \cup {s})
  <2>1. CASE m.type = "register"
    <3>1. OnRegister(s)
      BY <2>1 DEF HandleFrame
    <3> QED
      BY <3>1 DEF OnRegister
  <2>2. CASE m.type = "devices"
    <3>1. OnDevices(s)
      BY <2>2 DEF HandleFrame
    <3> QED
      BY <3>1 DEF OnDevices
  <2>3. CASE m.type = "message"
    <3>1. OnMessage(s, m.of)
      BY <2>3 DEF HandleFrame
    <3> QED
      BY <3>1 DEF OnMessage
  <2> QED
    BY <1>1, <2>1, <2>2, <2>3, ToRelayCases
<1>3. UNCHANGED <<registry, ready, owner, account>>
  BY DEF HandleFrame, clientVars
<1>4. RegistryIsExact'
  BY <1>3 DEF Registration, RegistryIsExact, Consistent, GetBySocket, GetConnection
<1>5. \A t \in Socket : IdentityOf(t)' = IdentityOf(t)
  BY <1>3 DEF IdentityOf
<1> QED
  BY <1>2, <1>3, <1>4, <1>5 DEF Registration, GetBySocket, TypeOK

(***************************************************************************)
(* What is on its way to a device comes from the user its socket           *)
(* authenticated as.                                                       *)
(***************************************************************************)
OwnQueue(s, queue) ==
  /\ ready[s] = "unopened" => queue = <<>>
  /\ \A i \in DOMAIN queue : queue[i].type = "message" => queue[i].user = account[owner[s]]

Own(queues) == \A s \in Socket : OwnQueue(s, queues[s])

LEMMA DeliveryIsOwn == Delivery <=> Own(down)
BY DEF Delivery, OwnUserOnly, Own, OwnQueue

LEMMA AppendOwn ==
  ASSUME NEW s \in Socket, NEW queue \in Seq(FromRelay), OwnQueue(s, queue),
         ready[s] = "open", NEW m \in FromRelay,
         m.type = "message" => m.user = account[owner[s]]
  PROVE  OwnQueue(s, Append(queue, m))
<1> DEFINE new == Append(queue, m)
<1>1. \A i \in DOMAIN new : new[i] = m \/ (i \in DOMAIN queue /\ new[i] = queue[i])
  OBVIOUS
<1> HIDE DEF new
<1>2. ASSUME NEW i \in DOMAIN new, new[i].type = "message"
      PROVE  new[i].user = account[owner[s]]
  <2>1. CASE new[i] = m
    BY <1>2, <2>1
  <2>2. CASE i \in DOMAIN queue /\ new[i] = queue[i]
    BY <1>2, <2>2 DEF OwnQueue
  <2> QED
    BY <1>1, <2>1, <2>2
<1>3. OwnQueue(s, new)
  BY <1>2 DEF OwnQueue
<1> QED
  BY <1>3 DEF new

LEMMA PutDelivers ==
  ASSUME NEW queues \in [Socket -> Seq(FromRelay)], Own(queues),
         NEW s \in Socket, NEW m \in FromRelay,
         m.type = "message" => m.user = account[owner[s]]
  PROVE  Own(Put(queues, s, m))
<1>1. CASE ~ Reaches(s)
  <2>1. Put(queues, s, m) = queues
    BY <1>1 DEF Put
  <2> QED
    BY <2>1
<1>2. CASE Reaches(s)
  <2> DEFINE new == Put(queues, s, m)
  <2>1. /\ new[s] = Append(queues[s], m)
        /\ \A t \in Socket \ {s} : new[t] = queues[t]
    BY <1>2 DEF Put
  <2>2. OwnQueue(s, new[s])
    BY <1>2, <2>1, AppendOwn DEF Reaches, Own
  <2> HIDE DEF new
  <2>3. \A t \in Socket : OwnQueue(t, new[t])
    <3>1. ASSUME NEW t \in Socket PROVE OwnQueue(t, new[t])
      <4>1. CASE t = s
        BY <2>2, <4>1
      <4>2. CASE t # s
        <5>1. new[t] = queues[t]
          BY <2>1, <4>2
        <5>2. OwnQueue(t, queues[t])
          BY DEF Own
        <5> QED
          BY <5>1, <5>2
      <4> QED
        BY <4>1, <4>2
    <3> QED
      BY <3>1
  <2>4. Own(new)
    BY <2>3, Zenon DEF Own
  <2> QED
    BY <2>4 DEF new
<1> QED
  BY <1>1, <1>2

(* Every other kind of message says nothing of a user.                     *)
LEMMA NotMessages ==
  /\ Registered.type # "message" /\ DeviceList.type # "message"
  /\ \A r : Sent(r).type # "message"
  /\ \A c, r : Error(c, r).type # "message"
  /\ \A c : Close(c).type # "message"
BY DEF Registered, DeviceList, Sent, Error, Close

LEMMA UndisturbedDelivery ==
  ASSUME TypeOK, Delivery, UNCHANGED <<owner, account>>,
         \A s \in Socket : ready'[s] = "unopened" => ready[s] = "unopened",
         \A s \in Socket : \/ down'[s] = down[s] \/ down'[s] = <<>>
                           \/ down[s] # <<>> /\ down'[s] = Tail(down[s])
  PROVE  Delivery'
<1>1. ASSUME NEW s \in Socket, NEW i \in DOMAIN down'[s]
      PROVE  \E j \in DOMAIN down[s] : down'[s][i] = down[s][j]
  <2>1. down[s] \in Seq(FromRelay)
    BY DEF TypeOK
  <2>2. CASE down'[s] = down[s] \/ down'[s] = <<>>
    BY <2>2
  <2>3. CASE down[s] # <<>> /\ down'[s] = Tail(down[s])
    <3>1. i + 1 \in DOMAIN down[s] /\ down'[s][i] = down[s][i + 1]
      BY <2>1, <2>3
    <3> QED
      BY <3>1
  <2> QED
    BY <2>2, <2>3
<1>2. OwnUserOnly'
  BY <1>1 DEF Delivery, OwnUserOnly
<1>3. \A s \in Socket : ready'[s] = "unopened" => down'[s] = <<>>
  <2>1. ASSUME NEW s \in Socket, ready'[s] = "unopened" PROVE down'[s] = <<>>
    BY <2>1 DEF Delivery
  <2> QED
    BY <2>1
<1> QED
  BY <1>2, <1>3 DEF Delivery

(* A message is sent to the connections registered for its sender's user.  *)
LEMMA OnMessageDelivers ==
  ASSUME IInv, NEW s \in Socket, NEW r \in Request, OnMessage(s, r)
  PROVE  \A t \in Socket : OwnQueue(t, down'[t])
<1> USE DEF IInv
<1>1. down \in [Socket -> Seq(FromRelay)] /\ Own(down)
  BY DeliveryIsOwn DEF TypeOK
<1>2. CASE GetBySocket(registry, s) = None
  <2>1. down' = Put(down, s, Error("not_registered", r))
    BY <1>2 DEF OnMessage
  <2> QED
    BY <1>1, <2>1, PutDelivers, MessageTypes, NotMessages DEF Own
<1>3. CASE GetBySocket(registry, s) # None /\ Others(s) = {}
  <2>1. down' = Put(down, s, Error("no_other_devices", r))
    BY <1>3 DEF OnMessage
  <2> QED
    BY <1>1, <2>1, PutDelivers, MessageTypes, NotMessages DEF Own
<1>4. CASE GetBySocket(registry, s) # None /\ Others(s) # {}
  <2> DEFINE u == GetBySocket(registry, s).user
  <2>1. u \in User
    BY <1>4 DEF TypeOK, Registries, Identity, GetBySocket
  <2>2. ASSUME NEW t \in Others(s)
        PROVE  Own(Put(down, t, Message(u)))
    <3>1. PICK d \in Device : t = GetConnection(registry, u, d) /\ t # None
      BY DEF Others, GetUserConnections, GetConnection
    <3>2. t \in Socket
      BY <2>1, <3>1, ConnectionType
    <3>3. GetBySocket(registry, t) = [user |-> u, device |-> d]
      BY <2>1, <3>1 DEF Registration, RegistryIsExact, Consistent
    <3>4. [user |-> u, device |-> d] # None
      BY <2>1, NoneIsNothing
    <3>5. IdentityOf(t) = [user |-> u, device |-> d]
      BY <3>2, <3>3, <3>4 DEF Registration
    <3>6. Message(u).user = account[owner[t]]
      BY <3>5 DEF IdentityOf, Message
    <3> QED
      BY <1>1, <2>1, <3>2, <3>6, PutDelivers, MessageTypes
  <2>3. Own(Put(down, s, Sent(r)))
    BY <1>1, PutDelivers, MessageTypes, NotMessages
  <2>4. down' = [t \in Socket |-> IF t \in Others(s) THEN Put(down, t, Message(u))[t]
                                  ELSE IF t = s THEN Put(down, s, Sent(r))[s] ELSE down[t]]
    BY <1>4 DEF OnMessage
  <2>5. ASSUME NEW t \in Socket PROVE OwnQueue(t, down'[t])
    <3>1. CASE t \in Others(s)
      BY <2>2, <2>4, <3>1 DEF Own
    <3>2. CASE t \notin Others(s) /\ t = s
      BY <2>3, <2>4, <3>2 DEF Own
    <3>3. CASE t \notin Others(s) /\ t # s
      BY <1>1, <2>4, <3>3 DEF Own
    <3> QED
      BY <3>1, <3>2, <3>3
  <2> QED
    BY <2>5
<1> QED
  BY <1>2, <1>3, <1>4

(* Delivery survives a step after which every queue is still its owner's.  *)
LEMMA OwnDelivery ==
  ASSUME TypeOK, UNCHANGED <<owner, account>>,
         \A s \in Socket : ready'[s] = "unopened" => ready[s] = "unopened",
         \A s \in Socket : OwnQueue(s, down'[s])
  PROVE  Delivery'
BY DEF OwnQueue, Delivery, OwnUserOnly

LEMMA HandleFrameDelivers ==
  ASSUME IInv, NEW s \in Socket, HandleFrame(s)
  PROVE  Delivery'
<1> USE DEF IInv
<1> DEFINE m == Head(up[s])
<1>1. m \in ToRelay
  BY TailType DEF TypeOK, HandleFrame
<1>2. down \in [Socket -> Seq(FromRelay)] /\ Own(down)
  BY DeliveryIsOwn DEF TypeOK
<1>3. \A t \in Socket : OwnQueue(t, down'[t])
  <2>1. CASE m.type = "register"
    <3>1. OnRegister(s)
      BY <2>1 DEF HandleFrame
    <3>2. down' = down \/ down' = Put(down, s, Error("already_registered", None))
      BY <3>1 DEF OnRegister
    <3>3. Own(Put(down, s, Error("already_registered", None)))
      BY <1>2, PutDelivers, MessageTypes, NotMessages
    <3> QED
      BY <1>2, <3>2, <3>3 DEF Own
  <2>2. CASE m.type = "devices"
    <3>1. OnDevices(s)
      BY <2>2 DEF HandleFrame
    <3>2. \/ down' = Put(down, s, Error("not_registered", None))
          \/ down' = Put(down, s, DeviceList)
      BY <3>1 DEF OnDevices
    <3>3. /\ Own(Put(down, s, Error("not_registered", None)))
          /\ Own(Put(down, s, DeviceList))
      BY <1>2, PutDelivers, MessageTypes, NotMessages
    <3> QED
      BY <3>2, <3>3 DEF Own
  <2>3. CASE m.type = "message" /\ m.of \in Request
    <3>1. OnMessage(s, m.of)
      BY <2>3 DEF HandleFrame
    <3> QED
      BY <2>3, <3>1, OnMessageDelivers
  <2> QED
    BY <1>1, <2>1, <2>2, <2>3, ToRelayCases
<1>4. UNCHANGED <<ready, owner, account>>
  BY DEF HandleFrame, clientVars
<1> QED
  BY <1>3, <1>4, OwnDelivery

LEMMA ServerClosesDelivers ==
  ASSUME TypeOK, NEW s \in Socket, NEW queues \in [Socket -> Seq(FromRelay)], Own(queues),
         NEW code \in {"replaced", "unauthorized", "timeout"}, ServerCloses(s, queues, code)
  PROVE  Own(down')
<1>1. Own(Put(queues, s, Close(code)))
  BY PutDelivers, MessageTypes, NotMessages
<1> QED
  BY <1>1 DEF ServerCloses

LEMMA VerifyDoneDelivers ==
  ASSUME IInv, NEW s \in Socket, VerifyDone(s)
  PROVE  Delivery'
<1> USE DEF IInv
<1>1. down \in [Socket -> Seq(FromRelay)] /\ Own(down)
  BY DeliveryIsOwn DEF TypeOK
<1>2. /\ Own(down')
      /\ \A t \in Socket : ready'[t] = "unopened" => ready[t] = "unopened"
  <2>1. CASE Rejected(s)
    <3> DEFINE queues == Put(down, s, Error("unauthorized", None))
    <3>1. queues \in [Socket -> Seq(FromRelay)] /\ Own(queues)
      BY <1>1, PutType, PutDelivers, MessageTypes, NotMessages
    <3>2. ServerCloses(s, queues, "unauthorized")
      BY <2>1 DEF Rejected
    <3> HIDE DEF queues
    <3> QED
      BY <3>1, <3>2, ServerClosesType, ServerClosesDelivers
  <2>2. CASE Verified(s) /\ ready[s] # "open"
    <3>1. down' = down /\ ready' = ready
      BY <2>2 DEF Verified
    <3> QED
      BY <1>1, <3>1
  <2>3. CASE Verified(s) /\ ready[s] = "open"
    <3> DEFINE id == IdentityOf(s)
               replaced == GetConnection(registry, id.user, id.device)
               queues == Put(down, s, Registered)
    <3>1. queues \in [Socket -> Seq(FromRelay)] /\ Own(queues)
      BY <1>1, PutType, PutDelivers, MessageTypes, NotMessages
    <3>2. id.user \in User /\ id.device \in Device
      BY <2>3, IdentityType DEF Identity
    <3>3. replaced \in Socket \cup {None}
      BY <3>2, ConnectionType
    <3>4. CASE replaced = None
      <4>1. down' = queues /\ ready' = ready
        BY <2>3, <3>4 DEF Verified
      <4> QED
        BY <3>1, <4>1
    <3>5. CASE replaced # None
      <4>1. ServerCloses(replaced, queues, "replaced")
        BY <2>3, <3>5 DEF Verified
      <4> HIDE DEF queues, replaced
      <4> QED
        BY <3>1, <3>3, <3>5, <4>1, ServerClosesType, ServerClosesDelivers
    <3> QED
      BY <3>4, <3>5
  <2> QED
    BY <2>1, <2>2, <2>3 DEF VerifyDone
<1> QED
  BY <1>2, OwnDelivery DEF VerifyDone, clientVars, Own

LEMMA AuthTimeoutDelivers ==
  ASSUME IInv, NEW s \in Socket, AuthTimeout(s)
  PROVE  Delivery'
<1> USE DEF IInv
<1>1. down \in [Socket -> Seq(FromRelay)] /\ Own(down)
  BY DeliveryIsOwn DEF TypeOK
<1>2. /\ Own(down')
      /\ \A t \in Socket : ready'[t] = "unopened" => ready[t] = "unopened"
  <2>1. CASE GetBySocket(registry, s) = None
    <3>1. ServerCloses(s, down, "timeout")
      BY <2>1 DEF AuthTimeout
    <3> QED
      BY <1>1, <3>1, ServerClosesType, ServerClosesDelivers
  <2>2. CASE GetBySocket(registry, s) # None
    <3>1. down' = down /\ ready' = ready
      BY <2>2 DEF AuthTimeout
    <3> QED
      BY <1>1, <3>1
  <2> QED
    BY <2>1, <2>2
<1> QED
  BY <1>2, OwnDelivery DEF AuthTimeout, clientVars, Own

(* Only a socket nobody has opened gets an owner.                          *)
LEMMA ConnectDelivers ==
  ASSUME IInv, NEW d \in Device, Connect(d)
  PROVE  Delivery'
<1> USE DEF IInv
<1>1. PICK s \in Socket :
        /\ ready[s] = "unopened"
        /\ ready' = [ready EXCEPT ![s] = "open"]
        /\ owner' = [owner EXCEPT ![s] = d]
  BY DEF Connect
<1>2. down' = down /\ account' = account
  BY DEF Connect
<1>3. down[s] = <<>>
  BY <1>1 DEF Delivery
<1>4. \A t \in Socket \ {s} : owner'[t] = owner[t] /\ ready'[t] = ready[t]
  BY <1>1 DEF TypeOK
<1>5. OwnUserOnly'
  BY <1>2, <1>3, <1>4 DEF Delivery, OwnUserOnly
<1>6. \A t \in Socket : ready'[t] = "unopened" => down'[t] = <<>>
  BY <1>2, <1>3, <1>4 DEF Delivery
<1> QED
  BY <1>5, <1>6 DEF Delivery

LEMMA SessionOverDelivers ==
  ASSUME IInv, NEW d \in Device, phase[d] # "idle", Ended(d),
         UNCHANGED <<relayVars, owner, account>>
  PROVE  Registration' /\ Delivery'
<1> USE DEF IInv
<1>1. \A s \in Socket : down'[s] = down[s] \/ down'[s] = <<>>
  BY DEF Ended, TypeOK
<1>2. Registration'
  BY UndisturbedRegistration DEF relayVars
<1>3. Delivery'
  BY <1>1, UndisturbedDelivery DEF relayVars
<1> QED
  BY <1>2, <1>3

(***************************************************************************)
(* The invariant, action by action.                                        *)
(***************************************************************************)
LEMMA SocketStep ==
  ASSUME IInv, NEW s \in Socket,
         HandleFrame(s) \/ VerifyDone(s) \/ AuthTimeout(s) \/ CloseEvent(s) \/ Fail(s)
  PROVE  IInv'
<1> USE DEF IInv
<1>1. CASE HandleFrame(s)
  BY <1>1, HandleFrameTyped, HandleFrameRegistration, HandleFrameDelivers
<1>2. CASE VerifyDone(s)
  <2>1. RegistryIsExact /\ GetBySocket(registry, s) = None
    BY <1>2 DEF VerifyDone, Registration
  <2> QED
    BY <1>2, <2>1, VerifyDoneTyped, VerifyDoneRegistration, VerifyDoneDelivers
<1>3. CASE AuthTimeout(s)
  <2>1. \A t \in Socket : ready[t] \notin {"unopened", "closed"}
                          => ready'[t] \notin {"unopened", "closed"}
    BY <1>3 DEF AuthTimeout, ServerCloses, TypeOK
  <2>2. Registration'
    BY <1>3, <2>1, UndisturbedRegistration DEF AuthTimeout, clientVars
  <2> QED
    BY <1>3, <2>2, AuthTimeoutTyped, AuthTimeoutDelivers
<1>4. CASE CloseEvent(s)
  <2>1. RegistryIsExact
    BY DEF Registration
  <2>2. /\ UNCHANGED <<owner, account, down>>
        /\ \A t \in Socket : ready'[t] = "unopened" => ready[t] = "unopened"
    BY <1>4 DEF CloseEvent, clientVars, TypeOK
  <2> QED
    BY <1>4, <2>1, <2>2, CloseEventTyped, CloseEventRegistration, UndisturbedDelivery
<1>5. CASE Fail(s)
  <2>1. UNCHANGED <<registry, ready, verifying, owner, account>>
    BY <1>5 DEF Fail, relayVars, clientVars
  <2>2. \A t \in Socket : down'[t] = down[t] \/ down'[t] = <<>>
    BY <1>5 DEF Fail, TypeOK
  <2> QED
    BY <1>5, <2>1, <2>2, FailTyped, UndisturbedRegistration, UndisturbedDelivery
<1> QED
  BY <1>1, <1>2, <1>3, <1>4, <1>5

LEMMA SessionStep ==
  ASSUME IInv, NEW d \in Device,
         Connect(d) \/ AwaitRegistered(d) \/ Read(d) \/ TimesOut(d) \/ DropSession(d)
  PROVE  IInv'
<1> USE DEF IInv
<1> DEFINE s == socket[d]
<1>1. CASE Connect(d)
  BY <1>1, ConnectTyped, ConnectRegistration, ConnectDelivers
<1>2. CASE AwaitRegistered(d)
  <2>1. phase[d] # "idle" /\ UNCHANGED <<relayVars, owner, account>> /\ down[s] # <<>>
    BY <1>2 DEF AwaitRegistered, TypeOK
  <2>2. Ended(d) \/ down' = [down EXCEPT ![s] = Tail(@)]
    BY <1>2, Zenon DEF AwaitRegistered
  <2>3. CASE Ended(d)
    BY <1>2, <2>1, <2>3, AwaitRegisteredTyped, SessionOverDelivers
  <2>4. CASE down' = [down EXCEPT ![s] = Tail(@)]
    <3>1. \A t \in Socket : down'[t] = down[t] \/ (down[t] # <<>> /\ down'[t] = Tail(down[t]))
      BY <2>1, <2>4 DEF TypeOK
    <3> QED
      BY <1>2, <2>1, <3>1, AwaitRegisteredTyped, UndisturbedRegistration, UndisturbedDelivery
      DEF relayVars
  <2> QED
    BY <2>2, <2>3, <2>4
<1>3. CASE Read(d)
  <2>1. phase[d] # "idle" /\ UNCHANGED <<relayVars, owner, account>> /\ down[s] # <<>>
    BY <1>3 DEF Read, TypeOK
  <2>2. Ended(d) \/ down' = [down EXCEPT ![s] = Tail(@)]
    BY <1>3, Zenon DEF Read
  <2>3. CASE Ended(d)
    BY <1>3, <2>1, <2>3, ReadTyped, SessionOverDelivers
  <2>4. CASE down' = [down EXCEPT ![s] = Tail(@)]
    <3>1. \A t \in Socket : down'[t] = down[t] \/ (down[t] # <<>> /\ down'[t] = Tail(down[t]))
      BY <2>1, <2>4 DEF TypeOK
    <3> QED
      BY <1>3, <2>1, <3>1, ReadTyped, UndisturbedRegistration, UndisturbedDelivery DEF relayVars
  <2> QED
    BY <2>2, <2>3, <2>4
<1>4. CASE TimesOut(d) \/ DropSession(d)
  <2>1. phase[d] # "idle" /\ Ended(d) /\ UNCHANGED <<relayVars, owner, account>>
    BY <1>4 DEF TimesOut, DropSession
  <2> QED
    BY <1>4, <2>1, TimesOutTyped, SessionOverDelivers
<1> QED
  BY <1>1, <1>2, <1>3, <1>4

(* Requests touch neither the relay nor what it sent.                      *)
LEMMA RequestStep ==
  ASSUME IInv,
         \/ \E d \in Device : \/ Serve(d) \/ DialTick(d)
                              \/ \E kind \in {"test", "pair"} : Ask(d, kind)
         \/ \E r \in Request : GiveUp(r)
  PROVE  IInv'
<1> USE DEF IInv
<1>1. TypeOK' /\ Opened'
  BY ServeTyped, DialTickTyped, AskTyped, GiveUpTyped
<1>2. UNCHANGED <<registry, ready, verifying, owner, account, down>>
  BY DEF Serve, DialTick, Ask, GiveUp, relayVars, linkVars, clientVars
<1> QED
  BY <1>1, <1>2, UndisturbedRegistration, UndisturbedDelivery

LEMMA StutterStep == IInv /\ UNCHANGED vars => IInv'
<1> SUFFICES ASSUME IInv, UNCHANGED vars PROVE IInv'
  OBVIOUS
<1> USE DEF IInv
<1>1. TypeOK' /\ Opened'
  BY DEF vars, relayVars, linkVars, clientVars, askVars, TypeOK, Opened
<1>2. UNCHANGED <<registry, ready, verifying, owner, account, down>>
  BY DEF vars, relayVars, linkVars, clientVars
<1> QED
  BY <1>1, <1>2, UndisturbedRegistration, UndisturbedDelivery

LEMMA IInvariant == Spec => []IInv
<1>1. Init => IInv
  BY InitTyped, InitRegistration DEF IInv
<1>2. IInv /\ [Next]_vars => IInv'
  <2> SUFFICES ASSUME IInv, [Next]_vars PROVE IInv'
    OBVIOUS
  <2>1. CASE UNCHANGED vars
    BY <2>1, StutterStep
  <2>2. CASE Next
    BY <2>2, SocketStep, SessionStep, RequestStep DEF Next
  <2> QED
    BY <2>1, <2>2
<1> QED
  BY <1>1, <1>2, PTL DEF Spec

(* The relay's and the devices' state is always of its type; a device is   *)
(* in a session exactly when it has a connection.                          *)
THEOREM RelayTyped == Spec => []TypeOK
<1>1. IInv => TypeOK
  BY DEF IInv
<1> QED
  BY <1>1, IInvariant, PTL

(* The two indexes of the registry always agree, and it holds no socket    *)
(* that is closed, however many devices connect, are verified, replace     *)
(* each other, time out and fail, in any order.                            *)
THEOREM RegistryExact == Spec => []RegistryIsExact
<1>1. IInv => RegistryIsExact
  BY DEF IInv, Registration
<1> QED
  BY <1>1, IInvariant, PTL

(* What the relay sends a device in a message always comes from the user   *)
(* that device's socket authenticated as.                                  *)
THEOREM OwnUser == Spec => []OwnUserOnly
<1>1. IInv => OwnUserOnly
  BY DEF IInv, Delivery
<1> QED
  BY <1>1, IInvariant, PTL
-----------------------------------------------------------------------------

(***************************************************************************)
(* A device that has been told it is registered, or is about to be, is in  *)
(* the registry until its socket closes.                                   *)
(***************************************************************************)
Tells(queue) == \E i \in DOMAIN queue : queue[i] = Registered

Confirmed(s) == Tells(down[s]) \/ \E d \in Device : socket[d] = s /\ phase[d] = "connected"

Confirmation ==
  /\ \A d \in Device : socket[d] # None => ready[socket[d]] # "unopened"
  /\ \A s \in Socket : ready[s] = "open" /\ Confirmed(s)
                       => GetBySocket(registry, s) = IdentityOf(s)

LEMMA OtherMessages ==
  /\ DeviceList # Registered
  /\ \A u : Message(u) # Registered
  /\ \A r : Sent(r) # Registered
  /\ \A c, r : Error(c, r) # Registered
  /\ \A c : Close(c) # Registered
BY DEF Registered, DeviceList, Message, Sent, Error, Close

LEMMA PutTells ==
  ASSUME NEW queues \in [Socket -> Seq(FromRelay)], NEW s \in Socket, NEW m \in FromRelay
  PROVE  /\ \A t \in Socket : t # s => Put(queues, s, m)[t] = queues[t]
         /\ m # Registered =>
              \A t \in Socket : Tells(Put(queues, s, m)[t]) => Tells(queues[t])
<1>1. \A t \in Socket : t # s => Put(queues, s, m)[t] = queues[t]
  BY DEF Put
<1>2. Put(queues, s, m)[s] = IF Reaches(s) THEN Append(queues[s], m) ELSE queues[s]
  BY DEF Put
<1>3. ASSUME m # Registered, Tells(Append(queues[s], m))
      PROVE  Tells(queues[s])
  <2> DEFINE new == Append(queues[s], m)
  <2>1. \A i \in DOMAIN new : new[i] = m \/ (i \in DOMAIN queues[s] /\ new[i] = queues[s][i])
    OBVIOUS
  <2>2. PICK i \in DOMAIN new : new[i] = Registered
    BY <1>3 DEF Tells
  <2>3. i \in DOMAIN queues[s] /\ queues[s][i] = Registered
    BY <1>3, <2>1, <2>2
  <2> QED
    BY <2>3 DEF Tells
<1>4. ASSUME m # Registered, NEW t \in Socket, Tells(Put(queues, s, m)[t])
      PROVE  Tells(queues[t])
  BY <1>1, <1>2, <1>3, <1>4
<1> QED
  BY <1>1, <1>4

LEMMA CloseTells ==
  ASSUME NEW queues \in [Socket -> Seq(FromRelay)], NEW s \in Socket, TypeOK,
         NEW code \in {"replaced", "unauthorized", "timeout"}, ServerCloses(s, queues, code)
  PROVE  /\ \A t \in Socket : Tells(down'[t]) => Tells(queues[t])
         /\ \A t \in Socket : ready'[t] = "open" => ready[t] = "open" /\ t # s
<1>1. \A t \in Socket : Tells(down'[t]) => Tells(queues[t])
  BY PutTells, OtherMessages, MessageTypes DEF ServerCloses
<1>2. \A t \in Socket : ready'[t] = "open" => ready[t] = "open" /\ t # s
  BY DEF ServerCloses, TypeOK
<1> QED
  BY <1>1, <1>2

(* A step that registers and opens nothing.                                *)
LEMMA NoNews ==
  ASSUME TypeOK, TypeOK', Confirmation, UNCHANGED <<owner, account>>,
         \A s \in Socket : ready'[s] = "unopened" => ready[s] = "unopened",
         \A s \in Socket : ready'[s] = "open" =>
           /\ ready[s] = "open" /\ GetBySocket(registry', s) = GetBySocket(registry, s)
           /\ Tells(down'[s]) => Confirmed(s),
         \A d \in Device : socket'[d] # None => socket'[d] = socket[d],
         \A d \in Device : phase'[d] = "connected" => phase[d] = "connected" \/ Confirmed(socket[d])
  PROVE  Confirmation'
<1>1. \A s \in Socket : IdentityOf(s)' = IdentityOf(s)
  BY DEF IdentityOf
<1>2. ASSUME NEW s \in Socket, ready'[s] = "open", Confirmed(s)'
      PROVE  GetBySocket(registry', s) = IdentityOf(s)
  <2>1. ASSUME NEW d \in Device, socket'[d] = s, phase'[d] = "connected"
        PROVE  Confirmed(s)
    <3>1. socket[d] = s
      BY <2>1, NoneIsNothing
    <3> QED
      BY <2>1, <3>1 DEF Confirmed
  <2>2. Tells(down'[s]) => Confirmed(s)
    BY <1>2
  <2>3. Confirmed(s)
    BY <1>2, <2>1, <2>2 DEF Confirmed
  <2> QED
    BY <1>2, <2>3 DEF Confirmation
<1>3. ASSUME NEW d \in Device, socket'[d] # None
      PROVE  ready'[socket'[d]] # "unopened"
  <2>1. socket'[d] \in Socket /\ socket'[d] = socket[d]
    BY <1>3 DEF TypeOK
  <2> QED
    BY <1>3, <2>1 DEF Confirmation
<1> QED
  BY <1>1, <1>2, <1>3 DEF Confirmation, GetBySocket

LEMMA VerifyDoneConfirms ==
  ASSUME IInv, TypeOK', Confirmation, NEW s \in Socket, VerifyDone(s)
  PROVE  Confirmation'
<1> USE DEF IInv
<1>1. down \in [Socket -> Seq(FromRelay)] /\ ready \in [Socket -> {"unopened", "open", "closing", "closed"}]
  BY DEF TypeOK
<1>2. UNCHANGED <<owner, account, socket, phase>> /\ GetBySocket(registry, s) = None
  BY DEF VerifyDone, clientVars, Registration
<1>3. \A t \in Socket : IdentityOf(t)' = IdentityOf(t)
  BY <1>2 DEF IdentityOf
<1>4. CASE Rejected(s)
  <2> DEFINE queues == Put(down, s, Error("unauthorized", None))
  <2>0. Error("unauthorized", None) \in FromRelay /\ Error("unauthorized", None) # Registered
    BY OtherMessages, MessageTypes
  <2>1. queues \in [Socket -> Seq(FromRelay)] /\ (\A t \in Socket : Tells(queues[t]) => Tells(down[t]))
    BY <1>1, <2>0, PutType, PutTells
  <2>2. ServerCloses(s, queues, "unauthorized") /\ registry' = registry
    BY <1>4 DEF Rejected
  <2> HIDE DEF queues
  <2>3. /\ \A t \in Socket : Tells(down'[t]) => Tells(queues[t])
        /\ \A t \in Socket : ready'[t] = "open" => ready[t] = "open" /\ t # s
        /\ \A t \in Socket : ready'[t] = "unopened" <=> ready[t] = "unopened"
    BY <2>1, <2>2, CloseTells, ServerClosesType
  <2>4. \A t \in Socket : Tells(down'[t]) => Confirmed(t)
    BY <2>1, <2>3 DEF Confirmed
  <2> QED
    BY <1>2, <2>2, <2>3, <2>4, NoNews
<1>5. CASE Verified(s) /\ ready[s] # "open"
  <2>1. UNCHANGED <<registry, ready, down>>
    BY <1>5 DEF Verified
  <2>2. \A t \in Socket : Tells(down'[t]) => Confirmed(t)
    BY <2>1 DEF Confirmed
  <2> QED
    BY <1>2, <2>1, <2>2, NoNews
<1>6. CASE Verified(s) /\ ready[s] = "open"
  <2> DEFINE id == IdentityOf(s)
             replaced == GetConnection(registry, id.user, id.device)
             queues == Put(down, s, Registered)
  <2>1. id \in Identity /\ id.user \in User /\ id.device \in Device
    BY <1>6, IdentityType DEF Identity
  <2>2. replaced \in Socket \cup {None}
    BY <2>1, ConnectionType
  <2>3. /\ GetBySocket(registry', s) = id
        /\ \A t \in Socket \ {s} :
             GetBySocket(registry', t) = IF t = replaced THEN None ELSE GetBySocket(registry, t)
    <3>1. registry' = Add(registry, s, id)
      BY <1>6 DEF Verified
    <3> QED
      BY <1>2, <2>1, <3>1, AddExact DEF TypeOK, Registration, RegistryIsExact
  <2>4. queues \in [Socket -> Seq(FromRelay)] /\ \A t \in Socket : t # s => queues[t] = down[t]
    BY <1>1, PutType, PutTells, MessageTypes
  <2>5. /\ \A t \in Socket : Tells(down'[t]) => Tells(queues[t])
        /\ \A t \in Socket : ready'[t] = "open" => ready[t] = "open" /\ t # replaced
        /\ \A t \in Socket : ready'[t] = "unopened" <=> ready[t] = "unopened"
    <3>1. CASE replaced = None
      <4>1. down' = queues /\ ready' = ready
        BY <1>6, <3>1 DEF Verified
      <4>2. \A t \in Socket : t # replaced
        BY <3>1, NoneIsNothing
      <4> QED
        BY <4>1, <4>2
    <3>2. CASE replaced # None
      <4>1. ServerCloses(replaced, queues, "replaced")
        BY <1>6, <3>2 DEF Verified
      <4> HIDE DEF queues, replaced
      <4> QED
        BY <2>2, <2>4, <3>2, <4>1, CloseTells, ServerClosesType
    <3> QED
      BY <3>1, <3>2
  <2> HIDE DEF id, replaced, queues
  <2>6. ASSUME NEW t \in Socket, ready'[t] = "open", Confirmed(t)'
        PROVE  GetBySocket(registry', t) = IdentityOf(t)
    <3>1. CASE t = s
      BY <2>3, <3>1 DEF id
    <3>2. CASE t # s
      <4>1. Confirmed(t)
        BY <1>2, <2>4, <2>5, <2>6, <3>2 DEF Confirmed
      <4>2. ready[t] = "open" /\ GetBySocket(registry', t) = GetBySocket(registry, t)
        BY <2>3, <2>5, <2>6, <3>2
      <4> QED
        BY <4>1, <4>2 DEF Confirmation
    <3> QED
      BY <3>1, <3>2
  <2>7. ASSUME NEW d \in Device, socket'[d] # None
        PROVE  ready'[socket'[d]] # "unopened"
    BY <1>2, <2>5, <2>7 DEF Confirmation, TypeOK
  <2> QED
    BY <1>3, <2>6, <2>7 DEF Confirmation, GetBySocket
<1> QED
  BY <1>4, <1>5, <1>6 DEF VerifyDone

LEMMA HandleFrameTells ==
  ASSUME IInv, NEW s \in Socket, HandleFrame(s)
  PROVE  \A t \in Socket : Tells(down'[t]) => Tells(down[t])
<1> USE DEF IInv
<1> DEFINE m == Head(up[s])
<1>1. m \in ToRelay
  BY TailType DEF TypeOK, HandleFrame
<1>2. down \in [Socket -> Seq(FromRelay)]
  BY DEF TypeOK
<1>3. ASSUME NEW n \in FromRelay, n # Registered, down' = down \/ down' = Put(down, s, n)
      PROVE  \A t \in Socket : Tells(down'[t]) => Tells(down[t])
  <2>1. CASE down' = down
    BY <2>1 DEF Tells
  <2>2. CASE down' = Put(down, s, n)
    <3>1. \A t \in Socket : Tells(Put(down, s, n)[t]) => Tells(down[t])
      BY <1>2, <1>3, PutTells
    <3> QED
      BY <2>2, <3>1
  <2> QED
    BY <1>3, <2>1, <2>2
<1>4. CASE m.type = "register"
  <2>1. OnRegister(s)
    BY <1>4 DEF HandleFrame
  <2>2. down' = down \/ down' = Put(down, s, Error("already_registered", None))
    BY <2>1 DEF OnRegister
  <2> QED
    BY <1>3, <2>2, MessageTypes, OtherMessages
<1>5. CASE m.type = "devices"
  <2>1. OnDevices(s)
    BY <1>5 DEF HandleFrame
  <2>2. \/ down' = Put(down, s, Error("not_registered", None))
        \/ down' = Put(down, s, DeviceList)
    BY <2>1 DEF OnDevices
  <2> QED
    BY <1>3, <2>2, MessageTypes, OtherMessages
<1>6. CASE m.type = "message" /\ m.of \in Request
  <2>1. OnMessage(s, m.of)
    BY <1>6 DEF HandleFrame
  <2> DEFINE u == GetBySocket(registry, s).user
  <2>2. CASE GetBySocket(registry, s) = None
    <3>1. down' = Put(down, s, Error("not_registered", m.of))
      BY <2>1, <2>2 DEF OnMessage
    <3> QED
      BY <1>3, <1>6, <3>1, MessageTypes, OtherMessages
  <2>3. CASE GetBySocket(registry, s) # None /\ Others(s) = {}
    <3>1. down' = Put(down, s, Error("no_other_devices", m.of))
      BY <2>1, <2>3 DEF OnMessage
    <3> QED
      BY <1>3, <1>6, <3>1, MessageTypes, OtherMessages
  <2>4. CASE GetBySocket(registry, s) # None /\ Others(s) # {}
    <3>1. Message(u) \in FromRelay /\ Message(u) # Registered
      BY <2>4, MessageTypes, OtherMessages DEF TypeOK, Registries, Identity, GetBySocket
    <3>2. down' = [t \in Socket |-> IF t \in Others(s) THEN Put(down, t, Message(u))[t]
                                    ELSE IF t = s THEN Put(down, s, Sent(m.of))[s] ELSE down[t]]
      BY <2>1, <2>4 DEF OnMessage
    <3>3. ASSUME NEW t \in Socket, Tells(down'[t])
          PROVE  Tells(down[t])
      <4>1. Tells(Put(down, t, Message(u))[t]) => Tells(down[t])
        BY <1>2, <3>1, PutTells
      <4>2. Tells(Put(down, s, Sent(m.of))[s]) => Tells(down[s])
        BY <1>2, <1>6, PutTells, MessageTypes, OtherMessages
      <4>3. \/ down'[t] = Put(down, t, Message(u))[t]
            \/ t = s /\ down'[t] = Put(down, s, Sent(m.of))[s]
            \/ down'[t] = down[t]
        BY <3>2
      <4> QED
        BY <3>3, <4>1, <4>2, <4>3
    <3> QED
      BY <3>3
  <2> QED
    BY <2>2, <2>3, <2>4
<1> QED
  BY <1>1, <1>4, <1>5, <1>6, ToRelayCases

LEMMA SocketConfirms ==
  ASSUME IInv, TypeOK', Confirmation, NEW s \in Socket,
         HandleFrame(s) \/ VerifyDone(s) \/ AuthTimeout(s) \/ CloseEvent(s) \/ Fail(s)
  PROVE  Confirmation'
<1> USE DEF IInv
<1>1. down \in [Socket -> Seq(FromRelay)]
      /\ ready \in [Socket -> {"unopened", "open", "closing", "closed"}]
  BY DEF TypeOK
<1>2. CASE HandleFrame(s)
  <2>1. UNCHANGED <<registry, ready, owner, account, socket, phase>>
    BY <1>2 DEF HandleFrame, clientVars
  <2>2. \A t \in Socket : Tells(down'[t]) => Confirmed(t)
    BY <1>2, HandleFrameTells DEF Confirmed
  <2> QED
    BY <2>1, <2>2, NoNews
<1>3. CASE AuthTimeout(s)
  <2>1. UNCHANGED <<registry, owner, account, socket, phase>>
    BY <1>3 DEF AuthTimeout, clientVars
  <2>2. /\ \A t \in Socket : Tells(down'[t]) => Tells(down[t])
        /\ \A t \in Socket : ready'[t] = "open" => ready[t] = "open"
        /\ \A t \in Socket : ready'[t] = "unopened" => ready[t] = "unopened"
    <3>1. CASE GetBySocket(registry, s) = None
      <4>1. ServerCloses(s, down, "timeout")
        BY <1>3, <3>1 DEF AuthTimeout
      <4> QED
        BY <1>1, <4>1, CloseTells, ServerClosesType
    <3>2. CASE GetBySocket(registry, s) # None
      <4>1. UNCHANGED <<ready, down>>
        BY <1>3, <3>2 DEF AuthTimeout
      <4> QED
        BY <4>1
    <3> QED
      BY <3>1, <3>2
  <2>3. \A t \in Socket : Tells(down'[t]) => Confirmed(t)
    BY <2>2 DEF Confirmed
  <2> QED
    BY <2>1, <2>2, <2>3, NoNews
<1>4. CASE CloseEvent(s)
  <2>1. UNCHANGED <<down, owner, account, socket, phase>>
    BY <1>4 DEF CloseEvent, clientVars
  <2>2. ready' = [ready EXCEPT ![s] = "closed"] /\ registry' = RemoveBySocket(registry, s)
    BY <1>4 DEF CloseEvent
  <2>3. \A t \in Socket : t # s => GetBySocket(registry', t) = GetBySocket(registry, t)
    BY <2>2, RemoveExact DEF TypeOK, Registration, RegistryIsExact
  <2>4. \A t \in Socket : ready'[t] = "open" => t # s /\ ready[t] = "open"
    BY <1>1, <2>2
  <2>5. \A t \in Socket : ready'[t] = "unopened" => ready[t] = "unopened"
    BY <1>1, <2>2
  <2>6. \A t \in Socket : Tells(down'[t]) => Confirmed(t)
    BY <2>1 DEF Confirmed
  <2> QED
    BY <2>1, <2>3, <2>4, <2>5, <2>6, NoNews
<1>5. CASE Fail(s)
  <2>1. UNCHANGED <<registry, ready, owner, account, socket, phase>>
    BY <1>5 DEF Fail, relayVars, clientVars
  <2>2. down' = [down EXCEPT ![s] = <<>>]
    BY <1>5 DEF Fail
  <2>3. \A t \in Socket : down'[t] = down[t] \/ down'[t] = <<>>
    BY <1>1, <2>2
  <2>4. ~Tells(<<>>)
    BY DEF Tells
  <2>5. \A t \in Socket : Tells(down'[t]) => Confirmed(t)
    BY <2>3, <2>4 DEF Confirmed
  <2> QED
    BY <2>1, <2>5, NoNews
<1> QED
  BY <1>2, <1>3, <1>4, <1>5, VerifyDoneConfirms

LEMMA ConnectConfirms ==
  ASSUME IInv, TypeOK', Confirmation, NEW d \in Device, Connect(d)
  PROVE  Confirmation'
<1> USE DEF IInv
<1>1. PICK s \in Socket :
        /\ ready[s] = "unopened"
        /\ ready' = [ready EXCEPT ![s] = "open"]
        /\ owner' = [owner EXCEPT ![s] = d]
        /\ socket' = [socket EXCEPT ![d] = s]
  BY DEF Connect
<1>2. UNCHANGED <<registry, down, account>> /\ phase' = [phase EXCEPT ![d] = "registering"]
  BY DEF Connect
<1>3. s # None
  BY NoneIsNothing
<1>4. ~Confirmed(s)'
  <2>1. down'[s] = <<>>
    BY <1>1, <1>2 DEF Delivery
  <2>2. ASSUME NEW e \in Device, socket'[e] = s, phase'[e] = "connected"
        PROVE  FALSE
    <3>1. e # d
      BY <1>2, <2>2 DEF TypeOK
    <3>2. socket[e] = s
      BY <1>1, <2>2, <3>1 DEF TypeOK
    <3> QED
      BY <1>1, <1>3, <3>2 DEF Confirmation
  <2> QED
    BY <2>1, <2>2 DEF Confirmed, Tells
<1>5. ASSUME NEW t \in Socket, ready'[t] = "open", Confirmed(t)'
      PROVE  GetBySocket(registry', t) = IdentityOf(t)'
  <2>1. t # s
    BY <1>4, <1>5
  <2>2. ready[t] = "open" /\ IdentityOf(t)' = IdentityOf(t)
    BY <1>1, <1>2, <1>5, <2>1 DEF TypeOK, IdentityOf
  <2>3. Confirmed(t)
    <3>1. ASSUME NEW e \in Device, socket'[e] = t, phase'[e] = "connected"
          PROVE  socket[e] = t /\ phase[e] = "connected"
      BY <1>1, <1>2, <2>1, <3>1 DEF TypeOK
    <3> QED
      BY <1>2, <1>5, <3>1 DEF Confirmed
  <2> QED
    BY <1>2, <2>2, <2>3 DEF Confirmation
<1>6. ASSUME NEW e \in Device, socket'[e] # None
      PROVE  ready'[socket'[e]] # "unopened"
  <2>1. socket'[e] \in Socket
    BY <1>6 DEF TypeOK
  <2>2. e = d => socket'[e] = s
    BY <1>1 DEF TypeOK
  <2>3. e # d => socket'[e] = socket[e]
    BY <1>1 DEF TypeOK
  <2> QED
    BY <1>1, <1>6, <2>1, <2>2, <2>3 DEF Confirmation, TypeOK
<1> QED
  BY <1>5, <1>6 DEF Confirmation, GetBySocket

LEMMA OverConfirms ==
  ASSUME IInv, TypeOK', Confirmation, NEW d \in Device, phase[d] # "idle", Ended(d),
         UNCHANGED <<relayVars, owner, account>>
  PROVE  Confirmation'
<1> USE DEF IInv
<1>1. \A s \in Socket : down'[s] = down[s] \/ down'[s] = <<>>
  BY DEF Ended, TypeOK
<1>2. \A s \in Socket : Tells(down'[s]) => Confirmed(s)
  BY <1>1 DEF Confirmed, Tells
<1>3. \A e \in Device : socket'[e] # None => socket'[e] = socket[e]
  BY DEF Ended, TypeOK
<1>4. \A e \in Device : phase'[e] = "connected" => phase[e] = "connected"
  BY DEF Ended, TypeOK
<1> QED
  BY <1>2, <1>3, <1>4, NoNews DEF relayVars

LEMMA TailEntries ==
  ASSUME NEW queue \in Seq(FromRelay), queue # <<>>
  PROVE  \A i \in DOMAIN Tail(queue) :
           i + 1 \in DOMAIN queue /\ Tail(queue)[i] = queue[i + 1]
<1>1. Len(Tail(queue)) = Len(queue) - 1 /\ Len(queue) \in Nat \ {0}
  OBVIOUS
<1>2. DOMAIN queue = 1..Len(queue) /\ DOMAIN Tail(queue) = 1..(Len(queue) - 1)
  BY <1>1
<1>3. \A i \in 1..(Len(queue) - 1) : Tail(queue)[i] = queue[i + 1]
  OBVIOUS
<1>4. \A i \in 1..(Len(queue) - 1) : i + 1 \in 1..Len(queue)
  BY <1>1
<1> QED
  BY <1>2, <1>3, <1>4

LEMMA SessionConfirms ==
  ASSUME IInv, TypeOK', Confirmation, NEW d \in Device,
         Connect(d) \/ AwaitRegistered(d) \/ Read(d) \/ TimesOut(d) \/ DropSession(d)
  PROVE  Confirmation'
<1> USE DEF IInv
<1> DEFINE s == socket[d]
<1>1. CASE TimesOut(d) \/ DropSession(d)
  BY <1>1, OverConfirms DEF TimesOut, DropSession
<1>2. CASE AwaitRegistered(d) \/ Read(d)
  <2>1. phase[d] # "idle" /\ UNCHANGED <<relayVars, owner, account>> /\ down[s] # <<>>
        /\ s \in Socket
    BY <1>2 DEF AwaitRegistered, Read, TypeOK
  <2>2. CASE Ended(d)
    BY <2>1, <2>2, OverConfirms
  <2>3. CASE ~Ended(d)
    <3>1. down' = [down EXCEPT ![s] = Tail(@)]
      BY <1>2, <2>3, Zenon DEF AwaitRegistered, Read
    <3>2. socket' = socket
      BY <1>2, <2>3, Zenon DEF AwaitRegistered, Read
    <3>3. \/ phase' = phase
          \/ Head(down[s]) = Registered /\ phase' = [phase EXCEPT ![d] = "connected"]
      BY <1>2, <2>3, Zenon DEF AwaitRegistered, Read
    <3>4. \A t \in Socket : Tells(down'[t]) => Tells(down[t])
      <4>1. \A t \in Socket : t # s => down'[t] = down[t]
        BY <3>1 DEF TypeOK
      <4>2. down'[s] = Tail(down[s]) /\ down[s] \in Seq(FromRelay)
        BY <2>1, <3>1 DEF TypeOK
      <4>3. \A i \in DOMAIN Tail(down[s]) :
              i + 1 \in DOMAIN down[s] /\ Tail(down[s])[i] = down[s][i + 1]
        BY <2>1, <4>2, TailEntries
      <4>4. Tells(down'[s]) => Tells(down[s])
        BY <4>2, <4>3, Zenon DEF Tells
      <4>5. ASSUME NEW t \in Socket, t # s, Tells(down'[t])
            PROVE  Tells(down[t])
        BY <4>1, <4>5, Zenon
      <4> QED
        BY <4>4, <4>5
    <3>5. Head(down[s]) = Registered => Tells(down[s])
      <4>1. down[s] \in Seq(FromRelay)
        BY <2>1 DEF TypeOK
      <4>2. Len(down[s]) \in Nat \ {0} /\ DOMAIN down[s] = 1..Len(down[s])
        BY <2>1, <4>1
      <4>3. Head(down[s]) = down[s][1]
        BY <2>1, <4>1
      <4>4. 1 \in DOMAIN down[s]
        BY <4>2
      <4> QED
        BY <4>3, <4>4 DEF Tells
    <3>6. \A e \in Device : phase'[e] = "connected" =>
            phase[e] = "connected" \/ Confirmed(socket[e])
      BY <3>3, <3>5 DEF Confirmed, TypeOK
    <3>7. \A t \in Socket : Tells(down'[t]) => Confirmed(t)
      BY <3>4 DEF Confirmed
    <3> QED
      BY <2>1, <3>2, <3>6, <3>7, NoNews DEF relayVars
  <2> QED
    BY <2>2, <2>3
<1> QED
  BY <1>1, <1>2, ConnectConfirms

LEMMA StillConfirms ==
  ASSUME IInv, TypeOK', Confirmation,
         \/ \E d \in Device : \/ Serve(d) \/ DialTick(d)
                              \/ \E kind \in {"test", "pair"} : Ask(d, kind)
         \/ \E r \in Request : GiveUp(r)
         \/ UNCHANGED vars
  PROVE  Confirmation'
<1>1. UNCHANGED <<registry, ready, owner, account, down, socket, phase>>
  BY DEF Serve, DialTick, Ask, GiveUp, vars, relayVars, linkVars, clientVars
<1>2. \A t \in Socket : Tells(down'[t]) => Confirmed(t)
  BY <1>1 DEF Confirmed
<1> QED
  BY <1>1, <1>2, NoNews DEF IInv

LEMMA ConfirmationInvariant == Spec => []Confirmation
<1>1. Init => Confirmation
  <2>1. SUFFICES ASSUME Init PROVE Confirmation
    OBVIOUS
  <2>2. /\ \A s \in Socket : down[s] = <<>>
        /\ \A d \in Device : socket[d] = None /\ phase[d] = "idle"
    BY <2>1 DEF Init
  <2> QED
    BY <2>2 DEF Confirmation, Confirmed, Tells
<1>2. IInv /\ IInv' /\ Confirmation /\ [Next]_vars => Confirmation'
  BY SocketConfirms, SessionConfirms, StillConfirms DEF Next, IInv
<1> QED
  BY <1>1, <1>2, IInvariant, PTL DEF Spec

(* A device whose session says it is connected is in the relay's registry, *)
(* as the user and device it authenticated as, however registrations,      *)
(* replacements, timeouts and closes interleave; unless its connection     *)
(* failed or the relay is closing it.                                      *)
THEOREM ConnectedRegistered == Spec => []ConnectedIsRegistered
<1>1. IInv /\ Confirmation => ConnectedIsRegistered
  <2>1. SUFFICES ASSUME IInv, Confirmation, NEW d \in Device,
                        phase[d] = "connected", ready[socket[d]] = "open"
                 PROVE  GetBySocket(registry, socket[d]) = IdentityOf(socket[d])
    BY DEF ConnectedIsRegistered
  <2>2. socket[d] \in Socket
    BY <2>1 DEF IInv, TypeOK
  <2> QED
    BY <2>1, <2>2 DEF Confirmation, Confirmed
<1> QED
  BY <1>1, IInvariant, ConfirmationInvariant, PTL
-----------------------------------------------------------------------------

(***************************************************************************)
(* The dialogue on a connection.  Matches numbers the messages of a queue: *)
(* n[i] is how many requests are spoken for after the first i messages,    *)
(* and the message that raises it to n[i] is about request n[i].           *)
(***************************************************************************)
Matches(n, queue, kinds, requests) ==
  /\ n \in [0..Len(queue) -> 0..Len(requests)]
  /\ \A i \in 1..Len(queue) :
       IF queue[i].type \in kinds
       THEN n[i] = n[i - 1] + 1 /\ requests[n[i]] = queue[i].of
       ELSE n[i] = n[i - 1]
  /\ \A i, j \in 0..Len(queue) : i <= j => n[i] <= n[j]

(* One more message m raises the number to k.                              *)
Raises(n, queue, m, kinds, requests, k) ==
  /\ k \in 0..Len(requests)
  /\ IF m.type \in kinds THEN k = n[Len(queue)] + 1 /\ requests[k] = m.of
                         ELSE k = n[Len(queue)]

LEMMA MatchesAppend ==
  ASSUME NEW S, NEW queue \in Seq(S), NEW m \in S, NEW kinds, NEW requests \in Seq(Request),
         NEW n, Matches(n, queue, kinds, requests),
         NEW k, Raises(n, queue, m, kinds, requests, k)
  PROVE  \E t : /\ Matches(t, Append(queue, m), kinds, requests)
                /\ t[0] = n[0] /\ t[Len(queue) + 1] = k
<1> DEFINE new == Append(queue, m)
           t   == [i \in 0..(Len(queue) + 1) |-> IF i <= Len(queue) THEN n[i] ELSE k]
<1>1. Len(queue) \in Nat /\ Len(requests) \in Nat /\ Len(new) = Len(queue) + 1
  OBVIOUS
<1>0. /\ k \in 0..Len(requests)
      /\ IF m.type \in kinds THEN k = n[Len(queue)] + 1 /\ requests[k] = m.of
                             ELSE k = n[Len(queue)]
  BY DEF Raises
<1>2. \A i \in 1..Len(new) : IF i <= Len(queue) THEN new[i] = queue[i] ELSE new[i] = m
  OBVIOUS
<1>3. n \in [0..Len(queue) -> 0..Len(requests)]
  BY DEF Matches
<1>4. t \in [0..Len(new) -> 0..Len(requests)]
  BY <1>0, <1>1, <1>3
<1>5. ASSUME NEW i \in 1..Len(new)
      PROVE  IF new[i].type \in kinds
             THEN t[i] = t[i - 1] + 1 /\ requests[t[i]] = new[i].of
             ELSE t[i] = t[i - 1]
  <2>1. CASE i <= Len(queue)
    <3>1. t[i] = n[i] /\ t[i - 1] = n[i - 1] /\ new[i] = queue[i]
      BY <1>1, <1>2, <2>1
    <3> QED
      BY <1>1, <2>1, <3>1 DEF Matches
  <2>2. CASE ~(i <= Len(queue))
    <3>1. i = Len(queue) + 1
      BY <1>1, <2>2
    <3>2. t[i] = k /\ t[i - 1] = n[Len(queue)] /\ new[i] = m
      BY <1>1, <1>2, <3>1
    <3> QED
      BY <1>0, <3>2
  <2> QED
    BY <2>1, <2>2
<1>6. n[Len(queue)] <= k
  BY <1>0, <1>1, <1>3
<1>7. ASSUME NEW i \in 0..Len(new), NEW j \in 0..Len(new), i <= j
      PROVE  t[i] <= t[j]
  <2>1. CASE j <= Len(queue)
    <3>1. t[i] = n[i] /\ t[j] = n[j]
      BY <1>1, <1>7, <2>1
    <3> QED
      BY <1>1, <1>7, <2>1, <3>1 DEF Matches
  <2>2. CASE ~(j <= Len(queue)) /\ i <= Len(queue)
    <3>1. t[i] = n[i] /\ t[j] = k /\ n[i] <= n[Len(queue)]
      BY <1>1, <2>2 DEF Matches
    <3>2. n[i] \in Nat /\ n[Len(queue)] \in Nat /\ k \in Nat
      BY <1>0, <1>1, <1>3, <2>2
    <3> QED
      BY <1>6, <3>1, <3>2
  <2>3. CASE ~(j <= Len(queue)) /\ ~(i <= Len(queue))
    <3>1. t[i] = k /\ t[j] = k
      BY <1>1, <2>3
    <3> QED
      BY <1>0, <1>1, <3>1
  <2> QED
    BY <2>1, <2>2, <2>3
<1>8. Matches(t, new, kinds, requests)
  BY <1>4, <1>5, <1>7 DEF Matches
<1>9. t[0] = n[0] /\ t[Len(queue) + 1] = k
  BY <1>1
<1> QED
  BY <1>8, <1>9

LEMMA MatchesTail ==
  ASSUME NEW S, NEW queue \in Seq(S), queue # <<>>, NEW kinds, NEW requests \in Seq(Request),
         NEW n, Matches(n, queue, kinds, requests)
  PROVE  \E t : /\ Matches(t, Tail(queue), kinds, requests)
                /\ \A i \in 0..Len(Tail(queue)) : t[i] = n[i + 1]
                /\ Len(Tail(queue)) + 1 = Len(queue)
<1> DEFINE new == Tail(queue)
           t   == [i \in 0..(Len(queue) - 1) |-> n[i + 1]]
<1>1. Len(queue) \in Nat \ {0} /\ Len(requests) \in Nat /\ Len(new) = Len(queue) - 1
  OBVIOUS
<1>2. \A i \in 1..Len(new) : new[i] = queue[i + 1]
  OBVIOUS
<1>3. n \in [0..Len(queue) -> 0..Len(requests)]
  BY DEF Matches
<1>4. t \in [0..Len(new) -> 0..Len(requests)]
  BY <1>1, <1>3
<1>5. ASSUME NEW i \in 1..Len(new)
      PROVE  IF new[i].type \in kinds
             THEN t[i] = t[i - 1] + 1 /\ requests[t[i]] = new[i].of
             ELSE t[i] = t[i - 1]
  <2>1. i + 1 \in 1..Len(queue) /\ (i + 1) - 1 = i /\ (i - 1) + 1 = i
    BY <1>1
  <2>2. t[i] = n[i + 1] /\ t[i - 1] = n[i] /\ new[i] = queue[i + 1]
    BY <1>1, <1>2
  <2> QED
    BY <2>1, <2>2 DEF Matches
<1>6. ASSUME NEW i \in 0..Len(new), NEW j \in 0..Len(new), i <= j
      PROVE  t[i] <= t[j]
  <2>1. i + 1 \in 0..Len(queue) /\ j + 1 \in 0..Len(queue) /\ i + 1 <= j + 1
    BY <1>1, <1>6
  <2>2. t[i] = n[i + 1] /\ t[j] = n[j + 1]
    BY <1>1
  <2> QED
    BY <2>1, <2>2 DEF Matches
<1>7. Matches(t, new, kinds, requests)
  BY <1>4, <1>5, <1>6 DEF Matches
<1>8. \A i \in 0..Len(new) : t[i] = n[i + 1]
  BY <1>1
<1>9. Len(new) + 1 = Len(queue)
  BY <1>1
<1> QED
  BY <1>7, <1>8, <1>9

(* The first request was answered: the others move up.                     *)
LEMMA MatchesRebase ==
  ASSUME NEW S, NEW queue \in Seq(S), NEW kinds, NEW requests \in Seq(Request), NEW n,
         Matches(n, queue, kinds, requests), n[0] # 0
  PROVE  /\ requests # <<>>
         /\ \E t : /\ Matches(t, queue, kinds, Tail(requests))
                   /\ \A i \in 0..Len(queue) : t[i] = n[i] - 1
                   /\ Len(Tail(requests)) = Len(requests) - 1
<1> DEFINE new == Tail(requests)
           t   == [i \in 0..Len(queue) |-> n[i] - 1]
<1>1. n \in [0..Len(queue) -> 0..Len(requests)] /\ Len(queue) \in Nat /\ Len(requests) \in Nat
  BY DEF Matches
<1>2. \A i \in 0..Len(queue) : n[i] \in 1..Len(requests)
  <2>0. n[0] >= 1
    BY <1>1
  <2>1. \A i \in 0..Len(queue) : n[0] <= n[i]
    BY <1>1 DEF Matches
  <2>2. \A i \in 0..Len(queue) : n[i] \in 0..Len(requests)
    BY <1>1
  <2> QED
    BY <1>1, <2>0, <2>1, <2>2
<1>3. requests # <<>>
  BY <1>1, <1>2
<1>4. Len(new) = Len(requests) - 1
  BY <1>3
<1>5. \A i \in 1..Len(new) : new[i] = requests[i + 1]
  BY <1>3
<1>6. t \in [0..Len(queue) -> 0..Len(new)]
  <2>1. ASSUME NEW i \in 0..Len(queue) PROVE n[i] - 1 \in 0..Len(new)
    BY <1>1, <1>2, <1>4
  <2> QED
    BY <2>1
<1>7. ASSUME NEW i \in 1..Len(queue)
      PROVE  IF queue[i].type \in kinds
             THEN t[i] = t[i - 1] + 1 /\ new[t[i]] = queue[i].of
             ELSE t[i] = t[i - 1]
  <2>1. t[i] = n[i] - 1 /\ t[i - 1] = n[i - 1] - 1
    BY <1>1
  <2>2. n[i] \in 1..Len(requests) /\ n[i - 1] \in 1..Len(requests)
    BY <1>1, <1>2
  <2>3. CASE queue[i].type \in kinds
    <3>1. n[i] = n[i - 1] + 1 /\ requests[n[i]] = queue[i].of
      BY <2>3 DEF Matches
    <3>2. t[i] \in 1..Len(new) /\ t[i] + 1 = n[i] /\ t[i] = t[i - 1] + 1
      BY <1>1, <1>4, <2>1, <2>2, <3>1
    <3> QED
      BY <1>5, <2>3, <3>1, <3>2
  <2>4. CASE queue[i].type \notin kinds
    BY <2>1, <2>4 DEF Matches
  <2> QED
    BY <2>3, <2>4
<1>8. ASSUME NEW i \in 0..Len(queue), NEW j \in 0..Len(queue), i <= j
      PROVE  t[i] <= t[j]
  <2>1. n[i] <= n[j]
    BY <1>8 DEF Matches
  <2> QED
    BY <1>2, <2>1
<1>9. Matches(t, queue, kinds, new)
  BY <1>6, <1>7, <1>8 DEF Matches
<1> QED
  BY <1>3, <1>4, <1>9

LEMMA MatchesMore ==
  ASSUME NEW S, NEW queue \in Seq(S), NEW kinds, NEW requests \in Seq(Request), NEW n,
         Matches(n, queue, kinds, requests), NEW r \in Request
  PROVE  Matches(n, queue, kinds, Append(requests, r))
<1>1. n \in [0..Len(queue) -> 0..Len(requests)] /\ Len(queue) \in Nat /\ Len(requests) \in Nat
  BY DEF Matches
<1>2. Len(Append(requests, r)) = Len(requests) + 1
  OBVIOUS
<1>3. n \in [0..Len(queue) -> 0..Len(Append(requests, r))]
  BY <1>1, <1>2
<1>4. \A i \in 1..Len(requests) : Append(requests, r)[i] = requests[i]
  OBVIOUS
<1>5. ASSUME NEW i \in 1..Len(queue), queue[i].type \in kinds
      PROVE  Append(requests, r)[n[i]] = queue[i].of
  <2>1. n[i] = n[i - 1] + 1 /\ requests[n[i]] = queue[i].of
    BY <1>5 DEF Matches
  <2>2. n[i] \in 0..Len(requests) /\ n[i - 1] \in 0..Len(requests)
    BY <1>1
  <2>3. n[i] \in 1..Len(requests)
    BY <1>1, <2>1, <2>2
  <2> QED
    BY <1>4, <2>1, <2>3
<1> QED
  BY <1>3, <1>5 DEF Matches

Answers == {"sent", "error"}
Tests   == {"message"}

(* The answers on their way are for the first requests.                    *)
Answered(queue, requests) ==
  \E n : Matches(n, queue, Answers, requests) /\ n[0] = 0

(* And the tests on their way to the relay are the rest.                   *)
InStep(queue, tests, requests) ==
  /\ \E n, t :
       /\ Matches(n, queue, Answers, requests) /\ n[0] = 0
       /\ Matches(t, tests, Tests, requests) /\ t[0] = n[Len(queue)]
       /\ t[Len(tests)] = Len(requests)
  /\ \A i \in 1..Len(tests) : tests[i].type # "register"

Silent(queue) == \A i \in 1..Len(queue) : queue[i].type \notin Answers

LEMMA InStepAnswered ==
  \A queue, tests, requests : InStep(queue, tests, requests) => Answered(queue, requests)
BY DEF InStep, Answered

LEMMA SilentMatches ==
  ASSUME NEW S, NEW queue \in Seq(S), Silent(queue), NEW requests \in Seq(Request)
  PROVE  Matches([i \in 0..Len(queue) |-> 0], queue, Answers, requests)
<1>1. Len(queue) \in Nat /\ Len(requests) \in Nat
  OBVIOUS
<1> DEFINE n == [i \in 0..Len(queue) |-> 0]
<1>2. n \in [0..Len(queue) -> 0..Len(requests)]
  BY <1>1
<1>3. \A i \in 1..Len(queue) : n[i] = 0 /\ n[i - 1] = 0
  BY <1>1
<1>4. \A i \in 0..Len(queue) : n[i] = 0
  BY <1>1
<1> QED
  BY <1>2, <1>3, <1>4 DEF Matches, Silent

LEMMA SilentInStep ==
  ASSUME NEW S, NEW queue \in Seq(S), Silent(queue)
  PROVE  InStep(queue, <<>>, <<>>)
<1>1. Len(queue) \in Nat /\ <<>> \in Seq(Request) /\ Len(<<>>) = 0
  OBVIOUS
<1> DEFINE n == [i \in 0..Len(queue) |-> 0]
           t == [i \in 0..0 |-> 0]
<1>2. Matches(n, queue, Answers, <<>>) /\ n[0] = 0 /\ n[Len(queue)] = 0
  BY <1>1, SilentMatches
<1>3. Matches(t, <<>>, Tests, <<>>) /\ t[0] = 0
  BY <1>1 DEF Matches
<1> QED
  BY <1>1, <1>2, <1>3 DEF InStep

LEMMA NothingAnswered ==
  ASSUME NEW requests \in Seq(Request)
  PROVE  Answered(<<>>, requests)
<1>1. <<>> \in Seq(Request) /\ Silent(<<>>)
  BY DEF Silent
<1>2. Matches([i \in 0..Len(<<>>) |-> 0], <<>>, Answers, requests)
  BY <1>1, SilentMatches
<1>3. [i \in 0..Len(<<>>) |-> 0][0] = 0
  OBVIOUS
<1> QED
  BY <1>2, <1>3 DEF Answered

(* Something else than an answer is sent to the device.                    *)
LEMMA ToldOther ==
  ASSUME NEW queue \in Seq(FromRelay), NEW m \in FromRelay, m.type \notin Answers,
         NEW requests \in Seq(Request)
  PROVE  /\ Answered(queue, requests) => Answered(Append(queue, m), requests)
         /\ \A tests : InStep(queue, tests, requests) => InStep(Append(queue, m), tests, requests)
<1>1. Len(queue) \in Nat /\ Len(Append(queue, m)) = Len(queue) + 1
  OBVIOUS
<1>2. ASSUME NEW n, Matches(n, queue, Answers, requests)
      PROVE  \E new : /\ Matches(new, Append(queue, m), Answers, requests)
                      /\ new[0] = n[0] /\ new[Len(queue) + 1] = n[Len(queue)]
  <2>1. n[Len(queue)] \in 0..Len(requests)
    BY <1>1, <1>2 DEF Matches
  <2>2. Raises(n, queue, m, Answers, requests, n[Len(queue)])
    BY <2>1 DEF Raises
  <2> QED
    BY <1>2, <2>2, MatchesAppend
<1>3. ASSUME Answered(queue, requests)
      PROVE  Answered(Append(queue, m), requests)
  BY <1>2, <1>3 DEF Answered
<1>4. ASSUME NEW tests, InStep(queue, tests, requests)
      PROVE  InStep(Append(queue, m), tests, requests)
  <2>1. PICK n, t : /\ Matches(n, queue, Answers, requests) /\ n[0] = 0
                    /\ Matches(t, tests, Tests, requests) /\ t[0] = n[Len(queue)]
                    /\ t[Len(tests)] = Len(requests)
    BY <1>4 DEF InStep
  <2>2. PICK new : /\ Matches(new, Append(queue, m), Answers, requests)
                   /\ new[0] = n[0] /\ new[Len(queue) + 1] = n[Len(queue)]
    BY <1>2, <2>1
  <2> QED
    BY <1>1, <1>4, <2>1, <2>2 DEF InStep
<1> QED
  BY <1>3, <1>4

LEMMA StillNoRegister ==
  ASSUME NEW tests \in Seq(ToRelay), tests # <<>>,
         \A i \in 1..Len(tests) : tests[i].type # "register"
  PROVE  /\ Head(tests).type # "register"
         /\ \A i \in 1..Len(Tail(tests)) : Tail(tests)[i].type # "register"
<1>1. Len(tests) \in Nat \ {0} /\ Len(Tail(tests)) = Len(tests) - 1 /\ Head(tests) = tests[1]
  OBVIOUS
<1>2. \A i \in 1..Len(Tail(tests)) : Tail(tests)[i] = tests[i + 1]
  OBVIOUS
<1>3. \A i \in 1..Len(Tail(tests)) : i + 1 \in 1..Len(tests)
  BY <1>1
<1> QED
  BY <1>1, <1>2, <1>3

(* The relay takes up something else than a test message.                  *)
LEMMA HeardOther ==
  ASSUME NEW queue \in Seq(FromRelay), NEW tests \in Seq(ToRelay), tests # <<>>,
         NEW requests \in Seq(Request), InStep(queue, tests, requests)
  PROVE  /\ Head(tests).type # "register"
         /\ Head(tests).type # "message" => InStep(queue, Tail(tests), requests)
<1>1. PICK n, t : /\ Matches(n, queue, Answers, requests) /\ n[0] = 0
                  /\ Matches(t, tests, Tests, requests) /\ t[0] = n[Len(queue)]
                  /\ t[Len(tests)] = Len(requests)
  BY DEF InStep
<1>2. /\ Head(tests).type # "register"
      /\ \A i \in 1..Len(Tail(tests)) : Tail(tests)[i].type # "register"
  BY StillNoRegister DEF InStep
<1>3. PICK new : /\ Matches(new, Tail(tests), Tests, requests)
                 /\ \A i \in 0..Len(Tail(tests)) : new[i] = t[i + 1]
                 /\ Len(Tail(tests)) + 1 = Len(tests)
  BY <1>1, MatchesTail
<1>4. Len(tests) \in Nat \ {0} /\ Len(Tail(tests)) \in Nat /\ Head(tests) = tests[1]
  OBVIOUS
<1>5. new[0] = t[1] /\ new[Len(Tail(tests))] = t[Len(tests)]
  BY <1>3, <1>4
<1>6. Head(tests).type # "message" => t[1] = t[0]
  BY <1>1, <1>4 DEF Matches, Tests
<1> QED
  BY <1>1, <1>2, <1>3, <1>5, <1>6 DEF InStep

(* It answers the test message it takes up.                                *)
LEMMA HeardTest ==
  ASSUME NEW queue \in Seq(FromRelay), NEW tests \in Seq(ToRelay), tests # <<>>,
         NEW requests \in Seq(Request), InStep(queue, tests, requests),
         Head(tests).type = "message",
         NEW m \in FromRelay, m.type \in Answers, m.of = Head(tests).of
  PROVE  InStep(Append(queue, m), Tail(tests), requests)
<1>1. PICK n, t : /\ Matches(n, queue, Answers, requests) /\ n[0] = 0
                  /\ Matches(t, tests, Tests, requests) /\ t[0] = n[Len(queue)]
                  /\ t[Len(tests)] = Len(requests)
  BY DEF InStep
<1>2. \A i \in 1..Len(Tail(tests)) : Tail(tests)[i].type # "register"
  BY StillNoRegister DEF InStep
<1>3. PICK new : /\ Matches(new, Tail(tests), Tests, requests)
                 /\ \A i \in 0..Len(Tail(tests)) : new[i] = t[i + 1]
                 /\ Len(Tail(tests)) + 1 = Len(tests)
  BY <1>1, MatchesTail
<1>4. Len(tests) \in Nat \ {0} /\ Len(Tail(tests)) \in Nat /\ Head(tests) = tests[1]
      /\ Len(Append(queue, m)) = Len(queue) + 1
  OBVIOUS
<1>5. new[0] = t[1] /\ new[Len(Tail(tests))] = t[Len(tests)]
  BY <1>3, <1>4
<1>6. t[1] = t[0] + 1 /\ requests[t[1]] = m.of /\ t[1] \in 0..Len(requests)
  <2>1. 1 \in 1..Len(tests) /\ 1 \in 0..Len(tests) /\ 1 - 1 = 0
    BY <1>4
  <2>2. t[1] \in 0..Len(requests)
    BY <1>1, <2>1 DEF Matches
  <2>3. tests[1].type \in Tests
    BY <1>4 DEF Tests
  <2> QED
    BY <1>1, <1>4, <2>1, <2>2, <2>3 DEF Matches
<1>7. Raises(n, queue, m, Answers, requests, t[1])
  BY <1>1, <1>6 DEF Raises
<1>8. PICK told : /\ Matches(told, Append(queue, m), Answers, requests)
                  /\ told[0] = n[0] /\ told[Len(queue) + 1] = t[1]
  BY <1>1, <1>7, MatchesAppend
<1> QED
  BY <1>1, <1>2, <1>3, <1>4, <1>5, <1>8 DEF InStep

(* The device reads something else than an answer.                         *)
LEMMA ReadOther ==
  ASSUME NEW queue \in Seq(FromRelay), queue # <<>>, Head(queue).type \notin Answers,
         NEW requests \in Seq(Request)
  PROVE  /\ Answered(queue, requests) => Answered(Tail(queue), requests)
         /\ \A tests : InStep(queue, tests, requests) => InStep(Tail(queue), tests, requests)
<1>1. Len(queue) \in Nat \ {0} /\ Len(Tail(queue)) \in Nat /\ Head(queue) = queue[1]
  OBVIOUS
<1>2. ASSUME NEW n, Matches(n, queue, Answers, requests), n[0] = 0
      PROVE  \E new : /\ Matches(new, Tail(queue), Answers, requests)
                      /\ new[0] = 0 /\ new[Len(Tail(queue))] = n[Len(queue)]
  <2>1. PICK new : /\ Matches(new, Tail(queue), Answers, requests)
                   /\ \A i \in 0..Len(Tail(queue)) : new[i] = n[i + 1]
                   /\ Len(Tail(queue)) + 1 = Len(queue)
    BY <1>2, MatchesTail
  <2>2. n[1] = n[0]
    BY <1>1, <1>2 DEF Matches
  <2>3. new[0] = n[1] /\ new[Len(Tail(queue))] = n[Len(queue)]
    BY <1>1, <2>1
  <2> QED
    BY <1>2, <2>1, <2>2, <2>3
<1>3. ASSUME Answered(queue, requests) PROVE Answered(Tail(queue), requests)
  BY <1>2, <1>3 DEF Answered
<1>4. ASSUME NEW tests, InStep(queue, tests, requests)
      PROVE  InStep(Tail(queue), tests, requests)
  <2>1. PICK n, t : /\ Matches(n, queue, Answers, requests) /\ n[0] = 0
                    /\ Matches(t, tests, Tests, requests) /\ t[0] = n[Len(queue)]
                    /\ t[Len(tests)] = Len(requests)
    BY <1>4 DEF InStep
  <2>2. PICK new : /\ Matches(new, Tail(queue), Answers, requests)
                   /\ new[0] = 0 /\ new[Len(Tail(queue))] = n[Len(queue)]
    BY <1>2, <2>1
  <2> QED
    BY <1>4, <2>1, <2>2 DEF InStep
<1> QED
  BY <1>3, <1>4

(* The device reads an answer: it is for the first request.                *)
LEMMA ReadAnswer ==
  ASSUME NEW queue \in Seq(FromRelay), queue # <<>>, Head(queue).type \in Answers,
         NEW requests \in Seq(Request), Answered(queue, requests)
  PROVE  /\ requests # <<>> /\ Head(requests) = Head(queue).of
         /\ Answered(Tail(queue), Tail(requests))
         /\ \A tests \in Seq(ToRelay) :
              InStep(queue, tests, requests) => InStep(Tail(queue), tests, Tail(requests))
<1>1. Len(queue) \in Nat \ {0} /\ Len(Tail(queue)) \in Nat /\ Head(queue) = queue[1]
      /\ Tail(queue) \in Seq(FromRelay)
  OBVIOUS
<1>2. ASSUME NEW n, Matches(n, queue, Answers, requests), n[0] = 0
      PROVE  /\ requests # <<>> /\ Head(requests) = Head(queue).of
             /\ \E new : /\ Matches(new, Tail(queue), Answers, Tail(requests))
                         /\ new[0] = 0 /\ new[Len(Tail(queue))] = n[Len(queue)] - 1
             /\ n[Len(queue)] # 0 /\ Len(Tail(requests)) = Len(requests) - 1
  <2>1. PICK t : /\ Matches(t, Tail(queue), Answers, requests)
                 /\ \A i \in 0..Len(Tail(queue)) : t[i] = n[i + 1]
                 /\ Len(Tail(queue)) + 1 = Len(queue)
    BY <1>2, MatchesTail
  <2>2. n[1] = 1 /\ requests[1] = Head(queue).of
    BY <1>1, <1>2 DEF Matches
  <2>3. t[0] = 1 /\ t[Len(Tail(queue))] = n[Len(queue)]
    BY <1>1, <2>1, <2>2
  <2>4. /\ requests # <<>>
        /\ \E new : /\ Matches(new, Tail(queue), Answers, Tail(requests))
                    /\ \A i \in 0..Len(Tail(queue)) : new[i] = t[i] - 1
                    /\ Len(Tail(requests)) = Len(requests) - 1
    <3>1. t[0] # 0
      BY <2>3
    <3>2. Tail(queue) \in Seq(FromRelay) /\ Matches(t, Tail(queue), Answers, requests)
      BY <1>1, <2>1
    <3> QED
      BY <3>1, <3>2, MatchesRebase
  <2>5. PICK new : /\ Matches(new, Tail(queue), Answers, Tail(requests))
                   /\ \A i \in 0..Len(Tail(queue)) : new[i] = t[i] - 1
                   /\ Len(Tail(requests)) = Len(requests) - 1
    BY <2>4
  <2>6. new[0] = 0 /\ new[Len(Tail(queue))] = n[Len(queue)] - 1
    BY <1>1, <2>3, <2>5
  <2>7. n[1] <= n[Len(queue)]
    BY <1>1, <1>2 DEF Matches
  <2>8. Head(requests) = requests[1]
    BY <2>4
  <2> QED
    BY <2>2, <2>4, <2>5, <2>6, <2>7, <2>8
<1>3. /\ requests # <<>> /\ Head(requests) = Head(queue).of
      /\ Answered(Tail(queue), Tail(requests))
  BY <1>2 DEF Answered
<1>4. ASSUME NEW tests \in Seq(ToRelay), InStep(queue, tests, requests)
      PROVE  InStep(Tail(queue), tests, Tail(requests))
  <2>1. PICK n, t : /\ Matches(n, queue, Answers, requests) /\ n[0] = 0
                    /\ Matches(t, tests, Tests, requests) /\ t[0] = n[Len(queue)]
                    /\ t[Len(tests)] = Len(requests)
    BY <1>4 DEF InStep
  <2>2. PICK new : /\ Matches(new, Tail(queue), Answers, Tail(requests))
                   /\ new[0] = 0 /\ new[Len(Tail(queue))] = n[Len(queue)] - 1
    BY <1>2, <2>1
  <2>3. n[Len(queue)] # 0 /\ Len(Tail(requests)) = Len(requests) - 1
    BY <1>2, <2>1
  <2>4. PICK rest : /\ Matches(rest, tests, Tests, Tail(requests))
                    /\ \A i \in 0..Len(tests) : rest[i] = t[i] - 1
    <3>1. t[0] # 0
      BY <2>1, <2>3
    <3>2. \E rest : /\ Matches(rest, tests, Tests, Tail(requests))
                    /\ \A i \in 0..Len(tests) : rest[i] = t[i] - 1
                    /\ Len(Tail(requests)) = Len(requests) - 1
      BY <1>4, <2>1, <3>1, MatchesRebase
    <3> QED
      BY <3>2
  <2>5. rest[0] = t[0] - 1 /\ rest[Len(tests)] = t[Len(tests)] - 1
    <3>1. Len(tests) \in Nat
      OBVIOUS
    <3> QED
      BY <2>4, <3>1
  <2> QED
    BY <1>4, <2>1, <2>2, <2>3, <2>4, <2>5 DEF InStep
<1> QED
  BY <1>3, <1>4

(* The device asks for something.                                          *)
LEMMA AppendedNoRegister ==
  ASSUME NEW tests \in Seq(ToRelay), NEW m \in ToRelay, m.type # "register",
         \A i \in 1..Len(tests) : tests[i].type # "register"
  PROVE  \A i \in 1..Len(Append(tests, m)) : Append(tests, m)[i].type # "register"
<1>1. Len(tests) \in Nat /\ Len(Append(tests, m)) = Len(tests) + 1
  OBVIOUS
<1>2. \A i \in 1..Len(Append(tests, m)) :
        IF i <= Len(tests) THEN Append(tests, m)[i] = tests[i] ELSE Append(tests, m)[i] = m
  OBVIOUS
<1>3. \A i \in 1..Len(Append(tests, m)) : i <= Len(tests) => i \in 1..Len(tests)
  BY <1>1
<1> QED
  BY <1>2, <1>3

LEMMA AsksDevices ==
  ASSUME NEW queue \in Seq(FromRelay), NEW tests \in Seq(ToRelay),
         NEW requests \in Seq(Request), InStep(queue, tests, requests)
  PROVE  InStep(queue, Append(tests, Devices), requests)
<1>1. PICK n, t : /\ Matches(n, queue, Answers, requests) /\ n[0] = 0
                  /\ Matches(t, tests, Tests, requests) /\ t[0] = n[Len(queue)]
                  /\ t[Len(tests)] = Len(requests)
  BY DEF InStep
<1>2. Devices \in ToRelay /\ Devices.type = "devices"
  BY MessageTypes DEF Devices
<1>3. Len(requests) \in 0..Len(requests) /\ Len(Append(tests, Devices)) = Len(tests) + 1
  BY <1>2
<1>4. PICK new : /\ Matches(new, Append(tests, Devices), Tests, requests)
                 /\ new[0] = t[0] /\ new[Len(tests) + 1] = Len(requests)
  <2>1. Raises(t, tests, Devices, Tests, requests, Len(requests))
    BY <1>1, <1>2, <1>3 DEF Tests, Raises
  <2> QED
    BY <1>1, <1>2, <2>1, MatchesAppend
<1>5. \A i \in 1..Len(Append(tests, Devices)) : Append(tests, Devices)[i].type # "register"
  BY <1>2, AppendedNoRegister DEF InStep
<1> QED
  BY <1>1, <1>3, <1>4, <1>5 DEF InStep

LEMMA AsksTest ==
  ASSUME NEW queue \in Seq(FromRelay), NEW requests \in Seq(Request), NEW r \in Request
  PROVE  /\ Answered(queue, requests) => Answered(queue, Append(requests, r))
         /\ \A tests \in Seq(ToRelay) :
              InStep(queue, tests, requests)
                => InStep(queue, Append(tests, Test(r)), Append(requests, r))
<1> DEFINE more == Append(requests, r)
<1>1. ASSUME Answered(queue, requests) PROVE Answered(queue, more)
  BY <1>1, MatchesMore DEF Answered
<1>2. ASSUME NEW tests \in Seq(ToRelay), InStep(queue, tests, requests)
      PROVE  InStep(queue, Append(tests, Test(r)), more)
  <2>1. PICK n, t : /\ Matches(n, queue, Answers, requests) /\ n[0] = 0
                    /\ Matches(t, tests, Tests, requests) /\ t[0] = n[Len(queue)]
                    /\ t[Len(tests)] = Len(requests)
    BY <1>2 DEF InStep
  <2>2. Matches(n, queue, Answers, more) /\ Matches(t, tests, Tests, more)
    BY <2>1, MatchesMore
  <2>3. Test(r) \in ToRelay /\ Test(r).type = "message" /\ Test(r).of = r
    BY MessageTypes DEF Test
  <2>4. Len(more) = Len(requests) + 1 /\ more \in Seq(Request) /\ more[Len(requests) + 1] = r
        /\ Len(requests) \in Nat /\ Len(Append(tests, Test(r))) = Len(tests) + 1
    BY <2>3
  <2>5. Len(more) \in 0..Len(more)
    BY <2>4
  <2>6. PICK new : /\ Matches(new, Append(tests, Test(r)), Tests, more)
                   /\ new[0] = t[0] /\ new[Len(tests) + 1] = Len(more)
    <3>1. Raises(t, tests, Test(r), Tests, more, Len(more))
      BY <2>1, <2>3, <2>4, <2>5 DEF Tests, Raises
    <3> QED
      <4> HIDE DEF more
      <4> QED
        BY <1>2, <2>2, <2>3, <2>4, <3>1, MatchesAppend
  <2>7. \A i \in 1..Len(Append(tests, Test(r))) : Append(tests, Test(r))[i].type # "register"
    BY <1>2, <2>3, AppendedNoRegister DEF InStep
  <2> QED
    BY <2>1, <2>2, <2>4, <2>6, <2>7 DEF InStep
<1> QED
  BY <1>1, <1>2

(***************************************************************************)
(* The invariant: what is under way on a device's connection.              *)
(***************************************************************************)
(* Until the relay confirms the registration, nothing was asked on this    *)
(* connection; no answer can come before the confirmation.                 *)
Registering(d) ==
  LET s == socket[d]
  IN  /\ Tells(down[s]) => Silent(down[s])
      /\ ready[s] = "open" =>
           /\ up[s] # <<>> \/ s \in verifying => Silent(down[s])
           /\ up[s] # <<>> => /\ up[s] = <<Register>> /\ s \notin verifying
                              /\ GetBySocket(registry, s) = None

(* Afterwards the answers are for the requests in their order; as long as  *)
(* the connection is open, each request is still to be answered.           *)
Conversing(d) ==
  LET s == socket[d]
  IN  /\ Answered(down[s], pending[d])
      /\ ready[s] = "open" /\ s \notin dead => InStep(down[s], up[s], pending[d])

Turn(d) ==
  /\ phase[d] # "connected" => pending[d] = <<>>
  /\ phase[d] = "registering" => Registering(d)
  /\ phase[d] = "connected" => Conversing(d)

Owned == \A d \in Device : socket[d] # None => owner[socket[d]] = d

Asked ==
  \A d \in Device :
    /\ pairing[d] # None => asked[pairing[d]] # None /\ asked[pairing[d]].kind = "pair"
    /\ \A i \in 1..Len(outgoing[d]) : asked[outgoing[d][i]] # None

Dialogue == Owned /\ Asked /\ \A d \in Device : Turn(d)

(* What the relay knows of a device that is connected.                     *)
LEMMA ConnectedSocket ==
  ASSUME IInv, Confirmation, Owned, NEW d \in Device, phase[d] = "connected"
  PROVE  /\ socket[d] \in Socket /\ socket[d] # None /\ owner[socket[d]] = d
         /\ ready[socket[d]] = "open" =>
              /\ GetBySocket(registry, socket[d]) # None /\ socket[d] \notin verifying
              /\ socket[d] \notin dead => Reaches(socket[d])
<1>1. socket[d] \in Socket /\ socket[d] # None /\ owner[socket[d]] = d
  BY NoneIsNothing DEF IInv, TypeOK, Owned
<1>2. ASSUME ready[socket[d]] = "open"
      PROVE  GetBySocket(registry, socket[d]) # None /\ socket[d] \notin verifying
  <2>1. Confirmed(socket[d])
    BY DEF Confirmed
  <2>2. GetBySocket(registry, socket[d]) = IdentityOf(socket[d])
    BY <1>1, <1>2, <2>1 DEF Confirmation
  <2>3. IdentityOf(socket[d]) \in Identity
    BY <1>1, <1>2, IdentityType DEF IInv
  <2> QED
    BY <2>2, <2>3, NoneIsNothing DEF Identity, IInv, Registration
<1>3. ready[socket[d]] = "open" /\ socket[d] \notin dead => Reaches(socket[d])
  BY <1>1 DEF Reaches
<1> QED
  BY <1>1, <1>2, <1>3

(* A socket belongs to one device.                                         *)
LEMMA OwnSocket ==
  ASSUME Owned, NEW d \in Device, NEW e \in Device, d # e, socket[d] # None
  PROVE  socket[d] # socket[e]
BY DEF Owned

(* Steps that leave a device's connection alone.                           *)
LEMMA SameTurn ==
  ASSUME NEW d \in Device, Turn(d), phase'[d] = phase[d], socket'[d] = socket[d],
         pending'[d] = pending[d],
         phase[d] # "idle" =>
           LET s == socket[d]
           IN  /\ up'[s] = up[s] /\ down'[s] = down[s]
               /\ ready'[s] = "open" => ready[s] = "open"
               /\ s \in dead => s \in dead'
               /\ s \in verifying' => s \in verifying
               /\ ready'[s] = "open" => GetBySocket(registry', s) = GetBySocket(registry, s)
  PROVE  Turn(d)'
<1> DEFINE s == socket[d]
<1>1. CASE phase[d] = "registering"
  <2>1. /\ up'[s] = up[s] /\ down'[s] = down[s]
        /\ ready'[s] = "open" => ready[s] = "open"
        /\ s \in verifying' => s \in verifying
        /\ ready'[s] = "open" => GetBySocket(registry', s) = GetBySocket(registry, s)
    BY <1>1
  <2>2. Registering(d) /\ pending'[d] = <<>> /\ phase'[d] = "registering" /\ socket'[d] = s
    BY <1>1 DEF Turn
  <2>3. Registering(d)'
    BY <2>1, <2>2 DEF Registering, GetBySocket
  <2> QED
    BY <2>2, <2>3 DEF Turn
<1>2. CASE phase[d] = "connected"
  <2>1. /\ up'[s] = up[s] /\ down'[s] = down[s]
        /\ ready'[s] = "open" => ready[s] = "open"
        /\ s \in dead => s \in dead'
    BY <1>2
  <2>2. Conversing(d) /\ pending'[d] = pending[d] /\ phase'[d] = "connected" /\ socket'[d] = s
    BY <1>2 DEF Turn
  <2>3. Conversing(d)'
    BY <2>1, <2>2 DEF Conversing
  <2> QED
    BY <2>2, <2>3 DEF Turn
<1>3. CASE phase[d] \notin {"registering", "connected"}
  BY <1>3 DEF Turn
<1> QED
  BY <1>1, <1>2, <1>3

(* Something else than an answer may have been added to what a device is   *)
(* told, on a connection that may be closing since.                        *)
LEMMA ToldTurn ==
  ASSUME IInv, NEW d \in Device, Turn(d), phase'[d] = phase[d], socket'[d] = socket[d],
         pending'[d] = pending[d], phase[d] # "idle",
         up'[socket[d]] = up[socket[d]],
         NEW m \in FromRelay, m.type \notin Answers, m # Registered,
         down'[socket[d]] \in {down[socket[d]], Append(down[socket[d]], m)},
         ready'[socket[d]] = "open" => ready[socket[d]] = "open",
         UNCHANGED dead,
         socket[d] \in verifying' => socket[d] \in verifying,
         ready'[socket[d]] = "open" =>
           GetBySocket(registry', socket[d]) = GetBySocket(registry, socket[d])
  PROVE  Turn(d)'
<1> DEFINE s == socket[d]
<1>1. down[s] \in Seq(FromRelay) /\ pending[d] \in Seq(Request)
  BY DEF IInv, TypeOK
<1>2. CASE down'[s] = down[s]
  BY <1>2, SameTurn
<1>3. CASE down'[s] = Append(down[s], m)
  <2>1. CASE phase[d] = "registering"
    <3>1. Registering(d) /\ pending[d] = <<>>
      BY <2>1 DEF Turn
    <3>2. Silent(down[s]) => Silent(down'[s])
      BY <1>1, <1>3 DEF Silent
    <3>3. Tells(down'[s]) => Tells(down[s])
      BY <1>1, <1>3 DEF Tells
    <3>4. Registering(d)'
      BY <3>1, <3>2, <3>3 DEF Registering, GetBySocket
    <3> QED
      BY <2>1, <3>1, <3>4 DEF Turn
  <2>2. CASE phase[d] = "connected"
    <3>1. Conversing(d)
      BY <2>2 DEF Turn
    <3>2. Conversing(d)'
      BY <1>1, <1>3, <3>1, ToldOther DEF Conversing
    <3> QED
      BY <2>2, <3>2 DEF Turn
  <2>3. CASE phase[d] \notin {"registering", "connected"}
    BY <2>3 DEF Turn
  <2> QED
    BY <2>1, <2>2, <2>3
<1> QED
  BY <1>2, <1>3

LEMMA AnswerKinds ==
  /\ \A u \in User : Message(u).type \notin Answers /\ Message(u) # Registered
  /\ \A r : Sent(r).type \in Answers /\ Sent(r).of = r
  /\ \A c, r : Error(c, r).type \in Answers /\ Error(c, r).of = r
  /\ \A c : Close(c).type \notin Answers /\ Close(c) # Registered
  /\ DeviceList.type \notin Answers /\ DeviceList # Registered
  /\ Registered.type \notin Answers
BY DEF Message, Sent, Error, Close, DeviceList, Registered, Answers

LEMMA PutQueue ==
  ASSUME NEW queues \in [Socket -> Seq(FromRelay)], NEW s \in Socket, NEW m
  PROVE  /\ Put(queues, s, m)[s] = IF Reaches(s) THEN Append(queues[s], m) ELSE queues[s]
         /\ \A t \in Socket : t # s => Put(queues, s, m)[t] = queues[t]
BY DEF Put

(* What handling a frame sends, to the socket it came from and to others.  *)
LEMMA HandleFrameSends ==
  ASSUME IInv, NEW s \in Socket, HandleFrame(s)
  PROVE  /\ \A t \in Socket : t # s =>
              \/ down'[t] = down[t]
              \/ \E u \in User : down'[t] = Append(down[t], Message(u))
         /\ ~Reaches(s) => down'[s] = down[s]
         /\ Reaches(s) /\ Head(up[s]).type = "devices" /\ GetBySocket(registry, s) # None
              => down'[s] = Append(down[s], DeviceList)
         /\ Reaches(s) /\ Head(up[s]).type = "message" =>
              \E m \in FromRelay : /\ m.type \in Answers /\ m.of = Head(up[s]).of
                                   /\ down'[s] = Append(down[s], m)
         /\ Head(up[s]).type # "register" => verifying' = verifying
<1> USE DEF IInv
<1> DEFINE m == Head(up[s])
<1>1. m \in ToRelay
  BY TailType DEF TypeOK, HandleFrame
<1>2. down \in [Socket -> Seq(FromRelay)]
  BY DEF TypeOK
<1>3. CASE m.type = "register"
  <2>1. OnRegister(s)
    BY <1>3 DEF HandleFrame
  <2>2. down' = down \/ down' = Put(down, s, Error("already_registered", None))
    BY <2>1 DEF OnRegister
  <2> QED
    BY <1>2, <1>3, <2>2, PutQueue
<1>4. CASE m.type = "devices"
  <2>1. OnDevices(s)
    BY <1>4 DEF HandleFrame
  <2> DEFINE a == IF GetBySocket(registry, s) = None
                  THEN Error("not_registered", None) ELSE DeviceList
  <2>2. down' = Put(down, s, a) /\ verifying' = verifying
    BY <2>1 DEF OnDevices
  <2>3. /\ down'[s] = IF Reaches(s) THEN Append(down[s], a) ELSE down[s]
        /\ \A t \in Socket : t # s => down'[t] = down[t]
    <3> HIDE DEF a
    <3> QED
      BY <1>2, <2>2, PutQueue
  <2>4. GetBySocket(registry, s) # None => a = DeviceList
    OBVIOUS
  <2> HIDE DEF a
  <2> QED
    BY <1>4, <2>2, <2>3, <2>4
<1>5. CASE m.type = "message" /\ m.of \in Request
  <2>1. OnMessage(s, m.of)
    BY <1>5 DEF HandleFrame
  <2>2. verifying' = verifying
    BY <2>1 DEF OnMessage
  <2> DEFINE Sends(a) == down' = Put(down, s, a)
  <2>3. ASSUME NEW a \in FromRelay, a.type \in Answers, a.of = m.of, Sends(a)
        PROVE  /\ \A t \in Socket : t # s => down'[t] = down[t]
               /\ ~Reaches(s) => down'[s] = down[s]
               /\ Reaches(s) => \E n \in FromRelay : /\ n.type \in Answers /\ n.of = m.of
                                                     /\ down'[s] = Append(down[s], n)
    <3>1. down' = Put(down, s, a)
      BY <2>3
    <3>2. down'[s] = IF Reaches(s) THEN Append(down[s], a) ELSE down[s]
      BY <1>2, <3>1, PutQueue
    <3>3. \A t \in Socket : t # s => down'[t] = down[t]
      BY <1>2, <3>1, PutQueue
    <3> QED
      BY <2>3, <3>2, <3>3
  <2>4. CASE GetBySocket(registry, s) = None
    <3>1. Sends(Error("not_registered", m.of))
      BY <2>1, <2>4 DEF OnMessage
    <3> QED
      BY <1>5, <2>2, <2>3, <3>1, MessageTypes, AnswerKinds
  <2>5. CASE GetBySocket(registry, s) # None /\ Others(s) = {}
    <3>1. Sends(Error("no_other_devices", m.of))
      BY <2>1, <2>5 DEF OnMessage
    <3> QED
      BY <1>5, <2>2, <2>3, <3>1, MessageTypes, AnswerKinds
  <2>6. CASE GetBySocket(registry, s) # None /\ Others(s) # {}
    <3> DEFINE u == GetBySocket(registry, s).user
    <3>1. u \in User
      BY <2>6 DEF TypeOK, Registries, Identity, GetBySocket
    <3>2. down' = [t \in Socket |-> IF t \in Others(s) THEN Put(down, t, Message(u))[t]
                                    ELSE IF t = s THEN Put(down, s, Sent(m.of))[s] ELSE down[t]]
      BY <2>1, <2>6 DEF OnMessage
    <3>3. s \notin Others(s)
      BY DEF Others
    <3>4. down'[s] = Put(down, s, Sent(m.of))[s]
      BY <3>2, <3>3
    <3>5. down'[s] = IF Reaches(s) THEN Append(down[s], Sent(m.of)) ELSE down[s]
      BY <1>2, <3>4, PutQueue
    <3>6. ASSUME NEW t \in Socket, t # s
          PROVE  \/ down'[t] = down[t]
                 \/ \E v \in User : down'[t] = Append(down[t], Message(v))
      <4>1. down'[t] = Put(down, t, Message(u))[t] \/ down'[t] = down[t]
        BY <3>2, <3>6
      <4>2. Put(down, t, Message(u))[t] \in {Append(down[t], Message(u)), down[t]}
        BY <1>2, PutQueue
      <4> QED
        BY <3>1, <4>1, <4>2
    <3>7. Sent(m.of) \in FromRelay /\ Sent(m.of).type \in Answers /\ Sent(m.of).of = m.of
      BY <1>5, MessageTypes, AnswerKinds
    <3> QED
      BY <1>5, <2>2, <3>5, <3>6, <3>7
  <2> QED
    BY <2>4, <2>5, <2>6
<1> QED
  BY <1>1, <1>3, <1>4, <1>5, ToRelayCases

LEMMA HandleFrameTurn ==
  ASSUME IInv, IInv', Confirmation, Owned, NEW s \in Socket, HandleFrame(s),
         NEW d \in Device, Turn(d)
  PROVE  Turn(d)'
<1> USE DEF IInv
<1>1. /\ up[s] # <<>> /\ up' = [up EXCEPT ![s] = Tail(@)]
      /\ UNCHANGED <<registry, ready, dead, phase, socket, pending, owner>>
  BY DEF HandleFrame, clientVars, askVars
<1>2. /\ up \in [Socket -> Seq(ToRelay)] /\ down \in [Socket -> Seq(FromRelay)]
      /\ pending[d] \in Seq(Request) /\ down' \in [Socket -> Seq(FromRelay)]
  BY DEF TypeOK
<1>3. CASE phase[d] \notin {"registering", "connected"}
  BY <1>1, <1>3 DEF Turn
<1>4. CASE phase[d] # "idle" /\ socket[d] # s
  <2>1. socket[d] \in Socket
    BY <1>4, NoneIsNothing DEF TypeOK
  <2>2. up'[socket[d]] = up[socket[d]]
    BY <1>1, <1>2, <1>4, <2>1
  <2>3. socket[d] \in verifying' => socket[d] \in verifying
    <3>1. Head(up[s]).type = "register" => OnRegister(s)
      BY DEF HandleFrame
    <3>2. Head(up[s]).type # "register" => verifying' = verifying
      BY HandleFrameSends
    <3> QED
      BY <1>4, <3>1, <3>2 DEF OnRegister
  <2>4. CASE down'[socket[d]] = down[socket[d]]
    BY <1>1, <1>4, <2>2, <2>3, <2>4, SameTurn
  <2>5. CASE down'[socket[d]] # down[socket[d]]
    <3>1. PICK u \in User : down'[socket[d]] = Append(down[socket[d]], Message(u))
      BY <1>4, <2>1, <2>5, HandleFrameSends
    <3>2. Message(u) \in FromRelay /\ Message(u).type \notin Answers /\ Message(u) # Registered
      BY MessageTypes, AnswerKinds
    <3> QED
      BY <1>1, <1>4, <2>2, <2>3, <3>1, <3>2, ToldTurn
  <2> QED
    BY <2>4, <2>5
<1>5. CASE phase[d] = "registering" /\ socket[d] = s
  <2>1. Registering(d) /\ pending[d] = <<>>
    BY <1>5 DEF Turn
  <2>2. CASE ready[s] # "open"
    <3>1. down'[s] = down[s]
      BY <2>2, HandleFrameSends DEF Reaches
    <3>2. Registering(d)'
      BY <1>1, <1>5, <2>1, <2>2, <3>1 DEF Registering
    <3> QED
      BY <1>1, <1>5, <2>1, <3>2 DEF Turn
  <2>3. CASE ready[s] = "open"
    <3>1. /\ up[s] = <<Register>> /\ s \notin verifying /\ GetBySocket(registry, s) = None
          /\ Silent(down[s])
      BY <1>1, <1>5, <2>1, <2>3 DEF Registering
    <3>2. up'[s] = <<>> /\ Head(up[s]).type = "register"
      BY <1>1, <1>2, <3>1 DEF Register
    <3>3. OnRegister(s)
      BY <3>2 DEF HandleFrame
    <3>4. down' = down
      BY <3>1, <3>3 DEF OnRegister
    <3>5. Registering(d)'
      BY <1>1, <1>5, <2>1, <3>1, <3>2, <3>4 DEF Registering
    <3> QED
      BY <1>1, <1>5, <2>1, <3>5 DEF Turn
  <2> QED
    BY <2>2, <2>3
<1>6. CASE phase[d] = "connected" /\ socket[d] = s
  <2>1. Conversing(d)
    BY <1>6 DEF Turn
  <2>2. CASE ~(ready[s] = "open" /\ s \notin dead)
    <3>1. down'[s] = down[s]
      BY <2>2, HandleFrameSends DEF Reaches
    <3>2. Conversing(d)'
      BY <1>1, <1>6, <2>1, <2>2, <3>1 DEF Conversing
    <3> QED
      BY <1>1, <1>6, <3>2 DEF Turn
  <2>3. CASE ready[s] = "open" /\ s \notin dead
    <3>1. Reaches(s) /\ GetBySocket(registry, s) # None
      BY <1>6, <2>3, ConnectedSocket
    <3>2. InStep(down[s], up[s], pending[d])
      BY <1>6, <2>1, <2>3 DEF Conversing
    <3>3. Head(up[s]).type # "register" /\ Head(up[s]) \in ToRelay
      BY <1>1, <1>2, <3>2, HeardOther
    <3>4. up'[s] = Tail(up[s]) /\ Tail(up[s]) \in Seq(ToRelay)
      BY <1>1, <1>2
    <3>5. InStep(down'[s], up'[s], pending[d])
      <4>1. CASE Head(up[s]).type = "message"
        <5>1. PICK m \in FromRelay : /\ m.type \in Answers /\ m.of = Head(up[s]).of
                                     /\ down'[s] = Append(down[s], m)
          BY <3>1, <4>1, HandleFrameSends
        <5> QED
          BY <1>1, <1>2, <3>2, <3>4, <4>1, <5>1, HeardTest
      <4>2. CASE Head(up[s]).type = "devices"
        <5>1. down'[s] = Append(down[s], DeviceList)
          BY <3>1, <4>2, HandleFrameSends
        <5>2. InStep(down[s], Tail(up[s]), pending[d])
          BY <1>1, <1>2, <3>2, <4>2, HeardOther
        <5>3. DeviceList \in FromRelay /\ DeviceList.type \notin Answers
          BY MessageTypes, AnswerKinds
        <5> QED
          BY <1>2, <3>4, <5>1, <5>2, <5>3, ToldOther
      <4> QED
        BY <3>3, <4>1, <4>2, ToRelayCases
    <3>6. Answered(down'[s], pending[d])
      BY <3>5, InStepAnswered
    <3>7. Conversing(d)'
      BY <1>1, <1>6, <3>5, <3>6 DEF Conversing
    <3> QED
      BY <1>1, <1>6, <3>7 DEF Turn
  <2> QED
    BY <2>2, <2>3
<1>7. phase[d] \in {"idle", "registering", "connected"}
  BY DEF TypeOK
<1> QED
  BY <1>3, <1>4, <1>5, <1>6, <1>7

LEMMA SilentAppend ==
  ASSUME NEW queue \in Seq(FromRelay), Silent(queue), NEW m \in FromRelay, m.type \notin Answers
  PROVE  Silent(Append(queue, m))
<1>1. \A i \in 1..Len(Append(queue, m)) :
        \/ Append(queue, m)[i] = m
        \/ i \in 1..Len(queue) /\ Append(queue, m)[i] = queue[i]
  OBVIOUS
<1> QED
  BY <1>1 DEF Silent

LEMMA SilentTail ==
  ASSUME NEW queue \in Seq(FromRelay), queue # <<>>, Silent(queue)
  PROVE  Silent(Tail(queue))
<1>1. Len(queue) \in Nat \ {0} /\ Len(Tail(queue)) = Len(queue) - 1
  OBVIOUS
<1>2. \A i \in 1..Len(Tail(queue)) : Tail(queue)[i] = queue[i + 1]
  OBVIOUS
<1>3. \A i \in 1..Len(Tail(queue)) : i + 1 \in 1..Len(queue)
  BY <1>1
<1> QED
  BY <1>2, <1>3 DEF Silent

LEMMA NothingSaid == Silent(<<>>) /\ ~Tells(<<>>)
BY DEF Silent, Tells

LEMMA CloseQueue ==
  ASSUME TypeOK, NEW s \in Socket, NEW queues \in [Socket -> Seq(FromRelay)], NEW code,
         ServerCloses(s, queues, code)
  PROVE  /\ \A t \in Socket : t # s => down'[t] = queues[t] /\ ready'[t] = ready[t]
         /\ down'[s] = IF Reaches(s) THEN Append(queues[s], Close(code)) ELSE queues[s]
         /\ ready'[s] # "open"
<1>1. down' = Put(queues, s, Close(code))
      /\ ready' = [ready EXCEPT ![s] = IF @ = "open" THEN "closing" ELSE @]
  BY DEF ServerCloses
<1>2. ready' = [ready EXCEPT ![s] = IF ready[s] = "open" THEN "closing" ELSE ready[s]]
  BY <1>1
<1>3. \A t \in Socket : t # s => ready'[t] = ready[t]
  BY <1>2 DEF TypeOK
<1>4. ready'[s] # "open"
  BY <1>2 DEF TypeOK
<1> QED
  BY <1>1, <1>3, <1>4, PutQueue

LEMMA RejectedTurn ==
  ASSUME IInv, Confirmation, Owned, NEW s \in verifying, VerifyDone(s), Rejected(s),
         NEW d \in Device, Turn(d)
  PROVE  Turn(d)'
<1> USE DEF IInv
<1> DEFINE queues == Put(down, s, Error("unauthorized", None))
<1>1. /\ s \in Socket /\ verifying' = verifying \ {s}
      /\ UNCHANGED <<up, dead, registry, phase, socket, pending>>
  BY DEF VerifyDone, Rejected, TypeOK, clientVars, askVars
<1>2. Error("unauthorized", None) \in FromRelay /\ down \in [Socket -> Seq(FromRelay)]
  BY MessageTypes DEF TypeOK
<1>3. queues \in [Socket -> Seq(FromRelay)]
  BY <1>1, <1>2, PutType
<1>4. ServerCloses(s, queues, "unauthorized")
  BY DEF Rejected
<1>5. \A t \in Socket : t # s => down'[t] = down[t] /\ ready'[t] = ready[t]
  <2> HIDE DEF queues
  <2>1. \A t \in Socket : t # s => down'[t] = queues[t] /\ ready'[t] = ready[t]
    BY <1>1, <1>3, <1>4, CloseQueue
  <2>2. \A t \in Socket : t # s => queues[t] = down[t]
    BY <1>1, <1>2, PutQueue DEF queues
  <2> QED
    BY <2>1, <2>2
<1>6. ready'[s] # "open" /\ (~Reaches(s) => down'[s] = down[s])
  <2> HIDE DEF queues
  <2>1. ready'[s] # "open" /\ (~Reaches(s) => down'[s] = queues[s])
    BY <1>1, <1>3, <1>4, CloseQueue
  <2>2. ~Reaches(s) => queues[s] = down[s]
    BY <1>1, <1>2, PutQueue DEF queues
  <2> QED
    BY <2>1, <2>2
<1>7. CASE phase[d] \notin {"registering", "connected"}
  BY <1>1, <1>7 DEF Turn
<1>8. CASE phase[d] # "idle" /\ socket[d] # s
  <2>1. socket[d] \in Socket
    BY <1>8, NoneIsNothing DEF TypeOK
  <2> QED
    BY <1>1, <1>5, <1>8, <2>1, SameTurn
<1>9. CASE phase[d] # "idle" /\ socket[d] = s /\ ready[s] # "open"
  <2>1. down'[s] = down[s]
    BY <1>6, <1>9 DEF Reaches
  <2> QED
    BY <1>1, <1>6, <1>9, <2>1, SameTurn
<1>10. CASE phase[d] # "idle" /\ socket[d] = s /\ ready[s] = "open"
  <2>1. ~Confirmed(s)
    <3>1. GetBySocket(registry, s) = None
      BY DEF Registration
    <3>2. IdentityOf(s) \in Identity
      BY <1>1, <1>10, IdentityType
    <3> QED
      BY <1>1, <1>10, <3>1, <3>2, NoneIsNothing DEF Confirmation, Identity
  <2>2. phase[d] = "registering"
    BY <1>10, <2>1 DEF Confirmed, TypeOK
  <2>3. ~Tells(down'[s])
    <3> HIDE DEF queues
    <3>1. Tells(down'[s]) => Tells(queues[s])
      BY <1>1, <1>3, <1>4, CloseTells
    <3>2. Tells(queues[s]) => Tells(down[s])
      BY <1>1, <1>2, PutTells, OtherMessages DEF queues
    <3> QED
      BY <2>1, <3>1, <3>2 DEF Confirmed
  <2>4. Registering(d)'
    BY <1>1, <1>6, <1>10, <2>3 DEF Registering
  <2> QED
    BY <1>1, <2>2, <2>4 DEF Turn
<1>11. phase[d] \in {"idle", "registering", "connected"}
  BY DEF TypeOK
<1> QED
  BY <1>7, <1>8, <1>9, <1>10, <1>11

LEMMA VerifiedTurn ==
  ASSUME IInv, Confirmation, Owned, NEW s \in verifying, VerifyDone(s), Verified(s),
         NEW d \in Device, Turn(d)
  PROVE  Turn(d)'
<1> USE DEF IInv
<1>1. /\ s \in Socket /\ verifying' = verifying \ {s}
      /\ UNCHANGED <<up, dead, phase, socket, pending>>
  BY DEF VerifyDone, TypeOK, clientVars, askVars
<1>2. down \in [Socket -> Seq(FromRelay)] /\ Registered \in FromRelay
  BY MessageTypes DEF TypeOK
<1>3. CASE ready[s] # "open"
  <2>1. UNCHANGED <<registry, ready, down>>
    BY <1>3 DEF Verified
  <2> QED
    BY <1>1, <2>1, SameTurn
<1>4. CASE ready[s] = "open"
  <2> DEFINE id       == IdentityOf(s)
             replaced == GetConnection(registry, id.user, id.device)
             queues   == Put(down, s, Registered)
  <2>1. id \in Identity /\ replaced \in Socket \cup {None}
    BY <1>1, <1>4, IdentityType, ConnectionType DEF Identity
  <2>2. queues \in [Socket -> Seq(FromRelay)]
    BY <1>1, <1>2, PutType
  <2>3. /\ registry' = Add(registry, s, id)
        /\ IF replaced = None THEN down' = queues /\ UNCHANGED ready
           ELSE ServerCloses(replaced, queues, "replaced")
    BY <1>4 DEF Verified
  <2>4. \A t \in Socket : t # s => queues[t] = down[t]
    BY <1>1, <1>2, PutQueue
  <2>5. queues[s] \in {down[s], Append(down[s], Registered)}
    BY <1>1, <1>2, PutQueue
  <2>6. ASSUME NEW t \in Socket
        PROVE  /\ down'[t] \in {queues[t], Append(queues[t], Close("replaced"))}
               /\ ready'[t] = "open" => ready[t] = "open" /\ t # replaced
    <3> HIDE DEF queues, replaced
    <3>1. CASE replaced = None
      BY <2>3, <3>1, NoneIsNothing
    <3>2. CASE replaced # None
      <4>1. replaced \in Socket /\ ServerCloses(replaced, queues, "replaced")
        BY <2>1, <2>3, <3>2
      <4> QED
        BY <2>2, <4>1, CloseQueue
    <3> QED
      BY <3>1, <3>2
  <2>7. CASE phase[d] # "idle" /\ socket[d] # s
    <3>1. socket[d] \in Socket
      BY <2>7, NoneIsNothing DEF TypeOK
    <3>2. /\ down'[socket[d]] \in {down[socket[d]], Append(down[socket[d]], Close("replaced"))}
          /\ ready'[socket[d]] = "open" => ready[socket[d]] = "open" /\ socket[d] # replaced
      BY <2>4, <2>6, <2>7, <3>1
    <3>3. socket[d] # replaced =>
            GetBySocket(registry', socket[d]) = GetBySocket(registry, socket[d])
      BY <2>3, <2>7, <3>1 DEF Add, GetBySocket
    <3>4. /\ Close("replaced") \in FromRelay /\ Close("replaced").type \notin Answers
          /\ Close("replaced") # Registered
      BY MessageTypes, AnswerKinds
    <3> HIDE DEF replaced
    <3> QED
      BY <1>1, <2>7, <3>2, <3>3, <3>4, ToldTurn
  <2>8. CASE phase[d] # "idle" /\ socket[d] = s
    <3>1. phase[d] = "registering"
      BY <1>4, <2>8, ConnectedSocket DEF TypeOK
    <3>2. Silent(down[s]) /\ up[s] = <<>> /\ pending[d] = <<>>
      BY <1>4, <2>8, <3>1 DEF Turn, Registering
    <3>3. queues[s] \in Seq(FromRelay) /\ Silent(queues[s])
      BY <1>1, <1>2, <2>2, <2>5, <3>2, SilentAppend, AnswerKinds
    <3>4. Silent(down'[s])
      <4> HIDE DEF queues
      <4>1. Close("replaced") \in FromRelay /\ Close("replaced").type \notin Answers
        BY MessageTypes, AnswerKinds
      <4> QED
        BY <1>1, <2>6, <3>3, <4>1, SilentAppend
    <3>5. Registering(d)'
      BY <1>1, <2>8, <3>2, <3>4 DEF Registering
    <3> QED
      BY <1>1, <3>1, <3>2, <3>5 DEF Turn
  <2>9. CASE phase[d] = "idle"
    BY <1>1, <2>9 DEF Turn
  <2> QED
    BY <2>7, <2>8, <2>9
<1> QED
  BY <1>3, <1>4

LEMMA AuthTimeoutTurn ==
  ASSUME IInv, NEW s \in Socket, AuthTimeout(s), NEW d \in Device, Turn(d)
  PROVE  Turn(d)'
<1> USE DEF IInv
<1>1. UNCHANGED <<registry, verifying, up, dead, phase, socket, pending>>
  BY DEF AuthTimeout, clientVars, askVars
<1>2. \A t \in Socket : /\ down'[t] \in {down[t], Append(down[t], Close("timeout"))}
                        /\ ready'[t] = "open" => ready[t] = "open"
  <2>1. CASE GetBySocket(registry, s) = None
    <3>1. ServerCloses(s, down, "timeout")
      BY <2>1 DEF AuthTimeout
    <3>2. down \in [Socket -> Seq(FromRelay)]
      BY DEF TypeOK
    <3> QED
      BY <3>1, <3>2, CloseQueue
  <2>2. CASE GetBySocket(registry, s) # None
    BY <2>2 DEF AuthTimeout
  <2> QED
    BY <2>1, <2>2
<1>3. CASE phase[d] = "idle"
  BY <1>1, <1>3 DEF Turn
<1>4. CASE phase[d] # "idle"
  <2>1. socket[d] \in Socket
    BY <1>4, NoneIsNothing DEF TypeOK
  <2>2. /\ Close("timeout") \in FromRelay /\ Close("timeout").type \notin Answers
        /\ Close("timeout") # Registered
    BY MessageTypes, AnswerKinds
  <2>3. /\ down'[socket[d]] \in {down[socket[d]], Append(down[socket[d]], Close("timeout"))}
        /\ ready'[socket[d]] = "open" => ready[socket[d]] = "open"
    BY <1>2, <2>1
  <2> QED
    BY <1>1, <1>4, <2>2, <2>3, ToldTurn
<1> QED
  BY <1>3, <1>4

(* The connection of a device is closed, or fails, without a word.         *)
LEMMA SilencedTurn ==
  ASSUME TypeOK, NEW d \in Device, Turn(d), phase'[d] = phase[d], socket'[d] = socket[d],
         pending'[d] = pending[d], phase[d] # "idle",
         up'[socket[d]] = <<>>,
         down'[socket[d]] \in {down[socket[d]], <<>>},
         ready'[socket[d]] # "open" \/ (socket[d] \in dead' /\ down'[socket[d]] = <<>>)
  PROVE  Turn(d)'
<1> DEFINE s == socket[d]
<1>1. pending[d] \in Seq(Request)
  BY DEF TypeOK
<1>2. CASE phase[d] = "registering"
  <2>1. Registering(d) /\ pending[d] = <<>>
    BY <1>2 DEF Turn
  <2>2. Tells(down'[s]) => Silent(down'[s])
    BY <2>1, NothingSaid DEF Registering
  <2>3. ready'[s] = "open" => Silent(down'[s])
    BY NothingSaid
  <2>4. Registering(d)'
    BY <2>2, <2>3 DEF Registering
  <2> QED
    BY <1>2, <2>1, <2>4 DEF Turn
<1>3. CASE phase[d] = "connected"
  <2>1. Answered(down[s], pending[d])
    BY <1>3 DEF Turn, Conversing
  <2>2. Answered(down'[s], pending[d])
    BY <1>1, <2>1, NothingAnswered
  <2>3. Conversing(d)'
    BY <2>2 DEF Conversing
  <2> QED
    BY <1>3, <2>3 DEF Turn
<1>4. CASE phase[d] \notin {"registering", "connected"}
  BY <1>4 DEF Turn
<1> QED
  BY <1>2, <1>3, <1>4

LEMMA CloseEventTurn ==
  ASSUME IInv, NEW s \in Socket, CloseEvent(s), NEW d \in Device, Turn(d)
  PROVE  Turn(d)'
<1> USE DEF IInv
<1>1. /\ UNCHANGED <<verifying, down, dead, phase, socket, pending>>
      /\ ready' = [ready EXCEPT ![s] = "closed"] /\ up' = [up EXCEPT ![s] = <<>>]
      /\ registry' = RemoveBySocket(registry, s)
  BY DEF CloseEvent, clientVars, askVars
<1>2. \A t \in Socket : t # s => /\ GetBySocket(registry', t) = GetBySocket(registry, t)
                                 /\ ready'[t] = ready[t] /\ up'[t] = up[t]
  BY <1>1, RemoveExact DEF TypeOK, Registration, RegistryIsExact
<1>3. ready'[s] # "open" /\ up'[s] = <<>>
  BY <1>1 DEF TypeOK
<1>4. CASE phase[d] = "idle"
  BY <1>1, <1>4 DEF Turn
<1>5. CASE phase[d] # "idle" /\ socket[d] = s
  BY <1>1, <1>3, <1>5, SilencedTurn
<1>6. CASE phase[d] # "idle" /\ socket[d] # s
  <2>1. socket[d] \in Socket
    BY <1>6, NoneIsNothing DEF TypeOK
  <2> QED
    BY <1>1, <1>2, <1>6, <2>1, SameTurn
<1> QED
  BY <1>4, <1>5, <1>6

LEMMA FailTurn ==
  ASSUME IInv, NEW s \in Socket, Fail(s), NEW d \in Device, Turn(d)
  PROVE  Turn(d)'
<1> USE DEF IInv
<1>1. /\ UNCHANGED <<registry, ready, verifying, phase, socket, pending>>
      /\ dead' = dead \cup {s}
      /\ up' = [up EXCEPT ![s] = <<>>] /\ down' = [down EXCEPT ![s] = <<>>]
  BY DEF Fail, relayVars, clientVars, askVars
<1>2. \A t \in Socket : t # s => down'[t] = down[t] /\ up'[t] = up[t]
  BY <1>1 DEF TypeOK
<1>3. down'[s] = <<>> /\ up'[s] = <<>> /\ s \in dead'
  BY <1>1 DEF TypeOK
<1>4. CASE phase[d] = "idle"
  BY <1>1, <1>4 DEF Turn
<1>5. CASE phase[d] # "idle" /\ socket[d] = s
  BY <1>1, <1>3, <1>5, SilencedTurn
<1>6. CASE phase[d] # "idle" /\ socket[d] # s
  <2>1. socket[d] \in Socket
    BY <1>6, NoneIsNothing DEF TypeOK
  <2> QED
    BY <1>1, <1>2, <1>6, <2>1, SameTurn
<1> QED
  BY <1>4, <1>5, <1>6

LEMMA SocketDialogue ==
  ASSUME IInv, IInv', Confirmation, Dialogue, NEW s \in Socket,
         HandleFrame(s) \/ VerifyDone(s) \/ AuthTimeout(s) \/ CloseEvent(s) \/ Fail(s)
  PROVE  Dialogue'
<1>1. ASSUME NEW d \in Device
      PROVE  Turn(d)'
  <2>1. Turn(d) /\ Owned
    BY DEF Dialogue
  <2>2. CASE VerifyDone(s)
    <3>1. s \in verifying /\ (Verified(s) \/ Rejected(s))
      BY <2>2 DEF VerifyDone
    <3> QED
      BY <2>1, <2>2, <3>1, VerifiedTurn, RejectedTurn
  <2> QED
    BY <2>1, <2>2, HandleFrameTurn, AuthTimeoutTurn, CloseEventTurn, FailTurn
<1>2. UNCHANGED <<owner, socket, pairing, outgoing, asked>>
  BY DEF HandleFrame, VerifyDone, AuthTimeout, CloseEvent, Fail, clientVars, askVars
<1> QED
  BY <1>1, <1>2 DEF Dialogue, Owned, Asked

LEMMA ConnectDialogue ==
  ASSUME IInv, Confirmation, Dialogue, NEW d \in Device, Connect(d)
  PROVE  Dialogue'
<1> USE DEF IInv
<1>1. PICK s \in Socket :
        /\ ready[s] = "unopened"
        /\ ready' = [ready EXCEPT ![s] = "open"]
        /\ up' = [up EXCEPT ![s] = <<Register>>]
        /\ owner' = [owner EXCEPT ![s] = d]
        /\ socket' = [socket EXCEPT ![d] = s]
  BY DEF Connect
<1>2. /\ phase[d] = "idle" /\ phase' = [phase EXCEPT ![d] = "registering"]
      /\ UNCHANGED <<registry, verifying, down, dead, outgoing, pending, pairing, asked>>
  BY DEF Connect, askVars
<1>3. \A e \in Device : socket[e] # None => socket[e] \in Socket /\ socket[e] # s
  BY <1>1 DEF Confirmation, TypeOK
<1>4. /\ phase'[d] = "registering" /\ socket'[d] = s /\ owner'[s] = d
      /\ up'[s] = <<Register>> /\ ready'[s] = "open"
  BY <1>1, <1>2 DEF TypeOK
<1>5. /\ \A e \in Device : e # d => phase'[e] = phase[e] /\ socket'[e] = socket[e]
      /\ \A t \in Socket : t # s => owner'[t] = owner[t] /\ up'[t] = up[t] /\ ready'[t] = ready[t]
  BY <1>1, <1>2 DEF TypeOK
<1>6. Owned'
  BY <1>3, <1>4, <1>5 DEF Dialogue, Owned
<1>7. Turn(d)'
  <2>1. down[s] = <<>> /\ s \notin verifying /\ GetBySocket(registry, s) = None
    BY <1>1 DEF Delivery, Opened, Registration, RegistryIsExact
  <2>2. Registering(d)'
    BY <1>2, <1>4, <2>1, NothingSaid DEF Registering
  <2>3. pending[d] = <<>>
    BY <1>2 DEF Dialogue, Turn
  <2> QED
    BY <1>2, <1>4, <2>2, <2>3 DEF Turn
<1>8. ASSUME NEW e \in Device, e # d
      PROVE  Turn(e)'
  <2>1. Turn(e) /\ phase'[e] = phase[e] /\ socket'[e] = socket[e] /\ pending'[e] = pending[e]
    BY <1>2, <1>5, <1>8 DEF Dialogue
  <2>2. CASE phase[e] = "idle"
    BY <2>1, <2>2, SameTurn
  <2>3. CASE phase[e] # "idle"
    <3>1. socket[e] # None
      BY <2>3 DEF TypeOK
    <3>2. socket[e] \in Socket /\ socket[e] # s
      BY <1>3, <3>1
    <3> QED
      BY <1>2, <1>5, <2>1, <3>2, SameTurn
  <2> QED
    BY <2>2, <2>3
<1>9. Asked'
  BY <1>2 DEF Dialogue, Asked
<1> QED
  BY <1>6, <1>7, <1>8, <1>9 DEF Dialogue

LEMMA EndedDialogue ==
  ASSUME IInv, IInv', Dialogue, NEW d \in Device, phase[d] # "idle", Ended(d),
         UNCHANGED <<relayVars, dead, owner, outgoing, asked>>
  PROVE  Dialogue'
<1> USE DEF IInv
<1>1. socket[d] \in Socket /\ socket[d] # None
  BY NoneIsNothing DEF TypeOK
<1>2. /\ \A e \in Device : e # d => /\ phase'[e] = phase[e] /\ socket'[e] = socket[e]
                                    /\ pending'[e] = pending[e] /\ pairing'[e] = pairing[e]
      /\ \A t \in Socket : t # socket[d] => up'[t] = up[t] /\ down'[t] = down[t]
      /\ phase'[d] = "idle" /\ socket'[d] = None /\ pending'[d] = <<>> /\ pairing'[d] = None
  BY DEF Ended, TypeOK
<1>3. Turn(d)'
  BY <1>2 DEF Turn
<1>4. ASSUME NEW e \in Device, e # d
      PROVE  Turn(e)'
  <2>1. Turn(e) /\ Owned
    BY DEF Dialogue
  <2>2. CASE phase[e] = "idle"
    BY <1>2, <1>4, <2>1, <2>2, SameTurn
  <2>3. CASE phase[e] # "idle"
    <3>1. socket[e] \in Socket /\ socket[e] # socket[d]
      BY <1>1, <1>4, <2>1, <2>3, NoneIsNothing, OwnSocket DEF TypeOK
    <3> QED
      BY <1>2, <1>4, <2>1, <3>1, SameTurn DEF relayVars
  <2> QED
    BY <2>2, <2>3
<1>5. Owned'
  BY <1>2 DEF Dialogue, Owned
<1>6. Asked'
  BY <1>2 DEF Dialogue, Asked
<1> QED
  BY <1>3, <1>4, <1>5, <1>6 DEF Dialogue

(* The confirmation arrives: the dialogue begins.                          *)
LEMMA ConfirmedDialogue ==
  ASSUME IInv, IInv', Confirmation, Dialogue, NEW d \in Device, AwaitRegistered(d), ~Ended(d)
  PROVE  Dialogue'
<1> USE DEF IInv
<1> DEFINE s == socket[d]
<1>1. phase[d] = "registering" /\ down[s] # <<>> /\ Head(down[s]) = Registered
  BY Zenon DEF AwaitRegistered
<1>2. /\ phase' = [phase EXCEPT ![d] = "connected"]
      /\ down' = [down EXCEPT ![s] = Tail(@)]
      /\ UNCHANGED <<up, socket, pending, pairing>>
  BY Zenon DEF AwaitRegistered
<1>3. UNCHANGED <<relayVars, dead, owner, outgoing, asked>>
  BY DEF AwaitRegistered
<1>4. /\ s \in Socket /\ s # None /\ down[s] \in Seq(FromRelay)
  BY <1>1, NoneIsNothing DEF TypeOK
<1>5. Turn(d) /\ Owned
  BY DEF Dialogue
<1>6. Registering(d) /\ pending[d] = <<>>
  BY <1>1, <1>5 DEF Turn
<1>7. Tells(down[s])
  <2>1. Head(down[s]) = down[s][1] /\ 1 \in DOMAIN down[s]
    BY <1>1, <1>4
  <2> QED
    BY <1>1, <2>1 DEF Tells
<1>8. Silent(Tail(down[s])) /\ Tail(down[s]) \in Seq(FromRelay)
  BY <1>1, <1>4, <1>6, <1>7, SilentTail DEF Registering
<1>9. ready[s] = "open" => up[s] = <<>>
  <2>1. SUFFICES ASSUME ready[s] = "open", up[s] # <<>> PROVE FALSE
    OBVIOUS
  <2>2. GetBySocket(registry, s) = IdentityOf(s)
    BY <1>4, <1>7, <2>1 DEF Confirmation, Confirmed
  <2>3. IdentityOf(s) \in Identity
    BY <1>4, <2>1, IdentityType
  <2>4. GetBySocket(registry, s) = None
    BY <1>6, <2>1 DEF Registering
  <2> QED
    BY <2>2, <2>3, <2>4, NoneIsNothing DEF Identity
<1>10. Turn(d)'
  <2>1. phase'[d] = "connected" /\ down'[s] = Tail(down[s]) /\ socket'[d] = s
        /\ up'[s] = up[s] /\ pending'[d] = <<>> /\ ready' = ready
    BY <1>2, <1>3, <1>4, <1>6 DEF TypeOK, relayVars
  <2>2. InStep(down'[s], <<>>, <<>>)
    BY <1>8, <2>1, SilentInStep
  <2>3. Answered(down'[s], <<>>)
    BY <2>2, InStepAnswered
  <2>4. Conversing(d)'
    BY <1>9, <2>1, <2>2, <2>3 DEF Conversing
  <2> QED
    BY <2>1, <2>4 DEF Turn
<1>11. ASSUME NEW e \in Device, e # d
       PROVE  Turn(e)'
  <2>1. Turn(e) /\ phase'[e] = phase[e] /\ socket'[e] = socket[e] /\ pending'[e] = pending[e]
    BY <1>2, <1>11 DEF Dialogue, TypeOK
  <2>2. CASE phase[e] = "idle"
    BY <2>1, <2>2, SameTurn
  <2>3. CASE phase[e] # "idle"
    <3>1. socket[e] \in Socket /\ socket[e] # s
      BY <1>4, <1>5, <1>11, <2>3, NoneIsNothing, OwnSocket DEF TypeOK
    <3>2. down'[socket[e]] = down[socket[e]]
      BY <1>2, <3>1 DEF TypeOK
    <3> QED
      BY <1>2, <1>3, <2>1, <3>1, <3>2, SameTurn DEF relayVars
  <2> QED
    BY <2>2, <2>3
<1>12. Owned' /\ Asked'
  BY <1>2, <1>3 DEF Dialogue, Owned, Asked
<1> QED
  BY <1>10, <1>11, <1>12 DEF Dialogue

(* What reading an answer, a list of devices or another message changes.   *)
LEMMA ReadCases ==
  ASSUME IInv, NEW d \in Device, Read(d), ~Ended(d)
  PROVE  LET queue == down[socket[d]]
         IN  /\ phase[d] = "connected" /\ socket[d] \in Socket /\ queue \in Seq(FromRelay)
             /\ queue # <<>> /\ down' = [down EXCEPT ![socket[d]] = Tail(@)]
             /\ UNCHANGED <<relayVars, dead, owner, outgoing, asked, up, phase, socket>>
             /\ Head(queue).type \in Answers =>
                  OnAnswer(d)
             /\ Head(queue).type \notin Answers =>
                  /\ UNCHANGED pending
                  /\ \/ UNCHANGED <<pairing, outcome>>
                     \/ OnDeviceList(d)
<1> DEFINE queue == down[socket[d]]
<1>1. phase[d] = "connected" /\ queue # <<>> /\ UNCHANGED <<relayVars, dead, owner, outgoing, asked>>
  BY DEF Read
<1>2. socket[d] \in Socket /\ queue \in Seq(FromRelay)
  BY <1>1, NoneIsNothing DEF IInv, TypeOK
<1>3. /\ down' = [down EXCEPT ![socket[d]] = Tail(@)]
      /\ UNCHANGED <<up, phase, socket>>
      /\ CASE Head(queue).type \in {"sent", "error"} -> OnAnswer(d)
           [] Head(queue).type = "devices" -> OnDeviceList(d)
           [] OTHER -> UNCHANGED <<pending, pairing, outcome>>
  BY Zenon DEF Read
<1>4. Head(queue).type \in Answers => OnAnswer(d)
  BY <1>3 DEF Answers
<1>5. Head(queue).type \notin Answers => UNCHANGED <<pending, pairing, outcome>> \/ OnDeviceList(d)
  BY <1>3 DEF Answers
<1>6. OnDeviceList(d) => UNCHANGED pending
  BY DEF OnDeviceList
<1> QED
  BY <1>1, <1>2, <1>3, <1>4, <1>5, <1>6

(* An answer is for the first request.                                     *)
LEMMA AnswerIsNext ==
  ASSUME IInv, Dialogue, NEW d \in Device, phase[d] = "connected", down[socket[d]] # <<>>,
         socket[d] \in Socket, Head(down[socket[d]]).type \in Answers
  PROVE  pending[d] # <<>> /\ Head(pending[d]) = Head(down[socket[d]]).of
<1>1. Answered(down[socket[d]], pending[d])
  BY DEF Dialogue, Turn, Conversing
<1>2. down[socket[d]] \in Seq(FromRelay) /\ pending[d] \in Seq(Request)
  BY DEF IInv, TypeOK
<1> QED
  BY <1>1, <1>2, ReadAnswer

LEMMA ReadDialogue ==
  ASSUME IInv, IInv', Confirmation, Dialogue, NEW d \in Device, Read(d), ~Ended(d)
  PROVE  Dialogue'
<1> USE DEF IInv
<1> DEFINE s == socket[d]
           queue == down[s]
<1>1. /\ phase[d] = "connected" /\ s \in Socket /\ queue \in Seq(FromRelay) /\ queue # <<>>
      /\ down' = [down EXCEPT ![s] = Tail(@)]
      /\ UNCHANGED <<relayVars, dead, owner, outgoing, asked, up, phase, socket>>
  BY ReadCases
<1>2. /\ down'[s] = Tail(queue)
      /\ \A t \in Socket : t # s => down'[t] = down[t]
  BY <1>1 DEF TypeOK
<1>3. Turn(d) /\ Owned /\ Conversing(d) /\ pending[d] \in Seq(Request) /\ up[s] \in Seq(ToRelay)
  BY <1>1 DEF Dialogue, Turn, TypeOK
<1>4. /\ Conversing(d)'
      /\ \A e \in Device : e # d => pending'[e] = pending[e]
      /\ pairing' = pairing \/ OnDeviceList(d)
  <2>1. CASE Head(queue).type \in Answers
    <3>1. OnAnswer(d)
      BY <2>1, ReadCases
    <3>2. pending[d] # <<>>
      BY <1>1, <2>1, AnswerIsNext
    <3>3. pending' = [pending EXCEPT ![d] = Tail(@)] /\ pairing' = pairing
      BY <3>1, <3>2 DEF OnAnswer
    <3>4. pending'[d] = Tail(pending[d])
      BY <3>3 DEF TypeOK
    <3>5. /\ Answered(Tail(queue), Tail(pending[d]))
          /\ InStep(queue, up[s], pending[d]) => InStep(Tail(queue), up[s], Tail(pending[d]))
      BY <1>1, <1>3, <2>1, ReadAnswer DEF Conversing
    <3>6. Conversing(d)'
      BY <1>1, <1>2, <1>3, <3>4, <3>5 DEF Conversing, relayVars
    <3>7. \A e \in Device : e # d => pending'[e] = pending[e]
      BY <3>3 DEF TypeOK
    <3> QED
      BY <3>3, <3>6, <3>7
  <2>2. CASE Head(queue).type \notin Answers
    <3>1. pending' = pending /\ (pairing' = pairing \/ OnDeviceList(d))
      BY <2>2, ReadCases
    <3>2. /\ Answered(Tail(queue), pending[d])
          /\ InStep(queue, up[s], pending[d]) => InStep(Tail(queue), up[s], pending[d])
      BY <1>1, <1>3, <2>2, ReadOther DEF Conversing
    <3>3. Conversing(d)'
      BY <1>1, <1>2, <1>3, <3>1, <3>2 DEF Conversing, relayVars
    <3> QED
      BY <3>1, <3>3
  <2> QED
    BY <2>1, <2>2
<1>5. \A e \in Device : pairing'[e] # None => pairing'[e] = pairing[e]
  BY <1>4 DEF OnDeviceList, TypeOK
<1>6. ASSUME NEW e \in Device, e # d
      PROVE  Turn(e)'
  <2>1. Turn(e) /\ phase'[e] = phase[e] /\ socket'[e] = socket[e] /\ pending'[e] = pending[e]
    BY <1>1, <1>4, <1>6 DEF Dialogue
  <2>2. CASE phase[e] = "idle"
    BY <2>1, <2>2, SameTurn
  <2>3. CASE phase[e] # "idle"
    <3>1. socket[e] \in Socket /\ socket[e] # s
      BY <1>1, <1>3, <1>6, <2>3, NoneIsNothing, OwnSocket DEF TypeOK
    <3> QED
      BY <1>1, <1>2, <2>1, <3>1, SameTurn DEF relayVars
  <2> QED
    BY <2>2, <2>3
<1>7. Turn(d)'
  BY <1>1, <1>4 DEF Turn
<1>8. Owned' /\ Asked'
  BY <1>1, <1>5 DEF Dialogue, Owned, Asked
<1> QED
  BY <1>6, <1>7, <1>8 DEF Dialogue

LEMMA SessionDialogue ==
  ASSUME IInv, IInv', Confirmation, Dialogue, NEW d \in Device,
         Connect(d) \/ AwaitRegistered(d) \/ Read(d) \/ TimesOut(d) \/ DropSession(d)
  PROVE  Dialogue'
<1>1. CASE Ended(d) /\ ~Connect(d)
  <2>1. phase[d] # "idle" /\ UNCHANGED <<relayVars, dead, owner, outgoing, asked>>
    BY <1>1 DEF AwaitRegistered, Read, TimesOut, DropSession
  <2> QED
    BY <1>1, <2>1, EndedDialogue
<1>2. CASE ~Ended(d)
  <2>1. Connect(d) \/ AwaitRegistered(d) \/ Read(d)
    BY <1>2 DEF TimesOut, DropSession
  <2> QED
    BY <1>2, <2>1, ConnectDialogue, ConfirmedDialogue, ReadDialogue
<1> QED
  BY <1>1, <1>2, ConnectDialogue

LEMMA AskedIsSome ==
  ASSUME NEW d \in Device, NEW kind \in {"test", "pair"}
  PROVE  [device |-> d, kind |-> kind] # None
BY RelayAssumption

(* No other step answers anyone.                                           *)
LEMMA OnlyReadAnswers ==
  ASSUME IInv, [Next]_vars, NEW r \in Request, outcome[r] = "waiting", outcome'[r] = "answered"
  PROVE  \E d \in Device : Read(d) /\ ~Ended(d)
<1>1. outcome' # outcome
  OBVIOUS
<1>2. ASSUME NEW how \in {"refused", "lost", "timeout"}, NEW requests
      PROVE  outcome' # Resolve(requests, how)
  BY <1>2 DEF Resolve
<1>3. ASSUME NEW s \in Socket
      PROVE  ~(HandleFrame(s) \/ VerifyDone(s) \/ AuthTimeout(s) \/ CloseEvent(s) \/ Fail(s))
  BY <1>1 DEF HandleFrame, VerifyDone, AuthTimeout, CloseEvent, Fail, askVars
<1>4. ASSUME NEW d \in Device
      PROVE  ~Ended(d)
  BY <1>2 DEF Ended
<1>5. ASSUME NEW d \in Device
      PROVE  ~(Connect(d) \/ AwaitRegistered(d) \/ TimesOut(d) \/ DropSession(d) \/ DialTick(d))
  BY <1>1, <1>4 DEF Connect, AwaitRegistered, TimesOut, DropSession, DialTick, askVars
<1>6. ASSUME NEW d \in Device
      PROVE  ~Serve(d)
  BY <1>1, <1>2 DEF Serve
<1>7. ASSUME NEW d \in Device, NEW kind \in {"test", "pair"}
      PROVE  ~Ask(d, kind)
  BY DEF Ask, IInv, TypeOK
<1>8. ASSUME NEW q \in Request
      PROVE  ~GiveUp(q)
  BY <1>2 DEF GiveUp
<1>9. Next
  BY <1>1 DEF vars, askVars
<1> QED
  BY <1>3, <1>4, <1>5, <1>6, <1>7, <1>8, <1>9 DEF Next

(* A session sends; only its own queue grows.                              *)
LEMMA SendsDialogue ==
  ASSUME IInv, IInv', Confirmation, Dialogue, NEW d \in Device, phase[d] = "connected",
         UNCHANGED <<relayVars, down, dead, owner, phase, socket>>, Asked',
         \/ SendUp(socket[d], Devices) /\ UNCHANGED pending
         \/ \E r \in Request : /\ SendUp(socket[d], Test(r))
                               /\ pending' = [pending EXCEPT ![d] = Append(@, r)]
  PROVE  Dialogue'
<1> USE DEF IInv
<1> DEFINE s == socket[d]
<1>1. /\ s \in Socket /\ s # None /\ up[s] \in Seq(ToRelay) /\ down[s] \in Seq(FromRelay)
      /\ pending[d] \in Seq(Request)
  BY NoneIsNothing DEF TypeOK
<1>2. Conversing(d) /\ Owned
  BY DEF Dialogue, Turn
<1>3. /\ \A t \in Socket : t # s => up'[t] = up[t]
      /\ \A e \in Device : e # d => pending'[e] = pending[e]
  BY DEF SendUp, TypeOK
<1>4. Conversing(d)'
  <2>1. CASE SendUp(s, Devices) /\ UNCHANGED pending
    <3>1. s \notin dead => up'[s] = Append(up[s], Devices)
      BY <1>1, <2>1 DEF SendUp, TypeOK
    <3>2. InStep(down[s], up[s], pending[d]) => InStep(down[s], Append(up[s], Devices), pending[d])
      BY <1>1, AsksDevices
    <3> QED
      BY <1>2, <2>1, <3>1, <3>2 DEF Conversing, relayVars
  <2>2. CASE \E r \in Request : /\ SendUp(s, Test(r))
                                /\ pending' = [pending EXCEPT ![d] = Append(@, r)]
    <3>1. PICK r \in Request : /\ SendUp(s, Test(r))
                               /\ pending' = [pending EXCEPT ![d] = Append(@, r)]
      BY <2>2
    <3>2. pending'[d] = Append(pending[d], r)
      BY <3>1 DEF TypeOK
    <3>3. s \notin dead => up'[s] = Append(up[s], Test(r))
      BY <1>1, <3>1 DEF SendUp, TypeOK
    <3>4. /\ Answered(down[s], pending[d]) => Answered(down[s], Append(pending[d], r))
          /\ InStep(down[s], up[s], pending[d])
               => InStep(down[s], Append(up[s], Test(r)), Append(pending[d], r))
      BY <1>1, AsksTest
    <3> QED
      BY <1>2, <3>2, <3>3, <3>4 DEF Conversing, relayVars
  <2> QED
    BY <2>1, <2>2
<1>5. Turn(d)'
  BY <1>4 DEF Turn
<1>6. ASSUME NEW e \in Device, e # d
      PROVE  Turn(e)'
  <2>1. Turn(e) /\ phase'[e] = phase[e] /\ socket'[e] = socket[e] /\ pending'[e] = pending[e]
    BY <1>3, <1>6 DEF Dialogue
  <2>2. CASE phase[e] = "idle"
    BY <2>1, <2>2, SameTurn
  <2>3. CASE phase[e] # "idle"
    <3>1. socket[e] \in Socket /\ socket[e] # s
      BY <1>1, <1>2, <1>6, <2>3, NoneIsNothing, OwnSocket DEF TypeOK
    <3> QED
      BY <1>3, <2>1, <3>1, SameTurn DEF relayVars
  <2> QED
    BY <2>2, <2>3
<1> QED
  BY <1>2, <1>5, <1>6 DEF Dialogue, Owned

(* Steps that leave every connection alone.                                *)
LEMMA IdleDialogue ==
  ASSUME Dialogue, Asked',
         UNCHANGED <<relayVars, up, down, dead, owner, phase, socket, pending>>
  PROVE  Dialogue'
<1>1. ASSUME NEW d \in Device
      PROVE  Turn(d)'
  BY SameTurn DEF Dialogue, relayVars
<1> QED
  BY <1>1 DEF Dialogue, Owned

LEMMA ServeDialogue ==
  ASSUME IInv, IInv', Confirmation, Dialogue, NEW d \in Device, Serve(d)
  PROVE  Dialogue'
<1> USE DEF IInv
<1> DEFINE r == Head(outgoing[d])
           s == socket[d]
<1>1. /\ outgoing[d] # <<>> /\ outgoing' = [outgoing EXCEPT ![d] = Tail(@)]
      /\ phase[d] # "registering"
      /\ UNCHANGED <<relayVars, down, dead, owner, phase, socket, asked>>
  BY DEF Serve, clientVars
<1>2. outgoing[d] \in Seq(Request) /\ r \in Request /\ Asked
  BY <1>1 DEF TypeOK, Dialogue
<1>3. asked[r] # None /\ asked[r].kind \in {"test", "pair"}
  <2>1. 1 \in 1..Len(outgoing[d]) /\ r = outgoing[d][1]
    BY <1>1, <1>2
  <2>2. asked[r] # None
    BY <1>2, <2>1 DEF Asked
  <2> QED
    BY <1>2, <2>2 DEF TypeOK
<1>4. \A i \in 1..Len(Tail(outgoing[d])) :
        i + 1 \in 1..Len(outgoing[d]) /\ Tail(outgoing[d])[i] = outgoing[d][i + 1]
  <2>1. Len(outgoing[d]) \in Nat \ {0} /\ Len(Tail(outgoing[d])) = Len(outgoing[d]) - 1
    BY <1>1, <1>2
  <2>2. \A i \in 1..Len(Tail(outgoing[d])) : Tail(outgoing[d])[i] = outgoing[d][i + 1]
    BY <1>1, <1>2
  <2>3. \A i \in 1..Len(Tail(outgoing[d])) : i + 1 \in 1..Len(outgoing[d])
    BY <2>1
  <2> QED
    BY <2>2, <2>3
<1>5. \/ UNCHANGED <<up, pending, pairing>>
      \/ /\ phase[d] = "connected" /\ SendUp(s, Test(r)) /\ UNCHANGED pairing
         /\ pending' = [pending EXCEPT ![d] = Append(@, r)]
      \/ /\ phase[d] = "connected" /\ asked[r].kind = "pair" /\ SendUp(s, Devices)
         /\ pairing' = [pairing EXCEPT ![d] = r] /\ UNCHANGED pending
  <2>1. phase[d] \in {"idle", "connected"}
    BY <1>1 DEF TypeOK
  <2> QED
    BY <1>3, <2>1 DEF Serve
<1>6. ASSUME NEW e \in Device
      PROVE  /\ pairing'[e] # None => asked'[pairing'[e]] # None /\ asked'[pairing'[e]].kind = "pair"
             /\ \A i \in 1..Len(outgoing'[e]) : asked'[outgoing'[e][i]] # None
  <2>1. pairing'[e] = pairing[e] \/ (pairing'[e] = r /\ asked[r].kind = "pair")
    BY <1>5 DEF TypeOK
  <2>2. \A i \in 1..Len(outgoing'[e]) : asked[outgoing'[e][i]] # None
    <3>1. CASE e = d
      <4>1. outgoing'[e] = Tail(outgoing[d])
        BY <1>1, <3>1 DEF TypeOK
      <4> QED
        BY <1>2, <1>4, <4>1 DEF Asked
    <3>2. CASE e # d
      <4>1. outgoing'[e] = outgoing[e]
        BY <1>1, <3>2 DEF TypeOK
      <4> QED
        BY <1>2, <4>1 DEF Asked
    <3> QED
      BY <3>1, <3>2
  <2> QED
    BY <1>1, <1>2, <1>3, <2>1, <2>2 DEF Asked
<1>7. Asked'
  BY <1>6 DEF Asked
<1>8. CASE UNCHANGED <<up, pending, pairing>>
  BY <1>1, <1>7, <1>8, IdleDialogue
<1>9. CASE /\ phase[d] = "connected"
           /\ \/ SendUp(s, Devices) /\ UNCHANGED pending
              \/ SendUp(s, Test(r)) /\ pending' = [pending EXCEPT ![d] = Append(@, r)]
  BY <1>1, <1>2, <1>7, <1>9, SendsDialogue
<1> QED
  BY <1>5, <1>8, <1>9

LEMMA AskDialogue ==
  ASSUME IInv, Dialogue, NEW d \in Device, NEW kind \in {"test", "pair"}, Ask(d, kind)
  PROVE  Dialogue'
<1> USE DEF IInv
<1>1. PICK r \in Request :
        /\ asked' = [asked EXCEPT ![r] = [device |-> d, kind |-> kind]]
        /\ asked[r] = None
        /\ outgoing' = [outgoing EXCEPT ![d] = Append(@, r)]
  BY DEF Ask
<1>2. UNCHANGED <<relayVars, up, down, dead, owner, phase, socket, pending, pairing>>
  BY DEF Ask, linkVars, clientVars
<1>3. asked'[r] # None
  <2>1. asked'[r] = [device |-> d, kind |-> kind]
    BY <1>1 DEF TypeOK
  <2> QED
    BY <2>1, AskedIsSome
<1>4. \A q \in Request : asked[q] # None => asked'[q] = asked[q]
  BY <1>1 DEF TypeOK
<1>5. ASSUME NEW e \in Device
      PROVE  /\ pairing'[e] # None => asked'[pairing'[e]] # None /\ asked'[pairing'[e]].kind = "pair"
             /\ \A i \in 1..Len(outgoing'[e]) : asked'[outgoing'[e][i]] # None
  <2>1. /\ pairing[e] \in Request \cup {None} /\ outgoing[e] \in Seq(Request)
        /\ pairing[e] # None => asked[pairing[e]] # None /\ asked[pairing[e]].kind = "pair"
        /\ \A i \in 1..Len(outgoing[e]) : asked[outgoing[e][i]] # None
    BY DEF TypeOK, Dialogue, Asked
  <2>2. pairing'[e] # None => asked'[pairing'[e]] # None /\ asked'[pairing'[e]].kind = "pair"
    BY <1>2, <1>4, <2>1
  <2>3. \A i \in 1..Len(outgoing[e]) : asked'[outgoing[e][i]] # None
    BY <1>4, <2>1
  <2>4. outgoing'[e] \in {outgoing[e], Append(outgoing[e], r)}
    BY <1>1 DEF TypeOK
  <2>5. \A i \in 1..Len(Append(outgoing[e], r)) :
          \/ Append(outgoing[e], r)[i] = r
          \/ i \in 1..Len(outgoing[e]) /\ Append(outgoing[e], r)[i] = outgoing[e][i]
    BY <2>1
  <2> QED
    BY <1>3, <2>2, <2>3, <2>4, <2>5
<1>6. Asked'
  BY <1>5 DEF Asked
<1> QED
  BY <1>2, <1>6, IdleDialogue

LEMMA RequestDialogue ==
  ASSUME IInv, IInv', Confirmation, Dialogue,
         \/ \E d \in Device : \/ Serve(d) \/ DialTick(d)
                              \/ \E kind \in {"test", "pair"} : Ask(d, kind)
         \/ \E r \in Request : GiveUp(r)
         \/ UNCHANGED vars
  PROVE  Dialogue'
<1>1. ASSUME NEW d \in Device, DialTick(d)
      PROVE  Dialogue'
  <2>1. /\ phase[d] = "connected" /\ SendUp(socket[d], Devices)
        /\ UNCHANGED <<relayVars, down, dead, owner, phase, socket, outgoing, pending, pairing, asked>>
    BY <1>1 DEF DialTick, clientVars, askVars
  <2>2. Asked'
    BY <2>1 DEF Dialogue, Asked
  <2> QED
    BY <2>1, <2>2, SendsDialogue
<1>2. CASE (\E r \in Request : GiveUp(r)) \/ UNCHANGED vars
  <2>1. UNCHANGED <<relayVars, up, down, dead, owner, phase, socket, outgoing, pending, pairing, asked>>
    BY <1>2 DEF GiveUp, vars, linkVars, clientVars, askVars
  <2>2. Asked'
    BY <2>1 DEF Dialogue, Asked
  <2> QED
    BY <2>1, <2>2, IdleDialogue
<1> QED
  BY <1>1, <1>2, ServeDialogue, AskDialogue

LEMMA DialogueInvariant == Spec => []Dialogue
<1>1. Init => Dialogue
  BY DEF Init, Dialogue, Owned, Asked, Turn
<1>2. IInv /\ IInv' /\ Confirmation /\ Dialogue /\ [Next]_vars => Dialogue'
  BY SocketDialogue, SessionDialogue, RequestDialogue DEF Next
<1> QED
  BY <1>1, <1>2, IInvariant, ConfirmationInvariant, PTL DEF Spec

(* A caller that is told its test message was answered is told the answer  *)
(* to its own message: the answer the session read is to that very         *)
(* request, whoever gave up before, however connections are replaced, and  *)
(* whatever else is said on them.                                          *)
THEOREM AnswersAreOwn == Spec => AnswersMatch
<1> DEFINE Match == \A r \in Request :
             outcome[r] = "waiting" /\ outcome'[r] = "answered" /\ asked[r].kind = "test"
             => \E s \in Socket : /\ down[s] # <<>> /\ down'[s] = Tail(down[s])
                                  /\ Head(down[s]).type \in {"sent", "error"}
                                  /\ Head(down[s]).of = r
<1>1. IInv /\ Dialogue /\ [Next]_vars => Match
  <2>1. SUFFICES ASSUME IInv, Dialogue, [Next]_vars, NEW r \in Request,
                        outcome[r] = "waiting", outcome'[r] = "answered", asked[r].kind = "test"
                 PROVE  \E s \in Socket : /\ down[s] # <<>> /\ down'[s] = Tail(down[s])
                                          /\ Head(down[s]).type \in {"sent", "error"}
                                          /\ Head(down[s]).of = r
    OBVIOUS
  <2>2. \E d \in Device : Read(d) /\ ~Ended(d)
    BY <2>1, OnlyReadAnswers
  <2>3. PICK d \in Device : Read(d) /\ ~Ended(d)
    BY <2>2
  <2> DEFINE s == socket[d]
  <2>4. /\ phase[d] = "connected" /\ s \in Socket /\ down[s] # <<>>
        /\ down' = [down EXCEPT ![s] = Tail(@)]
    BY <2>1, <2>3, ReadCases
  <2>5. down'[s] = Tail(down[s])
    BY <2>1, <2>4 DEF IInv, TypeOK
  <2>6. Head(down[s]).type \in Answers
    <3>1. SUFFICES ASSUME Head(down[s]).type \notin Answers PROVE FALSE
      OBVIOUS
    <3>2. outcome' = outcome \/ OnDeviceList(d)
      BY <2>1, <2>3, <3>1, ReadCases
    <3>3. outcome' = Resolve({pairing[d]}, "answered")
      BY <2>1, <3>2 DEF OnDeviceList
    <3>4. r = pairing[d]
      BY <2>1, <3>3 DEF Resolve
    <3>5. r # None
      BY RelayAssumption
    <3> QED
      BY <2>1, <3>4, <3>5 DEF Dialogue, Asked
  <2>7. pending[d] # <<>> /\ Head(pending[d]) = Head(down[s]).of
    BY <2>1, <2>4, <2>6, AnswerIsNext
  <2>8. OnAnswer(d)
    BY <2>1, <2>3, <2>6, ReadCases
  <2>9. outcome' = Resolve({Head(pending[d])}, "answered")
    BY <2>7, <2>8 DEF OnAnswer
  <2>10. r = Head(pending[d])
    BY <2>1, <2>9 DEF Resolve
  <2> QED
    BY <2>4, <2>5, <2>6, <2>7, <2>10 DEF Answers
<1> QED
  BY <1>1, IInvariant, DialogueInvariant, PTL DEF Spec, AnswersMatch
================================================================================
