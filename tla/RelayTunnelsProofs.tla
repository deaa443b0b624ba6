-------------------------- MODULE RelayTunnelsProofs --------------------------
(***************************************************************************)
(* Proofs about RelayTunnels, for any devices and any number of tunnels,   *)
(* lost connections and sessions that end.                                 *)
(***************************************************************************)
EXTENDS RelayTunnels, TLAPS

(* The sessions of a device, by the key of their tunnel.                   *)
Tables == UNION {[keys -> Session] : keys \in SUBSET Key}

LEMMA TableFrom ==
  ASSUME NEW keys \in SUBSET Key, NEW T \in [keys -> Session]
  PROVE  T \in Tables
BY DEF Tables

LEMMA TableIs ==
  ASSUME NEW T \in Tables
  PROVE  /\ DOMAIN T \in SUBSET Key /\ T \in [DOMAIN T -> Session]
         /\ \A k \in DOMAIN T : k \in Key /\ T[k] \in Session
BY DEF Tables

LEMMA NoTable == <<>> \in Tables /\ DOMAIN <<>> = {}
<1>1. <<>> \in [{} -> Session]
  OBVIOUS
<1> QED
  BY <1>1, TableFrom

(* Frames that carry something say for which opening; only openings are    *)
(* told by the opener alone.                                               *)
Carried == {frame \in Frame : /\ frame.kind # "close" => frame.run # 0
                              /\ frame.kind = "open" => frame.opener}

Pump == [key: Key, run: 1..MaxOpens, at: 0..1, end: BOOLEAN]

Typed ==
  /\ link \in [Device -> {"on", "gone", "off"}]
  /\ up \in [Device -> Seq(Carried)] /\ down \in [Device -> Seq(Carried)]
  /\ nextId \in [Device -> 1..MaxOpens + 1]
  /\ \A d \in Device : nextId[d] <= opens + 1
  /\ tunnels \in [Device -> Tables]
  /\ \A d \in Device : link[d] # "on" => DOMAIN tunnels[d] = {}
  /\ pumped \in [Device -> Seq(Pump)]
  /\ opens \in 0..MaxOpens /\ faults \in 0..MaxFaults /\ ends \in 0..MaxEnds
  /\ usedIds \in [Device -> SUBSET (1..MaxOpens)]
  /\ {reused, broken} \subseteq BOOLEAN

LEMMA AfterIs ==
  ASSUME NEW n \in 0..1
  PROVE  /\ After(n) \in 0..1 /\ After(n) # n /\ After(After(n)) = n
         /\ After(0) = 1 /\ After(1) = 0
<1>1. After(0) = 1 /\ After(1) = 0
  BY DEF After
<1>2. n = 0 \/ n = 1
  OBVIOUS
<1> QED
  BY <1>1, <1>2

LEMMA EncodeType ==
  ASSUME NEW key \in Key, NEW run \in 0..MaxOpens, NEW at \in 0..1,
         NEW kind \in {"open", "data", "close"},
         kind # "close" => run # 0, kind = "open" => key.openedHere
  PROVE  Encode(kind, key, run, at) \in Carried
BY DEF Encode, Key, Frame, Carried

LEMMA DecodeType ==
  ASSUME NEW frame \in Carried
  PROVE  Decode(frame) \in Key
BY DEF Decode, Carried, Frame, Key

LEMMA CreateType ==
  ASSUME tunnels \in [Device -> Tables], NEW d \in Device, NEW key \in Key,
         NEW run \in 1..MaxOpens, Create(d, key, run)
  PROVE  /\ tunnels' \in [Device -> Tables]
         /\ \A e \in Device : e # d => tunnels'[e] = tunnels[e]
         /\ \A k : k \in DOMAIN tunnels'[d] <=> k \in DOMAIN tunnels[d] \/ k = key
         /\ \A k \in DOMAIN tunnels[d] : k # key => tunnels'[d][k] = tunnels[d][k]
         /\ tunnels'[d][key] = [run |-> run, ended |-> FALSE, wrote |-> 0, read |-> 0]
<1> DEFINE new == [run |-> run, ended |-> FALSE, wrote |-> 0, read |-> 0]
           T == [k \in DOMAIN tunnels[d] \cup {key} |-> IF k = key THEN new ELSE tunnels[d][k]]
<1>1. new \in Session
  BY DEF Session
<1>2. DOMAIN tunnels[d] \in SUBSET Key /\ \A k \in DOMAIN tunnels[d] : tunnels[d][k] \in Session
  BY TableIs
<1>3. tunnels' = [tunnels EXCEPT ![d] = T]
  BY DEF Create
<1>4. T \in [DOMAIN tunnels[d] \cup {key} -> Session]
  BY <1>1, <1>2
<1>5. T \in Tables
  BY <1>2, <1>4, TableFrom
<1>6. tunnels'[d] = T /\ \A e \in Device : e # d => tunnels'[e] = tunnels[e]
  BY <1>3
<1>7. tunnels' \in [Device -> Tables]
  BY <1>3, <1>5
<1> QED
  BY <1>6, <1>7

LEMMA WithoutType ==
  ASSUME tunnels \in [Device -> Tables], NEW d \in Device, NEW key,
         tunnels' = Without(d, key)
  PROVE  /\ tunnels' \in [Device -> Tables]
         /\ \A e \in Device : e # d => tunnels'[e] = tunnels[e]
         /\ \A k : k \in DOMAIN tunnels'[d] <=> k \in DOMAIN tunnels[d] /\ k # key
         /\ \A k \in DOMAIN tunnels'[d] : tunnels'[d][k] = tunnels[d][k]
<1> DEFINE keys == DOMAIN tunnels[d] \ {key}
           T == [k \in keys |-> tunnels[d][k]]
<1>1. DOMAIN tunnels[d] \in SUBSET Key /\ \A k \in DOMAIN tunnels[d] : tunnels[d][k] \in Session
  BY TableIs
<1>2. tunnels' = [tunnels EXCEPT ![d] = T]
  BY DEF Without, Restrict
<1>3. T \in [keys -> Session] /\ keys \in SUBSET Key
  BY <1>1
<1>4. T \in Tables
  BY <1>3, TableFrom
<1>5. tunnels'[d] = T /\ \A e \in Device : e # d => tunnels'[e] = tunnels[e]
  BY <1>2
<1>6. tunnels' \in [Device -> Tables]
  BY <1>2, <1>4
<1> QED
  BY <1>5, <1>6

(* A step within one session.                                              *)
LEMMA SessionStepType ==
  ASSUME tunnels \in [Device -> Tables], NEW d \in Device,
         NEW key \in DOMAIN tunnels[d], NEW new \in Session,
         tunnels' = [tunnels EXCEPT ![d] = [tunnels[d] EXCEPT ![key] = new]]
  PROVE  /\ tunnels' \in [Device -> Tables]
         /\ \A e \in Device : DOMAIN tunnels'[e] = DOMAIN tunnels[e]
         /\ \A e \in Device : \A k \in DOMAIN tunnels[e] :
              tunnels'[e][k] = IF e = d /\ k = key THEN new ELSE tunnels[e][k]
<1> DEFINE T == [tunnels[d] EXCEPT ![key] = new]
<1>1. DOMAIN tunnels[d] \in SUBSET Key /\ tunnels[d] \in [DOMAIN tunnels[d] -> Session]
  BY TableIs
<1>2. T \in [DOMAIN tunnels[d] -> Session]
  BY <1>1
<1>3. T \in Tables
  BY <1>1, <1>2, TableFrom
<1>4. tunnels'[d] = T /\ \A e \in Device : e # d => tunnels'[e] = tunnels[e]
  OBVIOUS
<1>5. tunnels' \in [Device -> Tables]
  BY <1>3
<1>6. DOMAIN T = DOMAIN tunnels[d]
      /\ \A k \in DOMAIN tunnels[d] : T[k] = IF k = key THEN new ELSE tunnels[d][k]
  OBVIOUS
<1> QED
  BY <1>4, <1>5, <1>6

LEMMA Appended ==
  ASSUME NEW S, NEW q \in [Device -> Seq(S)], NEW d \in Device, NEW m \in S
  PROVE  LET q2 == [q EXCEPT ![d] = Append(@, m)]
         IN  /\ q2 \in [Device -> Seq(S)]
             /\ \A e \in Device : e # d => q2[e] = q[e]
             /\ \A i : i \in DOMAIN q2[d] <=> i \in DOMAIN q[d] \/ i = Len(q[d]) + 1
             /\ \A i \in DOMAIN q[d] : q2[d][i] = q[d][i]
             /\ q2[d][Len(q[d]) + 1] = m
             /\ \A i \in DOMAIN q[d] : i \in 1..Len(q[d])
             /\ Len(q[d]) \in Nat
<1> DEFINE q2 == [q EXCEPT ![d] = Append(@, m)]
<1>1. q2[d] = Append(q[d], m) /\ \A e \in Device : e # d => q2[e] = q[e]
  OBVIOUS
<1>2. Append(q[d], m) \in Seq(S) /\ Len(Append(q[d], m)) = Len(q[d]) + 1 /\ Len(q[d]) \in Nat
  OBVIOUS
<1>3. q2 \in [Device -> Seq(S)]
  BY <1>2
<1>4. DOMAIN q[d] = 1..Len(q[d]) /\ DOMAIN Append(q[d], m) = 1..(Len(q[d]) + 1)
  BY <1>2
<1>5. \A i \in 1..Len(q[d]) : Append(q[d], m)[i] = q[d][i]
  OBVIOUS
<1>6. Append(q[d], m)[Len(q[d]) + 1] = m
  OBVIOUS
<1>7. \A i : i \in 1..(Len(q[d]) + 1) <=> i \in 1..Len(q[d]) \/ i = Len(q[d]) + 1
  BY <1>2
<1> QED
  BY <1>1, <1>2, <1>3, <1>4, <1>5, <1>6, <1>7

LEMMA Popped ==
  ASSUME NEW S, NEW q \in [Device -> Seq(S)], NEW d \in Device, q[d] # <<>>
  PROVE  LET q2 == [q EXCEPT ![d] = Tail(@)]
         IN  /\ q2 \in [Device -> Seq(S)]
             /\ \A e \in Device : e # d => q2[e] = q[e]
             /\ \A i \in Nat : i \in DOMAIN q2[d] <=> i # 0 /\ i + 1 \in DOMAIN q[d]
             /\ \A i \in DOMAIN q2[d] : q2[d][i] = q[d][i + 1]
             /\ 1 \in DOMAIN q[d] /\ Head(q[d]) = q[d][1] /\ Head(q[d]) \in S
<1> DEFINE q2 == [q EXCEPT ![d] = Tail(@)]
<1>1. q2[d] = Tail(q[d]) /\ \A e \in Device : e # d => q2[e] = q[e]
  OBVIOUS
<1>2. Tail(q[d]) \in Seq(S) /\ Len(Tail(q[d])) = Len(q[d]) - 1 /\ Len(q[d]) \in Nat \ {0}
  OBVIOUS
<1>3. q2 \in [Device -> Seq(S)]
  BY <1>2
<1>4. DOMAIN q[d] = 1..Len(q[d]) /\ DOMAIN Tail(q[d]) = 1..(Len(q[d]) - 1)
  BY <1>2
<1>5. \A i \in 1..(Len(q[d]) - 1) : Tail(q[d])[i] = q[d][i + 1]
  OBVIOUS
<1>6. Head(q[d]) = q[d][1] /\ Head(q[d]) \in S
  OBVIOUS
<1>7. \A i \in Nat : i \in 1..(Len(q[d]) - 1) <=> i # 0 /\ i + 1 \in 1..Len(q[d])
  BY <1>2
<1>8. 1 \in 1..Len(q[d])
  BY <1>2
<1> QED
  BY <1>1, <1>3, <1>4, <1>5, <1>6, <1>7, <1>8

LEMMA OpenType ==
  ASSUME Typed, NEW d \in Device, NEW peer \in Device, Open(d, peer)
  PROVE  Typed'
<1> DEFINE key == [peer |-> peer, id |-> nextId[d], openedHere |-> TRUE]
<1>1. opens + 1 \in 1..MaxOpens /\ nextId[d] \in 1..MaxOpens
  <2>1. opens \in 0..MaxOpens /\ opens < MaxOpens
    BY DEF Typed, Open
  <2>2. nextId[d] \in 1..MaxOpens + 1 /\ nextId[d] <= opens + 1
    BY DEF Typed
  <2>3. MaxOpens \in Nat
    BY TunnelsAssumption
  <2> QED
    BY <2>1, <2>2, <2>3
<1>2. key \in Key
  BY <1>1 DEF Key
<1>3. Encode("open", key, opens + 1, 0) \in Carried
  BY <1>1, <1>2, EncodeType
<1>4. Create(d, key, opens + 1) /\ link[d] = "on"
      /\ up' = [up EXCEPT ![d] = Append(@, Encode("open", key, opens + 1, 0))]
  BY DEF Open
<1>5. tunnels' \in [Device -> Tables] /\ \A e \in Device : e # d => tunnels'[e] = tunnels[e]
  BY <1>1, <1>2, <1>4, CreateType DEF Typed
<1>6. up' \in [Device -> Seq(Carried)]
  BY <1>3, <1>4, Appended DEF Typed
<1>7. /\ nextId' \in [Device -> 1..MaxOpens + 1]
      /\ \A e \in Device : nextId'[e] <= opens' + 1
      /\ opens' \in 0..MaxOpens
  <2>1. nextId' = [nextId EXCEPT ![d] = nextId[d] + 1] /\ opens' = opens + 1
    BY DEF Open
  <2>2. nextId[d] + 1 \in 1..MaxOpens + 1 /\ nextId[d] <= opens + 1 /\ opens \in Nat /\ MaxOpens \in Nat
    <3>1. MaxOpens \in Nat
      BY TunnelsAssumption
    <3>2. opens \in 0..MaxOpens /\ nextId[d] <= opens + 1
      BY DEF Typed
    <3> QED
      BY <1>1, <3>1, <3>2
  <2>3. nextId' \in [Device -> 1..MaxOpens + 1]
    BY <2>1, <2>2 DEF Typed
  <2>4. ASSUME NEW e \in Device PROVE nextId'[e] <= opens' + 1
    <3>1. nextId[e] \in 1..MaxOpens + 1 /\ nextId[e] <= opens + 1
      BY DEF Typed
    <3>2. nextId'[e] = IF e = d THEN nextId[d] + 1 ELSE nextId[e]
      BY <2>1 DEF Typed
    <3> QED
      BY <2>1, <2>2, <3>1, <3>2
  <2> QED
    BY <1>1, <2>1, <2>2, <2>3, <2>4
<1>8. usedIds' \in [Device -> SUBSET (1..MaxOpens)] /\ reused' \in BOOLEAN
  BY <1>1 DEF Open, Typed
<1>9. UNCHANGED <<link, down, pumped, faults, ends, broken>>
  BY DEF Open
<1>10. \A e \in Device : link'[e] # "on" => DOMAIN tunnels'[e] = {}
  BY <1>4, <1>5, <1>9 DEF Typed
<1> QED
  BY <1>5, <1>6, <1>7, <1>8, <1>9, <1>10 DEF Typed

LEMMA WriteType ==
  ASSUME Typed, NEW d \in Device, NEW key \in DOMAIN tunnels[d],
         Write(d, key) \/ EndSession(d, key)
  PROVE  Typed'
<1>1. tunnels[d] \in Tables /\ key \in Key /\ tunnels[d][key] \in Session
  BY TableIs DEF Typed
<1>2. tunnels[d][key] = [run |-> tunnels[d][key].run, ended |-> tunnels[d][key].ended,
                         wrote |-> tunnels[d][key].wrote, read |-> tunnels[d][key].read]
      /\ tunnels[d][key].run \in 1..MaxOpens /\ tunnels[d][key].wrote \in 0..1
      /\ tunnels[d][key].ended \in BOOLEAN /\ tunnels[d][key].read \in 0..1
  BY <1>1 DEF Session
<1>3. PICK new \in Session, p \in Pump :
        /\ tunnels' = [tunnels EXCEPT ![d] = [tunnels[d] EXCEPT ![key] = new]]
        /\ pumped' = [pumped EXCEPT ![d] = Append(@, p)]
  <2>1. CASE Write(d, key)
    <3> DEFINE at == After(tunnels[d][key].wrote)
               new == [tunnels[d][key] EXCEPT !.wrote = at]
               p == [key |-> key, run |-> tunnels[d][key].run, at |-> at, end |-> FALSE]
    <3>1. at \in 0..1
      BY <1>2, AfterIs
    <3>2. new \in Session /\ p \in Pump
      BY <1>1, <1>2, <3>1 DEF Session, Pump
    <3>3. /\ tunnels' = [tunnels EXCEPT ![d] = [tunnels[d] EXCEPT ![key] = new]]
          /\ pumped' = [pumped EXCEPT ![d] = Append(@, p)]
      BY <2>1 DEF Write
    <3> QED
      BY <3>2, <3>3
  <2>2. CASE EndSession(d, key)
    <3> DEFINE new == [tunnels[d][key] EXCEPT !.ended = TRUE]
               p == [key |-> key, run |-> tunnels[d][key].run,
                     at |-> tunnels[d][key].wrote, end |-> TRUE]
    <3>1. new \in Session /\ p \in Pump
      BY <1>1, <1>2 DEF Session, Pump
    <3>2. /\ tunnels' = [tunnels EXCEPT ![d] = [tunnels[d] EXCEPT ![key] = new]]
          /\ pumped' = [pumped EXCEPT ![d] = Append(@, p)]
      BY <2>2 DEF EndSession
    <3> QED
      BY <3>1, <3>2
  <2> QED
    BY <2>1, <2>2
<1>4. /\ tunnels' \in [Device -> Tables]
      /\ \A e \in Device : DOMAIN tunnels'[e] = DOMAIN tunnels[e]
  BY <1>3, SessionStepType DEF Typed
<1>5. pumped' \in [Device -> Seq(Pump)]
  BY <1>3, Appended DEF Typed
<1>6. UNCHANGED <<link, up, down, nextId, opens, faults, usedIds, reused, broken>>
  BY DEF Write, EndSession
<1>7. ends' \in 0..MaxEnds
  BY TunnelsAssumption DEF Write, EndSession, Typed
<1> QED
  BY <1>4, <1>5, <1>6, <1>7 DEF Typed

LEMMA OnPumpedType ==
  ASSUME Typed, NEW d \in Device, OnPumped(d)
  PROVE  Typed'
<1> DEFINE p == Head(pumped[d])
<1>1. pumped[d] # <<>> /\ pumped' = [pumped EXCEPT ![d] = Tail(@)]
      /\ UNCHANGED <<link, down, nextId, opens, faults, ends, usedIds, reused, broken>>
  BY DEF OnPumped
<1>2. p \in Pump /\ pumped' \in [Device -> Seq(Pump)]
  BY <1>1, Popped DEF Typed
<1>3. p.key \in Key /\ p.run \in 0..MaxOpens /\ p.run # 0 /\ p.at \in 0..1
  BY <1>2 DEF Pump
<1>4. up' \in [Device -> Seq(Carried)] /\ tunnels' \in [Device -> Tables]
      /\ \A e \in Device : DOMAIN tunnels'[e] \subseteq DOMAIN tunnels[e]
  <2>1. CASE p.key \notin DOMAIN tunnels[d]
    BY <2>1 DEF OnPumped, Typed
  <2>2. CASE p.key \in DOMAIN tunnels[d] /\ p.end
    <3>1. tunnels' = Without(d, p.key)
          /\ up' = [up EXCEPT ![d] = Append(@, Encode("close", p.key, p.run, p.at))]
      BY <2>2 DEF OnPumped
    <3>2. Encode("close", p.key, p.run, p.at) \in Carried
      BY <1>3, EncodeType
    <3>3. tunnels' \in [Device -> Tables]
          /\ \A e \in Device : DOMAIN tunnels'[e] \subseteq DOMAIN tunnels[e]
      BY <3>1, WithoutType DEF Typed
    <3> QED
      BY <3>1, <3>2, <3>3, Appended DEF Typed
  <2>3. CASE p.key \in DOMAIN tunnels[d] /\ ~p.end
    <3>1. tunnels' = tunnels
          /\ up' = [up EXCEPT ![d] = Append(@, Encode("data", p.key, p.run, p.at))]
      BY <2>3 DEF OnPumped
    <3>2. Encode("data", p.key, p.run, p.at) \in Carried
      BY <1>3, EncodeType
    <3> QED
      BY <3>1, <3>2, Appended DEF Typed
  <2> QED
    BY <2>1, <2>2, <2>3
<1>5. \A e \in Device : link'[e] # "on" => DOMAIN tunnels'[e] = {}
  BY <1>1, <1>4 DEF Typed
<1> QED
  BY <1>1, <1>2, <1>4, <1>5 DEF Typed

LEMMA ReturnedIs ==
  ASSUME NEW frame \in Carried, NEW opener \in BOOLEAN
  PROVE  LET back == [frame EXCEPT !.kind = "close", !.opener = opener, !.run = 0, !.at = 0]
         IN  back \in Frame /\ back.kind = "close" /\ back.run = 0
<1>1. frame \in Frame
  BY DEF Carried
<1>2. 0 \in 0..MaxOpens /\ 0 \in 0..1
  BY TunnelsAssumption
<1> QED
  BY <1>1, <1>2 DEF Frame

LEMMA ForwardEffect ==
  ASSUME Typed, NEW d \in Device, Forward(d)
  PROVE  LET frame == Head(up[d])
         IN  /\ frame \in Carried /\ frame.device \in Device
             /\ up[d] # <<>> /\ up' = [up EXCEPT ![d] = Tail(@)]
             /\ UNCHANGED <<link, nextId, tunnels, pumped, opens, faults, ends, usedIds, reused, broken>>
             /\ \/ /\ link[frame.device] = "on"
                   /\ [frame EXCEPT !.device = d] \in Carried
                   /\ down' = [down EXCEPT ![frame.device] = Append(@, [frame EXCEPT !.device = d])]
                \/ /\ link[frame.device] # "on"
                   /\ down' = down
                \/ /\ link[frame.device] # "on"
                   /\ Undeliverable(frame) \in Carried /\ Undeliverable(frame).run = 0
                   /\ down' = [down EXCEPT ![d] = Append(@, Undeliverable(frame))]
<1> DEFINE frame == Head(up[d])
<1>1. /\ up[d] # <<>> /\ up' = [up EXCEPT ![d] = Tail(@)]
      /\ UNCHANGED <<link, nextId, tunnels, pumped, opens, faults, ends, usedIds, reused, broken>>
      /\ down' = CASE link[frame.device] = "on" ->
                        [down EXCEPT ![frame.device] = Append(@, [frame EXCEPT !.device = d])]
                   [] link[frame.device] = "gone" -> down
                   [] link[frame.device] = "off" ->
                        IF frame.kind = "close" THEN down
                        ELSE [down EXCEPT ![d] = Append(@, Undeliverable(frame))]
  BY DEF Forward
<1>2. frame \in Carried
  BY <1>1, Popped DEF Typed
<1> HIDE DEF frame
<1>3. frame.device \in Device /\ link[frame.device] \in {"on", "gone", "off"}
  BY <1>2 DEF Carried, Frame, Typed
<1>4. [frame EXCEPT !.device = d] \in Carried
      /\ Undeliverable(frame) \in Carried /\ Undeliverable(frame).run = 0
  <2>1. [frame EXCEPT !.device = d] \in Carried
    BY <1>2 DEF Carried, Frame
  <2>2. (~frame.opener) \in BOOLEAN
    OBVIOUS
  <2>3. Undeliverable(frame) =
          [frame EXCEPT !.kind = "close", !.opener = ~frame.opener, !.run = 0, !.at = 0]
    BY Zenon DEF Undeliverable
  <2>4. Undeliverable(frame) \in Frame /\ Undeliverable(frame).kind = "close"
        /\ Undeliverable(frame).run = 0
    <3>1. PICK opener \in BOOLEAN : opener = ~frame.opener
      BY <2>2
    <3>2. Undeliverable(frame) =
            [frame EXCEPT !.kind = "close", !.opener = opener, !.run = 0, !.at = 0]
      BY <2>3, <3>1, Zenon
    <3> DEFINE back == [frame EXCEPT !.kind = "close", !.opener = opener, !.run = 0, !.at = 0]
    <3>3. back \in Frame /\ back.kind = "close" /\ back.run = 0
      BY <1>2, ReturnedIs
    <3> HIDE DEF back
    <3>4. Undeliverable(frame) = back
      BY <3>2 DEF back
    <3> QED
      BY <3>3, <3>4
  <2> QED
    BY <2>1, <2>4 DEF Carried
<1>5. CASE link[frame.device] = "on"
  <2>1. down' = [down EXCEPT ![frame.device] = Append(@, [frame EXCEPT !.device = d])]
    BY <1>1, <1>5
  <2> QED
    BY <1>1, <1>2, <1>3, <1>4, <1>5, <2>1 DEF frame
<1>6. CASE link[frame.device] = "gone"
  <2>1. down' = down
    BY <1>1, <1>6
  <2> QED
    BY <1>1, <1>2, <1>3, <1>6, <2>1 DEF frame
<1>7. CASE link[frame.device] = "off"
  <2>1. down' = down \/ down' = [down EXCEPT ![d] = Append(@, Undeliverable(frame))]
    BY <1>1, <1>7
  <2> QED
    BY <1>1, <1>2, <1>3, <1>4, <1>7, <2>1 DEF frame
<1> QED
  BY <1>3, <1>5, <1>6, <1>7

LEMMA ReceiveEffect ==
  ASSUME Typed, NEW d \in Device, Receive(d)
  PROVE  LET frame == Head(down[d])
             key   == Decode(frame)
         IN  /\ frame \in Carried /\ key \in Key
             /\ down[d] # <<>> /\ down' = [down EXCEPT ![d] = Tail(@)]
             /\ link[d] = "on"
             /\ UNCHANGED <<link, nextId, pumped, opens, faults, ends, usedIds, reused>>
             /\ \/ /\ frame.kind = "open" /\ frame.opener /\ frame.run \in 1..MaxOpens
                   /\ Create(d, key, frame.run)
                   /\ UNCHANGED <<up, broken>>
                \/ /\ frame.kind = "data" /\ (key \in DOMAIN tunnels[d] => tunnels[d][key].ended)
                   /\ \/ Refuse(d, key)
                      \/ UNCHANGED <<up, tunnels, broken>>
                \/ /\ frame.kind = "data" /\ key \in DOMAIN tunnels[d] /\ ~tunnels[d][key].ended
                   /\ tunnels' = [tunnels EXCEPT ![d] =
                        [tunnels[d] EXCEPT ![key] = [tunnels[d][key] EXCEPT !.read = frame.at]]]
                   /\ up' = up
                   /\ broken' = (broken \/ frame.run # tunnels[d][key].run
                                        \/ frame.at # After(tunnels[d][key].read))
                \/ /\ frame.kind = "close" /\ OnClose(d, frame)
<1> DEFINE frame == Head(down[d])
           key   == Decode(frame)
<1>1. /\ down[d] # <<>> /\ down' = [down EXCEPT ![d] = Tail(@)] /\ link[d] = "on"
      /\ UNCHANGED <<link, nextId, pumped, opens, faults, ends, usedIds, reused>>
      /\ CASE frame.kind = "open"  -> OnOpen(d, frame)
           [] frame.kind = "data"  -> OnData(d, frame)
           [] frame.kind = "close" -> OnClose(d, frame)
  BY DEF Receive
<1>2. frame \in Carried
  BY <1>1, Popped DEF Typed
<1>3. key \in Key
  BY <1>2, DecodeType
<1> HIDE DEF frame
<1>4. CASE frame.kind = "open"
  <2>1. OnOpen(d, frame)
    BY <1>1, <1>4
  <2>2. frame.opener /\ frame.run \in 1..MaxOpens
    BY <1>2, <1>4, TunnelsAssumption DEF Carried, Frame
  <2>3. Create(d, key, frame.run) /\ UNCHANGED <<up, broken>>
    BY <2>1, <2>2 DEF OnOpen
  <2> QED
    BY <1>1, <1>2, <1>3, <1>4, <2>2, <2>3 DEF frame
<1>5. CASE frame.kind = "data"
  <2>1. OnData(d, frame)
    BY <1>1, <1>5
  <2>2. CASE key \notin DOMAIN tunnels[d]
    <3>1. Refuse(d, key)
      BY <2>1, <2>2 DEF OnData
    <3> QED
      BY <1>1, <1>2, <1>3, <1>5, <2>2, <3>1 DEF frame
  <2>3. CASE key \in DOMAIN tunnels[d] /\ tunnels[d][key].ended
    <3>1. Refuse(d, key) \/ UNCHANGED <<up, tunnels, broken>>
      BY <2>1, <2>3 DEF OnData
    <3> QED
      BY <1>1, <1>2, <1>3, <1>5, <2>3, <3>1 DEF frame
  <2>4. CASE key \in DOMAIN tunnels[d] /\ ~tunnels[d][key].ended
    <3>1. /\ tunnels' = [tunnels EXCEPT ![d][key].read = frame.at]
          /\ broken' = (broken \/ frame.run # tunnels[d][key].run
                               \/ frame.at # After(tunnels[d][key].read))
          /\ up' = up
      BY <2>1, <2>4 DEF OnData
    <3>2. tunnels' = [tunnels EXCEPT ![d] =
            [tunnels[d] EXCEPT ![key] = [tunnels[d][key] EXCEPT !.read = frame.at]]]
      BY <3>1
    <3> QED
      BY <1>1, <1>2, <1>3, <1>5, <2>4, <3>1, <3>2 DEF frame
  <2> QED
    BY <2>2, <2>3, <2>4
<1>6. CASE frame.kind = "close"
  <2>1. OnClose(d, frame)
    BY <1>1, <1>6
  <2> QED
    BY <1>1, <1>2, <1>3, <1>6, <2>1 DEF frame
<1> QED
  BY <1>2, <1>4, <1>5, <1>6 DEF Carried, Frame

LEMMA ForwardType ==
  ASSUME Typed, NEW d \in Device, Forward(d)
  PROVE  Typed'
<1>1. up[d] # <<>> /\ up' = [up EXCEPT ![d] = Tail(@)]
      /\ UNCHANGED <<link, nextId, tunnels, pumped, opens, faults, ends, usedIds, reused, broken>>
  BY ForwardEffect
<1>2. up' \in [Device -> Seq(Carried)]
  BY <1>1, Popped DEF Typed
<1> DEFINE frame == Head(up[d])
<1>3. /\ frame.device \in Device
      /\ \/ down' = down
         \/ /\ [frame EXCEPT !.device = d] \in Carried
            /\ down' = [down EXCEPT ![frame.device] = Append(@, [frame EXCEPT !.device = d])]
         \/ /\ Undeliverable(frame) \in Carried
            /\ down' = [down EXCEPT ![d] = Append(@, Undeliverable(frame))]
  BY ForwardEffect
<1> HIDE DEF frame
<1>4. down' \in [Device -> Seq(Carried)]
  <2>1. down \in [Device -> Seq(Carried)]
    BY DEF Typed
  <2>2. CASE /\ [frame EXCEPT !.device = d] \in Carried
             /\ down' = [down EXCEPT ![frame.device] = Append(@, [frame EXCEPT !.device = d])]
    BY <1>3, <2>1, <2>2, Appended
  <2>3. CASE /\ Undeliverable(frame) \in Carried
             /\ down' = [down EXCEPT ![d] = Append(@, Undeliverable(frame))]
    BY <2>1, <2>3, Appended
  <2> QED
    BY <1>3, <2>1, <2>2, <2>3
<1> QED
  BY <1>1, <1>2, <1>4 DEF Typed

LEMMA ReceiveType ==
  ASSUME Typed, NEW d \in Device, Receive(d)
  PROVE  Typed'
<1> DEFINE frame == Head(down[d])
           key   == Decode(frame)
<1>1. /\ frame \in Carried /\ key \in Key
      /\ down[d] # <<>> /\ down' = [down EXCEPT ![d] = Tail(@)]
      /\ link[d] = "on"
      /\ UNCHANGED <<link, nextId, pumped, opens, faults, ends, usedIds, reused>>
  BY ReceiveEffect
<1>2. down' \in [Device -> Seq(Carried)]
  BY <1>1, Popped DEF Typed
<1>3. up' \in [Device -> Seq(Carried)] /\ broken' \in BOOLEAN
      /\ tunnels' \in [Device -> Tables]
      /\ \A e \in Device : e # d => tunnels'[e] = tunnels[e]
  <2>0. tunnels \in [Device -> Tables] /\ up \in [Device -> Seq(Carried)] /\ broken \in BOOLEAN
    BY DEF Typed
  <2>1. CASE Create(d, key, frame.run) /\ frame.run \in 1..MaxOpens /\ UNCHANGED <<up, broken>>
    BY <1>1, <2>0, <2>1, CreateType
  <2>2. CASE Refuse(d, key)
    <3>1. Encode("close", key, 0, 0) \in Carried
      BY <1>1, TunnelsAssumption, EncodeType
    <3>2. up' \in [Device -> Seq(Carried)]
      BY <2>0, <2>2, <3>1, Appended DEF Refuse
    <3> QED
      BY <2>0, <2>2, <3>2, WithoutType DEF Refuse
  <2>3. CASE UNCHANGED <<up, tunnels, broken>>
    BY <2>0, <2>3
  <2>4. CASE /\ key \in DOMAIN tunnels[d]
             /\ tunnels' = [tunnels EXCEPT ![d] =
                  [tunnels[d] EXCEPT ![key] = [tunnels[d][key] EXCEPT !.read = frame.at]]]
             /\ up' = up
             /\ broken' = (broken \/ frame.run # tunnels[d][key].run
                                  \/ frame.at # After(tunnels[d][key].read))
    <3>1. tunnels[d][key] \in Session
      BY <2>0, <2>4, TableIs
    <3>2. frame.at \in 0..1
      BY <1>1 DEF Carried, Frame
    <3>3. [tunnels[d][key] EXCEPT !.read = frame.at] \in Session
      BY <3>1, <3>2 DEF Session
    <3>4. tunnels' \in [Device -> Tables]
      BY <2>0, <2>4, <3>3, SessionStepType
    <3>5. \A e \in Device : e # d => tunnels'[e] = tunnels[e]
      BY <2>0, <2>4
    <3> QED
      BY <2>0, <2>4, <3>4, <3>5
  <2>5. CASE OnClose(d, frame)
    <3>1. tunnels' = Without(d, key) /\ up' = up /\ broken' \in BOOLEAN
      BY <2>0, <2>5 DEF OnClose
    <3> QED
      BY <2>0, <3>1, WithoutType
  <2> QED
    BY <2>1, <2>2, <2>3, <2>4, <2>5, ReceiveEffect
<1>4. \A e \in Device : link'[e] # "on" => DOMAIN tunnels'[e] = {}
  BY <1>1, <1>3 DEF Typed
<1> QED
  BY <1>1, <1>2, <1>3, <1>4 DEF Typed

LEMMA LinkType ==
  ASSUME Typed, NEW d \in Device, Disconnect(d) \/ RelayNotices(d) \/ Reconnect(d)
  PROVE  Typed'
<1>1. CASE Disconnect(d)
  <2>1. <<>> \in Seq(Carried) /\ <<>> \in Seq(Pump)
    OBVIOUS
  <2>2. /\ link' = [link EXCEPT ![d] = "gone"]
        /\ up' = [up EXCEPT ![d] = <<>>] /\ down' = [down EXCEPT ![d] = <<>>]
        /\ tunnels' = [tunnels EXCEPT ![d] = <<>>]
        /\ pumped' = [pumped EXCEPT ![d] = <<>>]
        /\ faults < MaxFaults /\ faults' = faults + 1
        /\ UNCHANGED <<nextId, opens, ends, usedIds, reused, broken>>
    BY <1>1 DEF Disconnect
  <2>3. up' \in [Device -> Seq(Carried)] /\ down' \in [Device -> Seq(Carried)]
    BY <2>1, <2>2 DEF Typed
  <2>4. pumped' \in [Device -> Seq(Pump)]
    BY <2>1, <2>2 DEF Typed
  <2>5. tunnels' \in [Device -> Tables]
    BY <2>2, NoTable DEF Typed
  <2>6. \A e \in Device : link'[e] # "on" => DOMAIN tunnels'[e] = {}
    <3>1. DOMAIN tunnels'[d] = {}
      BY <2>2, NoTable DEF Typed
    <3>2. \A e \in Device : e # d => tunnels'[e] = tunnels[e] /\ link'[e] = link[e]
      BY <2>2 DEF Typed
    <3> QED
      BY <3>1, <3>2 DEF Typed
  <2>7. faults' \in 0..MaxFaults
    BY <2>2, TunnelsAssumption DEF Typed
  <2>8. link' \in [Device -> {"on", "gone", "off"}]
    BY <2>2 DEF Typed
  <2> QED
    BY <2>2, <2>3, <2>4, <2>5, <2>6, <2>7, <2>8 DEF Typed
<1>2. CASE RelayNotices(d) \/ Reconnect(d)
  <2>1. /\ UNCHANGED <<up, down, tunnels, pumped, opens, faults, ends, usedIds, reused, broken>>
        /\ link[d] # "on"
        /\ link' = [link EXCEPT ![d] = "on"] \/ link' = [link EXCEPT ![d] = "off"]
        /\ nextId' = nextId \/ nextId' = [nextId EXCEPT ![d] = 1]
    BY <1>2 DEF RelayNotices, Reconnect
  <2>2. link' \in [Device -> {"on", "gone", "off"}]
        /\ \A e \in Device : link'[e] # "on" => link[e] # "on"
    BY <2>1 DEF Typed
  <2>3. 1 \in 1..MaxOpens + 1 /\ 1 <= opens + 1
    BY TunnelsAssumption DEF Typed
  <2>4. nextId' \in [Device -> 1..MaxOpens + 1] /\ \A e \in Device : nextId'[e] <= opens + 1
    BY <2>1, <2>3 DEF Typed
  <2> QED
    BY <2>1, <2>2, <2>4 DEF Typed
<1> QED
  BY <1>1, <1>2

LEMMA TypedInvariant == Spec => []Typed
<1>1. Init => Typed
  <2>1. SUFFICES ASSUME Init PROVE Typed
    OBVIOUS
  <2>2. 1 \in 1..MaxOpens + 1 /\ 0 \in 0..MaxOpens /\ 0 \in 0..MaxFaults /\ 0 \in 0..MaxEnds
    BY TunnelsAssumption
  <2>3. <<>> \in Seq(Carried) /\ <<>> \in Seq(Pump)
    OBVIOUS
  <2>4. up \in [Device -> Seq(Carried)] /\ down \in [Device -> Seq(Carried)]
        /\ pumped \in [Device -> Seq(Pump)]
    BY <2>1, <2>3 DEF Init
  <2>5. tunnels \in [Device -> Tables]
    BY <2>1, NoTable DEF Init
  <2>6. /\ link \in [Device -> {"on", "gone", "off"}] /\ \A d \in Device : link[d] = "on"
        /\ nextId \in [Device -> 1..MaxOpens + 1]
        /\ \A d \in Device : nextId[d] <= opens + 1
    BY <2>1, <2>2 DEF Init
  <2>7. opens \in 0..MaxOpens /\ faults \in 0..MaxFaults /\ ends \in 0..MaxEnds
        /\ usedIds \in [Device -> SUBSET (1..MaxOpens)] /\ {reused, broken} \subseteq BOOLEAN
    BY <2>1, <2>2 DEF Init
  <2> QED
    BY <2>4, <2>5, <2>6, <2>7 DEF Typed
<1>2. Typed /\ [Next]_vars => Typed'
  <2>1. SUFFICES ASSUME Typed, [Next]_vars PROVE Typed'
    OBVIOUS
  <2>2. CASE Next
    BY <2>1, <2>2, OpenType, WriteType, OnPumpedType, ForwardType, ReceiveType, LinkType DEF Next
  <2>3. CASE UNCHANGED vars
    BY <2>1, <2>3 DEF vars, Typed
  <2> QED
    BY <2>1, <2>2, <2>3
<1> QED
  BY <1>1, <1>2, PTL DEF Spec

(* Every variable of RelayTunnels keeps its type, and a device that lost   *)
(* the relay has no tunnel.                                                *)
THEOREM TunnelsTyped == Spec => []TypeOK
<1>1. Typed => TypeOK
  <2>1. SUFFICES ASSUME Typed PROVE TypeOK
    OBVIOUS
  <2>2. \A d \in Device : /\ DOMAIN tunnels[d] \subseteq Key
                          /\ \A k \in DOMAIN tunnels[d] : tunnels[d][k] \in Session
    BY <2>1, TableIs DEF Typed
  <2>3. \A d \in Device : \A i \in DOMAIN pumped[d] : pumped[d][i].key \in Key
    <3>1. ASSUME NEW d \in Device, NEW i \in DOMAIN pumped[d]
          PROVE  pumped[d][i].key \in Key
      <4>1. pumped[d] \in Seq(Pump)
        BY <2>1 DEF Typed
      <4>2. pumped[d][i] \in Pump
        BY <4>1, <3>1
      <4> QED
        BY <4>2 DEF Pump
    <3> QED
      BY <3>1
  <2>4. Seq(Carried) \subseteq Seq(Frame)
    BY DEF Carried
  <2>5. up \in [Device -> Seq(Frame)] /\ down \in [Device -> Seq(Frame)]
    BY <2>1, <2>4 DEF Typed
  <2> QED
    BY <2>1, <2>2, <2>3, <2>5 DEF Typed, TypeOK
<1> QED
  BY <1>1, TypedInvariant, PTL

-----------------------------------------------------------------------------
(***************************************************************************)
(* Streams.  An end of a tunnel is a device with its key for it; the other *)
(* end is the key's peer with the mirrored key.                            *)
(***************************************************************************)
Opener(e, k) == IF k.openedHere THEN e ELSE k.peer
Tunnel(e, k) == IF k.openedHere THEN <<e, k.peer, k.id>> ELSE <<k.peer, e, k.id>>

Held(e, k) == k \in DOMAIN tunnels[e]
Live(e, k) == Held(e, k) /\ ~tunnels[e][k].ended

(* What an end sends: an opening, a piece of the stream or its end.        *)
Content == [kind: {"open", "data", "close"}, run: 1..MaxOpens, at: 0..1]

Carries(frame, device, k, c) ==
  /\ frame.kind = c.kind /\ frame.run = c.run /\ frame.at = c.at
  /\ frame.device = device /\ frame.id = k.id /\ (frame.opener <=> k.openedHere)

InDown(e, k, c, i) == i \in DOMAIN down[k.peer] /\ Carries(down[k.peer][i], e, k, c)
InUp(e, k, c, i) == i \in DOMAIN up[e] /\ Carries(up[e][i], k.peer, k, c)
Gives(piece, k, c) == /\ piece.key = k /\ piece.run = c.run /\ piece.at = c.at
                      /\ c.kind = IF piece.end THEN "close" ELSE "data"
InPump(e, k, c, i) == i \in DOMAIN pumped[e] /\ Gives(pumped[e][i], k, c)

(* c, sent by the end e, k, is the i-th in its queue: of the frames from   *)
(* the relay (1), to the relay (2), or of what is not yet sent (3).        *)
Sent(e, k, c, s, i) == \/ s = 1 /\ InDown(e, k, c, i)
                       \/ s = 2 /\ InUp(e, k, c, i)
                       \/ s = 3 /\ InPump(e, k, c, i)

Before(s, i, t, j) == s < t \/ (s = t /\ i < j)

LEMMA KeyIs ==
  ASSUME NEW k \in Key, NEW j \in Key, k.peer = j.peer, k.id = j.id,
         k.openedHere <=> j.openedHere
  PROVE  k = j
BY DEF Key

LEMMA MirrorIs ==
  ASSUME NEW e \in Device, NEW k \in Key
  PROVE  LET m == Mirror(e, k)
         IN  /\ k.peer \in Device /\ m \in Key /\ m.peer = e /\ m.id = k.id
             /\ (m.openedHere <=> ~k.openedHere) /\ m # k
             /\ Mirror(k.peer, m) = k
             /\ Opener(k.peer, m) = Opener(e, k) /\ Opener(e, k) \in Device
             /\ Tunnel(k.peer, m) = Tunnel(e, k)
             /\ Tunnel(e, k) \in Device \X Device \X (1..MaxOpens)
<1> DEFINE m == Mirror(e, k)
<1>1. k.peer \in Device /\ k.id \in 1..MaxOpens /\ k.openedHere \in BOOLEAN
  BY DEF Key
<1>2. m.peer = e /\ m.id = k.id /\ (m.openedHere <=> ~k.openedHere) /\ m \in Key
  <2>1. ASSUME NEW b \in BOOLEAN, b <=> ~k.openedHere
        PROVE  [peer |-> e, id |-> k.id, openedHere |-> b] \in Key
    BY <1>1 DEF Key
  <2> QED
    BY <2>1 DEF Mirror
<1>3. m # k
  BY <1>2
<1>4. Mirror(k.peer, m) = k
  <2> DEFINE back == Mirror(k.peer, m)
  <2>1. back.peer = k.peer /\ back.id = m.id /\ (back.openedHere <=> ~m.openedHere)
    BY DEF Mirror
  <2>2. back \in Key
    <3>1. ASSUME NEW b \in BOOLEAN, b <=> ~m.openedHere
          PROVE  [peer |-> k.peer, id |-> m.id, openedHere |-> b] \in Key
      BY <1>1, <1>2 DEF Key
    <3> QED
      BY <3>1 DEF Mirror
  <2> HIDE DEF back, m
  <2>3. back.openedHere <=> k.openedHere
    BY <1>2, <2>1
  <2>4. back = k
    BY <1>2, <2>1, <2>2, <2>3, KeyIs
  <2> QED
    BY <2>4 DEF back
<1> HIDE DEF m
<1>5. Opener(k.peer, m) = Opener(e, k) /\ Opener(e, k) \in Device
  BY <1>1, <1>2 DEF Opener
<1>6. Tunnel(k.peer, m) = Tunnel(e, k) /\ Tunnel(e, k) \in Device \X Device \X (1..MaxOpens)
  BY <1>1, <1>2 DEF Tunnel
<1> QED
  BY <1>1, <1>2, <1>3, <1>4, <1>5, <1>6 DEF m

(* An end and what it sends are known from a frame.                        *)
LEMMA CarriesOne ==
  ASSUME NEW c \in Content, NEW b \in Content, NEW k, NEW j, NEW e, NEW d, NEW frame,
         Carries(frame, e, k, c), Carries(frame, d, j, b)
  PROVE  c = b /\ e = d /\ k.id = j.id /\ (k.openedHere <=> j.openedHere)
<1>1. c.kind = b.kind /\ c.run = b.run /\ c.at = b.at
  BY DEF Carries
<1>2. c = b
  BY <1>1 DEF Content
<1> QED
  BY <1>2 DEF Carries

LEMMA SentPlace ==
  ASSUME Typed, NEW e \in Device, NEW k \in Key, NEW c \in Content, NEW s, NEW i,
         Sent(e, k, c, s, i)
  PROVE  /\ s \in 1..3 /\ i \in Nat \ {0}
         /\ s = 1 => i <= Len(down[k.peer])
         /\ s = 2 => i <= Len(up[e])
         /\ s = 3 => i <= Len(pumped[e])
<1>1. k.peer \in Device
  BY DEF Key
<1>2. /\ DOMAIN down[k.peer] = 1..Len(down[k.peer]) /\ DOMAIN up[e] = 1..Len(up[e])
      /\ DOMAIN pumped[e] = 1..Len(pumped[e])
      /\ Len(down[k.peer]) \in Nat /\ Len(up[e]) \in Nat /\ Len(pumped[e]) \in Nat
  BY <1>1 DEF Typed
<1> QED
  BY <1>2 DEF Sent, InDown, InUp, InPump

(* Nothing else is at that place.                                          *)
LEMMA SentOne ==
  ASSUME NEW e, NEW k, NEW c \in Content, NEW b \in Content, NEW s, NEW i,
         Sent(e, k, c, s, i), Sent(e, k, b, s, i)
  PROVE  c = b
<1>1. c.kind = b.kind /\ c.run = b.run /\ c.at = b.at
  BY DEF Sent, InDown, InUp, InPump, Gives, Carries
<1> QED
  BY <1>1 DEF Content

LEMMA UpGrows ==
  ASSUME Typed, NEW d \in Device, NEW frame \in Carried,
         up' = [up EXCEPT ![d] = Append(@, frame)],
         NEW e \in Device, NEW k, NEW c, NEW i
  PROVE  InUp(e, k, c, i)' <=>
           InUp(e, k, c, i) \/ (e = d /\ i = Len(up[d]) + 1 /\ Carries(frame, k.peer, k, c))
<1>1. /\ \A f \in Device : f # d => up'[f] = up[f]
      /\ \A n : n \in DOMAIN up'[d] <=> n \in DOMAIN up[d] \/ n = Len(up[d]) + 1
      /\ \A n \in DOMAIN up[d] : up'[d][n] = up[d][n] /\ n \in 1..Len(up[d])
      /\ up'[d][Len(up[d]) + 1] = frame /\ Len(up[d]) \in Nat
  BY Appended DEF Typed
<1>2. Len(up[d]) + 1 \notin DOMAIN up[d]
  BY <1>1
<1>3. CASE e = d
  BY <1>1, <1>2, <1>3 DEF InUp, Carries
<1>4. CASE e # d
  BY <1>1, <1>4 DEF InUp, Carries
<1> QED
  BY <1>3, <1>4

LEMMA UpPops ==
  ASSUME Typed, NEW d \in Device, up[d] # <<>>, up' = [up EXCEPT ![d] = Tail(@)],
         NEW e \in Device, NEW k, NEW c, NEW i \in Nat
  PROVE  InUp(e, k, c, i)' <=>
           IF e = d THEN i # 0 /\ InUp(e, k, c, i + 1) ELSE InUp(e, k, c, i)
<1>1. /\ \A f \in Device : f # d => up'[f] = up[f]
      /\ \A n \in Nat : n \in DOMAIN up'[d] <=> n # 0 /\ n + 1 \in DOMAIN up[d]
      /\ \A n \in DOMAIN up'[d] : up'[d][n] = up[d][n + 1]
  BY Popped DEF Typed
<1>2. CASE e = d
  <2>1. i \in DOMAIN up'[d] <=> i # 0 /\ i + 1 \in DOMAIN up[d]
    BY <1>1
  <2>2. i \in DOMAIN up'[d] => up'[d][i] = up[d][i + 1]
    BY <1>1
  <2> QED
    BY <1>2, <2>1, <2>2 DEF InUp, Carries
<1>3. CASE e # d
  BY <1>1, <1>3 DEF InUp, Carries
<1> QED
  BY <1>2, <1>3

LEMMA DownGrows ==
  ASSUME Typed, NEW d \in Device, NEW frame \in Carried,
         down' = [down EXCEPT ![d] = Append(@, frame)],
         NEW e, NEW k \in Key, NEW c, NEW i
  PROVE  InDown(e, k, c, i)' <=>
           InDown(e, k, c, i) \/ (k.peer = d /\ i = Len(down[d]) + 1 /\ Carries(frame, e, k, c))
<1>1. /\ \A f \in Device : f # d => down'[f] = down[f]
      /\ \A n : n \in DOMAIN down'[d] <=> n \in DOMAIN down[d] \/ n = Len(down[d]) + 1
      /\ \A n \in DOMAIN down[d] : down'[d][n] = down[d][n] /\ n \in 1..Len(down[d])
      /\ down'[d][Len(down[d]) + 1] = frame /\ Len(down[d]) \in Nat
  BY Appended DEF Typed
<1>2. Len(down[d]) + 1 \notin DOMAIN down[d] /\ k.peer \in Device
  <2>1. k.peer \in Device
    BY DEF Key
  <2> QED
    BY <1>1, <2>1
<1>3. CASE k.peer = d
  BY <1>1, <1>2, <1>3 DEF InDown, Carries
<1>4. CASE k.peer # d
  BY <1>1, <1>2, <1>4 DEF InDown, Carries
<1> QED
  BY <1>3, <1>4

LEMMA DownPops ==
  ASSUME Typed, NEW d \in Device, down[d] # <<>>, down' = [down EXCEPT ![d] = Tail(@)],
         NEW e, NEW k \in Key, NEW c, NEW i \in Nat
  PROVE  InDown(e, k, c, i)' <=>
           IF k.peer = d THEN i # 0 /\ InDown(e, k, c, i + 1) ELSE InDown(e, k, c, i)
<1>1. /\ \A f \in Device : f # d => down'[f] = down[f]
      /\ \A n \in Nat : n \in DOMAIN down'[d] <=> n # 0 /\ n + 1 \in DOMAIN down[d]
      /\ \A n \in DOMAIN down'[d] : down'[d][n] = down[d][n + 1]
  BY Popped DEF Typed
<1>2. k.peer \in Device
  BY DEF Key
<1>3. CASE k.peer = d
  <2>1. i \in DOMAIN down'[d] <=> i # 0 /\ i + 1 \in DOMAIN down[d]
    BY <1>1
  <2>2. i \in DOMAIN down'[d] => down'[d][i] = down[d][i + 1]
    BY <1>1
  <2> QED
    BY <1>3, <2>1, <2>2 DEF InDown, Carries
<1>4. CASE k.peer # d
  BY <1>1, <1>2, <1>4 DEF InDown, Carries
<1> QED
  BY <1>3, <1>4

LEMMA PumpGrows ==
  ASSUME Typed, NEW d \in Device, NEW piece \in Pump,
         pumped' = [pumped EXCEPT ![d] = Append(@, piece)],
         NEW e \in Device, NEW k, NEW c, NEW i
  PROVE  InPump(e, k, c, i)' <=>
           InPump(e, k, c, i) \/ (e = d /\ i = Len(pumped[d]) + 1 /\ Gives(piece, k, c))
<1>1. /\ \A f \in Device : f # d => pumped'[f] = pumped[f]
      /\ \A n : n \in DOMAIN pumped'[d] <=> n \in DOMAIN pumped[d] \/ n = Len(pumped[d]) + 1
      /\ \A n \in DOMAIN pumped[d] : pumped'[d][n] = pumped[d][n] /\ n \in 1..Len(pumped[d])
      /\ pumped'[d][Len(pumped[d]) + 1] = piece /\ Len(pumped[d]) \in Nat
  BY Appended DEF Typed
<1>2. Len(pumped[d]) + 1 \notin DOMAIN pumped[d]
  BY <1>1
<1>3. CASE e = d
  BY <1>1, <1>2, <1>3 DEF InPump, Gives
<1>4. CASE e # d
  BY <1>1, <1>4 DEF InPump, Gives
<1> QED
  BY <1>3, <1>4

LEMMA PumpPops ==
  ASSUME Typed, NEW d \in Device, pumped[d] # <<>>, pumped' = [pumped EXCEPT ![d] = Tail(@)],
         NEW e \in Device, NEW k, NEW c, NEW i \in Nat
  PROVE  InPump(e, k, c, i)' <=>
           IF e = d THEN i # 0 /\ InPump(e, k, c, i + 1) ELSE InPump(e, k, c, i)
<1>1. /\ \A f \in Device : f # d => pumped'[f] = pumped[f]
      /\ \A n \in Nat : n \in DOMAIN pumped'[d] <=> n # 0 /\ n + 1 \in DOMAIN pumped[d]
      /\ \A n \in DOMAIN pumped'[d] : pumped'[d][n] = pumped[d][n + 1]
  BY Popped DEF Typed
<1>2. CASE e = d
  <2>1. i \in DOMAIN pumped'[d] <=> i # 0 /\ i + 1 \in DOMAIN pumped[d]
    BY <1>1
  <2>2. i \in DOMAIN pumped'[d] => pumped'[d][i] = pumped[d][i + 1]
    BY <1>1
  <2> QED
    BY <1>2, <2>1, <2>2 DEF InPump, Gives
<1>3. CASE e # d
  BY <1>1, <1>3 DEF InPump, Gives
<1> QED
  BY <1>2, <1>3

Sends(e, k, kind) ==
  \E c \in Content, s \in 1..3, i \in Nat : c.kind = kind /\ Sent(e, k, c, s, i)

(* The other end may still hear from this one.                             *)
Continues(e, k) ==
  \/ Held(e, k)
  \/ \E c \in Content, s \in 1..2, i \in Nat : c.kind # "open" /\ Sent(e, k, c, s, i)

Known(e, k) == Held(e, k) \/ \E c \in Content, s \in 1..3, i \in Nat : Sent(e, k, c, s, i)

(* Whatever names a tunnel, its opener has used the number.                *)
Numbered == \A e \in Device, k \in Key : Known(e, k) => k.id \in usedIds[Opener(e, k)]

(* g: the opening each tunnel comes from.  v: how much each end wrote.     *)
Matched(g, v, e, k) ==
  /\ Held(e, k) => /\ tunnels[e][k].run = g[Tunnel(e, k)]
                   /\ tunnels[e][k].wrote = v[e][k]
  /\ \A c \in Content, s \in 1..3, i \in Nat : Sent(e, k, c, s, i) =>
       /\ c.run = g[Tunnel(e, k)]
       /\ IF c.kind = "open" THEN k.openedHere ELSE c.at = v[e][k]

(* Until the other end hears of the tunnel nothing goes either way.        *)
Opening(v, e, k) ==
  LET m == Mirror(e, k)
  IN  Sends(e, k, "open") =>
        /\ v[e][k] = 0 /\ v[k.peer][m] = 0
        /\ ~Held(k.peer, m) /\ (Held(e, k) => tunnels[e][k].read = 0)
        /\ ~Sends(e, k, "data") /\ ~Sends(k.peer, m, "data") /\ ~Sends(k.peer, m, "close")

(* One opening, one piece at a time, and no end before the last piece.     *)
Order(e, k) ==
  \A b \in Content, c \in Content, s \in 1..3, t \in 1..3, i \in Nat, j \in Nat :
    Sent(e, k, b, s, i) /\ Sent(e, k, c, t, j) =>
      /\ b.kind = c.kind /\ b.kind # "close" => s = t /\ i = j
      /\ b.kind = "data" /\ c.kind = "close" => Before(s, i, t, j)

(* The other end read all that was written but the piece on the way.       *)
ReadsAll(v, e, k) ==
  LET m == Mirror(e, k)
  IN  Live(k.peer, m) /\ Continues(e, k) =>
        tunnels[k.peer][m].read = IF Sends(e, k, "data") THEN After(v[e][k]) ELSE v[e][k]

Tidy(g, v) ==
  \A e \in Device, k \in Key :
    Matched(g, v, e, k) /\ Opening(v, e, k) /\ Order(e, k) /\ ReadsAll(v, e, k)

Streams ==
  ~reused => /\ Numbered /\ ~broken
             /\ \E g \in [Device \X Device \X (1..MaxOpens) -> Nat],
                   v \in [Device -> [Key -> 0..1]] : Tidy(g, v)

-----------------------------------------------------------------------------
(* How steps move what an end sends: not at all; the first of a queue is   *)
(* taken out; or it goes on to the end of the next queue.                  *)
Stays(e, k) ==
  \A c \in Content, s \in 1..3, i \in Nat : Sent(e, k, c, s, i)' <=> Sent(e, k, c, s, i)

Pops(e, k, s0) ==
  \A c \in Content, s \in 1..3, i \in Nat :
    /\ i = 0 => ~Sent(e, k, c, s, i) /\ ~Sent(e, k, c, s, i)'
    /\ Sent(e, k, c, s, i)' =>
         IF s = s0 THEN Sent(e, k, c, s, i + 1) ELSE Sent(e, k, c, s, i)
    /\ Sent(e, k, c, s, i) /\ s # s0 => Sent(e, k, c, s, i)'
    /\ Sent(e, k, c, s, i) /\ s = s0 /\ i # 1 => Sent(e, k, c, s, i - 1)'

Passes(e, k, s0, n) ==
  \A c \in Content, s \in 1..3, i \in Nat :
    /\ i = 0 => ~Sent(e, k, c, s, i) /\ ~Sent(e, k, c, s, i)'
    /\ Sent(e, k, c, s, i)' => \/ s = s0 /\ Sent(e, k, c, s, i + 1)
                               \/ s # s0 /\ Sent(e, k, c, s, i)
                               \/ s = s0 - 1 /\ i = n /\ Sent(e, k, c, s0, 1)
    /\ Sent(e, k, c, s, i) /\ s # s0 => Sent(e, k, c, s, i)' /\ (s = s0 - 1 => i < n)
    /\ Sent(e, k, c, s, i) /\ s = s0 /\ i # 1 => Sent(e, k, c, s, i - 1)'
    /\ Sent(e, k, c, s, i) /\ s = s0 /\ i = 1 => Sent(e, k, c, s0 - 1, n)'

LEMMA StaysKeeps ==
  ASSUME NEW e, NEW k, Stays(e, k)
  PROVE  /\ \A kind : Sends(e, k, kind)' <=> Sends(e, k, kind)
         /\ Order(e, k) => Order(e, k)'
         /\ \A c \in Content, s \in 1..3, i \in Nat : Sent(e, k, c, s, i)' =>
              \E t \in 1..3, j \in Nat : Sent(e, k, c, t, j)
<1>1. ASSUME NEW kind PROVE Sends(e, k, kind)' <=> Sends(e, k, kind)
  <2>1. Sends(e, k, kind)' => Sends(e, k, kind)
    BY Zenon DEF Stays, Sends
  <2>2. Sends(e, k, kind) => Sends(e, k, kind)'
    BY Zenon DEF Stays, Sends
  <2> QED
    BY <2>1, <2>2
<1>2. ASSUME Order(e, k) PROVE Order(e, k)'
  <2>1. SUFFICES ASSUME NEW b \in Content, NEW c \in Content, NEW s \in 1..3, NEW t \in 1..3,
                        NEW i \in Nat, NEW j \in Nat,
                        Sent(e, k, b, s, i)', Sent(e, k, c, t, j)'
                 PROVE  /\ b.kind = c.kind /\ b.kind # "close" => s = t /\ i = j
                        /\ b.kind = "data" /\ c.kind = "close" => Before(s, i, t, j)
    BY DEF Order
  <2>2. Sent(e, k, b, s, i) /\ Sent(e, k, c, t, j)
    BY <2>1 DEF Stays
  <2> QED
    BY <1>2, <2>2 DEF Order
<1>3. \A c \in Content, s \in 1..3, i \in Nat : Sent(e, k, c, s, i)' =>
              \E t \in 1..3, j \in Nat : Sent(e, k, c, t, j)
  BY Zenon DEF Stays
<1> QED
  BY <1>1, <1>2, <1>3

LEMMA PopsKeeps ==
  ASSUME NEW e, NEW k, NEW s0 \in 1..3, Pops(e, k, s0)
  PROVE  /\ \A kind : Sends(e, k, kind)' => Sends(e, k, kind)
         /\ Order(e, k) => Order(e, k)'
         /\ \A c \in Content, s \in 1..3, i \in Nat : Sent(e, k, c, s, i)' =>
              \E t \in 1..3, j \in Nat : Sent(e, k, c, t, j)
<1>1. \A c \in Content, s \in 1..3, i \in Nat : Sent(e, k, c, s, i)' =>
         \E j \in Nat : Sent(e, k, c, s, j) /\ j = IF s = s0 THEN i + 1 ELSE i
  BY DEF Pops
<1>2. \A kind : Sends(e, k, kind)' => Sends(e, k, kind)
  BY <1>1 DEF Sends
<1>3. ASSUME Order(e, k) PROVE Order(e, k)'
  <2>1. SUFFICES ASSUME NEW b \in Content, NEW c \in Content, NEW s \in 1..3, NEW t \in 1..3,
                        NEW i \in Nat, NEW j \in Nat,
                        Sent(e, k, b, s, i)', Sent(e, k, c, t, j)'
                 PROVE  /\ b.kind = c.kind /\ b.kind # "close" => s = t /\ i = j
                        /\ b.kind = "data" /\ c.kind = "close" => Before(s, i, t, j)
    BY DEF Order
  <2>2. PICK i1 \in Nat : Sent(e, k, b, s, i1) /\ i1 = IF s = s0 THEN i + 1 ELSE i
    BY <1>1, <2>1
  <2>3. PICK j1 \in Nat : Sent(e, k, c, t, j1) /\ j1 = IF t = s0 THEN j + 1 ELSE j
    BY <1>1, <2>1
  <2>4. /\ b.kind = c.kind /\ b.kind # "close" => s = t /\ i1 = j1
        /\ b.kind = "data" /\ c.kind = "close" => Before(s, i1, t, j1)
    BY <1>3, <2>2, <2>3 DEF Order
  <2> QED
    BY <2>2, <2>3, <2>4 DEF Before
<1> QED
  BY <1>1, <1>2, <1>3

LEMMA PassesKeeps ==
  ASSUME NEW e, NEW k, NEW s0 \in 2..3, NEW n \in Nat, Passes(e, k, s0, n)
  PROVE  /\ \A kind : Sends(e, k, kind)' <=> Sends(e, k, kind)
         /\ Order(e, k) => Order(e, k)'
         /\ \A c \in Content, s \in 1..3, i \in Nat : Sent(e, k, c, s, i)' =>
              \E t \in 1..3, j \in Nat : Sent(e, k, c, t, j)
<1>0. s0 \in 1..3 /\ s0 - 1 \in 1..3
  OBVIOUS
<1>1. \A c \in Content, s \in 1..3, i \in Nat : Sent(e, k, c, s, i)' =>
         \E t \in 1..3, j \in Nat :
           /\ Sent(e, k, c, t, j)
           /\ i # 0
           /\ \/ s = s0 /\ t = s0 /\ j = i + 1
              \/ s # s0 /\ t = s /\ j = i /\ (s = s0 - 1 => i < n)
              \/ s = s0 - 1 /\ i = n /\ t = s0 /\ j = 1
  <2>1. SUFFICES ASSUME NEW c \in Content, NEW s \in 1..3, NEW i \in Nat, Sent(e, k, c, s, i)'
                 PROVE  \E t \in 1..3, j \in Nat :
                          /\ Sent(e, k, c, t, j)
                          /\ i # 0
                          /\ \/ s = s0 /\ t = s0 /\ j = i + 1
                             \/ s # s0 /\ t = s /\ j = i /\ (s = s0 - 1 => i < n)
                             \/ s = s0 - 1 /\ i = n /\ t = s0 /\ j = 1
    OBVIOUS
  <2>0. i # 0
    BY <2>1 DEF Passes
  <2>2. CASE s = s0 /\ Sent(e, k, c, s, i + 1)
    BY <2>0, <2>2
  <2>3. CASE s # s0 /\ Sent(e, k, c, s, i)
    BY <2>0, <2>3 DEF Passes
  <2>4. CASE s = s0 - 1 /\ i = n /\ Sent(e, k, c, s0, 1)
    BY <1>0, <2>0, <2>4
  <2> QED
    BY <2>0, <2>1, <2>2, <2>3, <2>4 DEF Passes
<1>2. \A kind : Sends(e, k, kind)' => Sends(e, k, kind)
  BY <1>1 DEF Sends
<1>3. ASSUME NEW kind, Sends(e, k, kind) PROVE Sends(e, k, kind)'
  <2>1. PICK c \in Content, s \in 1..3, i \in Nat : c.kind = kind /\ Sent(e, k, c, s, i)
    BY <1>3 DEF Sends
  <2>2. CASE s # s0
    BY <2>1, <2>2 DEF Passes, Sends
  <2>3. CASE s = s0 /\ i = 1
    <3>1. Sent(e, k, c, s0 - 1, n)'
      BY <2>1, <2>3 DEF Passes
    <3> QED
      BY <1>0, <2>1, <3>1 DEF Sends
  <2>4. CASE s = s0 /\ i # 1 /\ i # 0
    <3>1. Sent(e, k, c, s, i - 1)' /\ i - 1 \in Nat
      BY <2>1, <2>4 DEF Passes
    <3> QED
      BY <2>1, <3>1 DEF Sends
  <2>5. i # 0
    BY <2>1 DEF Passes
  <2> QED
    BY <2>2, <2>3, <2>4, <2>5
<1>4. ASSUME Order(e, k) PROVE Order(e, k)'
  <2>1. SUFFICES ASSUME NEW b \in Content, NEW c \in Content, NEW s \in 1..3, NEW t \in 1..3,
                        NEW i \in Nat, NEW j \in Nat,
                        Sent(e, k, b, s, i)', Sent(e, k, c, t, j)'
                 PROVE  /\ b.kind = c.kind /\ b.kind # "close" => s = t /\ i = j
                        /\ b.kind = "data" /\ c.kind = "close" => Before(s, i, t, j)
    BY DEF Order
  <2>2. PICK s1 \in 1..3, i1 \in Nat :
           /\ Sent(e, k, b, s1, i1) /\ i # 0
           /\ \/ s = s0 /\ s1 = s0 /\ i1 = i + 1
              \/ s # s0 /\ s1 = s /\ i1 = i /\ (s = s0 - 1 => i < n)
              \/ s = s0 - 1 /\ i = n /\ s1 = s0 /\ i1 = 1
    BY <1>1, <2>1
  <2>3. PICK t1 \in 1..3, j1 \in Nat :
           /\ Sent(e, k, c, t1, j1) /\ j # 0
           /\ \/ t = s0 /\ t1 = s0 /\ j1 = j + 1
              \/ t # s0 /\ t1 = t /\ j1 = j /\ (t = s0 - 1 => j < n)
              \/ t = s0 - 1 /\ j = n /\ t1 = s0 /\ j1 = 1
    BY <1>1, <2>1
  <2>4. /\ b.kind = c.kind /\ b.kind # "close" => s1 = t1 /\ i1 = j1
        /\ b.kind = "data" /\ c.kind = "close" => Before(s1, i1, t1, j1)
    BY <1>4, <2>2, <2>3 DEF Order
  <2>5. s1 = t1 /\ i1 = j1 => s = t /\ i = j
    BY <2>2, <2>3
  <2>6. Before(s1, i1, t1, j1) => Before(s, i, t, j)
    BY <2>2, <2>3 DEF Before
  <2> QED
    BY <2>4, <2>5, <2>6
<1> QED
  BY <1>1, <1>2, <1>3, <1>4

LEMMA PumpedMoves ==
  ASSUME Typed, NEW d \in Device, OnPumped(d), NEW e \in Device, NEW k \in Key
  PROVE  LET p == Head(pumped[d])
         IN  /\ p \in Pump
             /\ e # d => Stays(e, k)
             /\ e = d /\ p.key \in DOMAIN tunnels[d] => \E n \in Nat : Passes(e, k, 3, n)
             /\ e = d /\ p.key \notin DOMAIN tunnels[d] => Pops(e, k, 3)
             /\ \A c \in Content : Sent(d, k, c, 3, 1) <=> Gives(p, k, c)
<1> DEFINE p == Head(pumped[d])
           kind == IF p.end THEN "close" ELSE "data"
           frame == Encode(kind, p.key, p.run, p.at)
<1>1. pumped[d] # <<>> /\ pumped' = [pumped EXCEPT ![d] = Tail(@)] /\ down' = down
  BY DEF OnPumped
<1>2. p \in Pump /\ 1 \in DOMAIN pumped[d] /\ p = pumped[d][1]
  BY <1>1, Popped DEF Typed
<1>3. p.key \in Key /\ p.run \in 0..MaxOpens /\ p.run # 0 /\ p.at \in 0..1
  BY <1>2 DEF Pump
<1>4. frame \in Carried
  BY <1>3, EncodeType
<1>5. IF p.key \in DOMAIN tunnels[d] THEN up' = [up EXCEPT ![d] = Append(@, frame)] ELSE up' = up
  BY DEF OnPumped
<1>6. \A c \in Content : Gives(p, k, c) <=> Carries(frame, k.peer, k, c)
  <2>1. frame.kind = kind /\ frame.run = p.run /\ frame.at = p.at
        /\ frame.device = p.key.peer /\ frame.id = p.key.id
        /\ (frame.opener <=> p.key.openedHere)
    BY DEF Encode
  <2>2. p.key.peer = k.peer /\ p.key.id = k.id /\ (p.key.openedHere <=> k.openedHere) => p.key = k
    BY <1>3, KeyIs
  <2> HIDE DEF frame
  <2> QED
    BY <2>1, <2>2 DEF Gives, Carries
<1>7. \A c \in Content : Sent(d, k, c, 3, 1) <=> Gives(p, k, c)
  BY <1>2 DEF Sent, InPump
<1> HIDE DEF p, frame, kind
<1>8. \A c \in Content, i \in Nat : InPump(e, k, c, i)' <=>
         IF e = d THEN i # 0 /\ InPump(e, k, c, i + 1) ELSE InPump(e, k, c, i)
  BY <1>1, PumpPops
<1>9. \A c \in Content, i \in Nat : InDown(e, k, c, i)' <=> InDown(e, k, c, i)
  BY <1>1 DEF InDown, Carries
<1>10. \A c \in Content, i \in Nat : InUp(e, k, c, i)' <=>
          \/ InUp(e, k, c, i)
          \/ p.key \in DOMAIN tunnels[d] /\ e = d /\ i = Len(up[d]) + 1 /\ Carries(frame, k.peer, k, c)
  <2>1. CASE p.key \in DOMAIN tunnels[d]
    BY <1>4, <1>5, <2>1, UpGrows
  <2>2. CASE p.key \notin DOMAIN tunnels[d]
    BY <1>5, <2>2 DEF InUp, Carries
  <2> QED
    BY <2>1, <2>2
<1>11. \A c \in Content, s \in 1..3, i \in Nat : Sent(e, k, c, s, i) =>
         i # 0 /\ (s = 2 => i <= Len(up[e]))
  BY SentPlace
<1>12. Len(up[d]) \in Nat
  BY DEF Typed
<1>13. ASSUME e # d PROVE Stays(e, k)
  BY <1>8, <1>9, <1>10, <1>13 DEF Stays, Sent
<1>14. ASSUME e = d, p.key \notin DOMAIN tunnels[d] PROVE Pops(e, k, 3)
  <2>1. SUFFICES ASSUME NEW c \in Content, NEW s \in 1..3, NEW i \in Nat
                 PROVE  /\ i = 0 => ~Sent(e, k, c, s, i) /\ ~Sent(e, k, c, s, i)'
                        /\ Sent(e, k, c, s, i)' =>
                             IF s = 3 THEN Sent(e, k, c, s, i + 1) ELSE Sent(e, k, c, s, i)
                        /\ Sent(e, k, c, s, i) /\ s # 3 => Sent(e, k, c, s, i)'
                        /\ Sent(e, k, c, s, i) /\ s = 3 /\ i # 1 => Sent(e, k, c, s, i - 1)'
    BY DEF Pops
  <2>2. Sent(e, k, c, s, i)' <=> IF s = 3 THEN i # 0 /\ Sent(e, k, c, 3, i + 1) ELSE Sent(e, k, c, s, i)
    BY <1>8, <1>9, <1>10, <1>14 DEF Sent
  <2>3. i # 0 => (Sent(e, k, c, 3, i - 1)' <=> i - 1 # 0 /\ Sent(e, k, c, 3, i))
    <3>1. i # 0 => i - 1 \in Nat /\ (i - 1) + 1 = i
      OBVIOUS
    <3> QED
      BY <1>8, <1>14, <3>1 DEF Sent
  <2> QED
    BY <1>11, <2>2, <2>3
<1>15. ASSUME e = d, p.key \in DOMAIN tunnels[d] PROVE \E n \in Nat : Passes(e, k, 3, n)
  <2>0. PICK n \in Nat : n = Len(up[d]) + 1
    BY <1>12
  <2>1. SUFFICES ASSUME NEW c \in Content, NEW s \in 1..3, NEW i \in Nat
                 PROVE  /\ i = 0 => ~Sent(e, k, c, s, i) /\ ~Sent(e, k, c, s, i)'
                        /\ Sent(e, k, c, s, i)' => \/ s = 3 /\ Sent(e, k, c, s, i + 1)
                                                   \/ s # 3 /\ Sent(e, k, c, s, i)
                                                   \/ s = 2 /\ i = n /\ Sent(e, k, c, 3, 1)
                        /\ Sent(e, k, c, s, i) /\ s # 3 => Sent(e, k, c, s, i)' /\ (s = 2 => i < n)
                        /\ Sent(e, k, c, s, i) /\ s = 3 /\ i # 1 => Sent(e, k, c, s, i - 1)'
                        /\ Sent(e, k, c, s, i) /\ s = 3 /\ i = 1 => Sent(e, k, c, 2, n)'
    BY DEF Passes
  <2>2. s # 2 => (Sent(e, k, c, s, i)' <=>
                    IF s = 3 THEN i # 0 /\ Sent(e, k, c, 3, i + 1) ELSE Sent(e, k, c, s, i))
    BY <1>8, <1>9, <1>15 DEF Sent
  <2>3. s = 2 => (Sent(e, k, c, s, i)' <=> Sent(e, k, c, s, i) \/ (i = n /\ Sent(e, k, c, 3, 1)))
    BY <2>0, <1>6, <1>7, <1>10, <1>15 DEF Sent
  <2>3a. Sent(e, k, c, 3, 1) => Sent(e, k, c, 2, n)'
    BY <2>0, <1>6, <1>7, <1>10, <1>15 DEF Sent
  <2>4. i # 0 => (Sent(e, k, c, 3, i - 1)' <=> i - 1 # 0 /\ Sent(e, k, c, 3, i))
    <3>1. i # 0 => i - 1 \in Nat /\ (i - 1) + 1 = i
      OBVIOUS
    <3> QED
      BY <1>8, <1>15, <3>1 DEF Sent
  <2>5. n \in Nat /\ n # 0 /\ (Sent(e, k, c, s, i) /\ s = 2 => i < n)
    BY <2>0, <1>11, <1>12, <1>15
  <2>6. CASE s = 2
    BY <1>11, <2>3, <2>5, <2>6
  <2>7. CASE s = 3
    BY <1>11, <2>2, <2>4, <2>7, <2>3a
  <2>8. CASE s = 1
    BY <1>11, <2>2, <2>8
  <2> QED
    BY <2>6, <2>7, <2>8
<1> QED
  BY <1>2, <1>7, <1>13, <1>14, <1>15 DEF p

LEMMA ForwardMoves ==
  ASSUME Typed, NEW d \in Device, Forward(d), NEW e \in Device, NEW k \in Key
  PROVE  LET frame == Head(up[d])
         IN  /\ frame \in Carried
             /\ e # d => Stays(e, k)
             /\ e = d /\ k.peer = frame.device /\ link[frame.device] = "on" =>
                  \E n \in Nat : Passes(e, k, 2, n)
             /\ e = d /\ (k.peer # frame.device \/ link[frame.device] # "on") => Pops(e, k, 2)
             /\ \A c \in Content : Sent(d, k, c, 2, 1) => k.peer = frame.device
<1> DEFINE frame == Head(up[d])
           moved == [frame EXCEPT !.device = d]
<1>1. /\ frame \in Carried /\ frame.device \in Device
      /\ up[d] # <<>> /\ up' = [up EXCEPT ![d] = Tail(@)] /\ pumped' = pumped
      /\ \/ /\ link[frame.device] = "on"
            /\ moved \in Carried
            /\ down' = [down EXCEPT ![frame.device] = Append(@, moved)]
         \/ /\ link[frame.device] # "on"
            /\ down' = down
         \/ /\ link[frame.device] # "on"
            /\ Undeliverable(frame) \in Carried /\ Undeliverable(frame).run = 0
            /\ down' = [down EXCEPT ![d] = Append(@, Undeliverable(frame))]
  BY ForwardEffect
<1>2. 1 \in DOMAIN up[d] /\ frame = up[d][1]
  BY <1>1, Popped DEF Typed
<1>3. /\ moved.kind = frame.kind /\ moved.run = frame.run /\ moved.at = frame.at
      /\ moved.device = d /\ moved.id = frame.id /\ moved.opener = frame.opener
  BY <1>1 DEF Carried, Frame
<1>4. \A c \in Content : Sent(d, k, c, 2, 1) <=> Carries(frame, k.peer, k, c)
  BY <1>2 DEF Sent, InUp
<1>5. \A c \in Content : Carries(moved, e, k, c) /\ k.peer = frame.device
                         <=> e = d /\ Carries(frame, k.peer, k, c)
  <2> HIDE DEF moved, frame
  <2> QED
    BY <1>3 DEF Carries
<1> HIDE DEF frame, moved
<1>6. \A c \in Content, i \in Nat : InUp(e, k, c, i)' <=>
         IF e = d THEN i # 0 /\ InUp(e, k, c, i + 1) ELSE InUp(e, k, c, i)
  BY <1>1, UpPops
<1>7. \A c \in Content, i \in Nat : InPump(e, k, c, i)' <=> InPump(e, k, c, i)
  BY <1>1 DEF InPump, Gives
<1>8. \A c \in Content, i \in Nat : InDown(e, k, c, i)' <=>
         \/ InDown(e, k, c, i)
         \/ link[frame.device] = "on" /\ e = d /\ i = Len(down[k.peer]) + 1
            /\ Carries(frame, k.peer, k, c)
  <2>1. CASE /\ link[frame.device] = "on" /\ moved \in Carried
             /\ down' = [down EXCEPT ![frame.device] = Append(@, moved)]
    <3>1. \A c \in Content, i \in Nat : InDown(e, k, c, i)' <=>
            \/ InDown(e, k, c, i)
            \/ k.peer = frame.device /\ i = Len(down[frame.device]) + 1 /\ Carries(moved, e, k, c)
      BY <1>1, <2>1, DownGrows
    <3>2. \A c \in Content : Carries(frame, k.peer, k, c) => k.peer = frame.device
      BY DEF Carries
    <3> QED
      BY <1>5, <2>1, <3>1, <3>2
  <2>2. CASE link[frame.device] # "on" /\ down' = down
    BY <2>2 DEF InDown, Carries
  <2>3. CASE /\ link[frame.device] # "on"
             /\ Undeliverable(frame) \in Carried /\ Undeliverable(frame).run = 0
             /\ down' = [down EXCEPT ![d] = Append(@, Undeliverable(frame))]
    <3>1. \A c \in Content, i \in Nat : InDown(e, k, c, i)' <=>
            \/ InDown(e, k, c, i)
            \/ k.peer = d /\ i = Len(down[d]) + 1 /\ Carries(Undeliverable(frame), e, k, c)
      BY <2>3, DownGrows
    <3>2. \A c \in Content : ~Carries(Undeliverable(frame), e, k, c)
      BY <2>3 DEF Carries, Content
    <3> QED
      BY <2>3, <3>1, <3>2
  <2> QED
    BY <1>1, <2>1, <2>2, <2>3
<1>9. \A c \in Content, s \in 1..3, i \in Nat : Sent(e, k, c, s, i) =>
         i # 0 /\ (s = 1 => i <= Len(down[k.peer]))
  BY SentPlace
<1>10. Len(down[k.peer]) \in Nat
  BY DEF Typed, Key
<1>11. \A c \in Content : Sent(d, k, c, 2, 1) => k.peer = frame.device
  BY <1>4 DEF Carries
<1>12. ASSUME e # d PROVE Stays(e, k)
  BY <1>6, <1>7, <1>8, <1>12 DEF Stays, Sent
<1>13. ASSUME e = d, k.peer # frame.device \/ link[frame.device] # "on" PROVE Pops(e, k, 2)
  <2>1. SUFFICES ASSUME NEW c \in Content, NEW s \in 1..3, NEW i \in Nat
                 PROVE  /\ i = 0 => ~Sent(e, k, c, s, i) /\ ~Sent(e, k, c, s, i)'
                        /\ Sent(e, k, c, s, i)' =>
                             IF s = 2 THEN Sent(e, k, c, s, i + 1) ELSE Sent(e, k, c, s, i)
                        /\ Sent(e, k, c, s, i) /\ s # 2 => Sent(e, k, c, s, i)'
                        /\ Sent(e, k, c, s, i) /\ s = 2 /\ i # 1 => Sent(e, k, c, s, i - 1)'
    BY DEF Pops
  <2>2. Sent(e, k, c, s, i)' <=> IF s = 2 THEN i # 0 /\ Sent(e, k, c, 2, i + 1) ELSE Sent(e, k, c, s, i)
    <3>1. ~(link[frame.device] = "on" /\ Carries(frame, k.peer, k, c))
      BY <1>13 DEF Carries
    <3> QED
      BY <1>6, <1>7, <1>8, <1>13, <3>1 DEF Sent
  <2>3. i # 0 => (Sent(e, k, c, 2, i - 1)' <=> i - 1 # 0 /\ Sent(e, k, c, 2, i))
    <3>1. i # 0 => i - 1 \in Nat /\ (i - 1) + 1 = i
      OBVIOUS
    <3> QED
      BY <1>6, <1>13, <3>1 DEF Sent
  <2> QED
    BY <1>9, <2>2, <2>3
<1>14. ASSUME e = d, k.peer = frame.device, link[frame.device] = "on"
       PROVE  \E n \in Nat : Passes(e, k, 2, n)
  <2>0. PICK n \in Nat : n = Len(down[k.peer]) + 1
    BY <1>10
  <2>1. SUFFICES ASSUME NEW c \in Content, NEW s \in 1..3, NEW i \in Nat
                 PROVE  /\ i = 0 => ~Sent(e, k, c, s, i) /\ ~Sent(e, k, c, s, i)'
                        /\ Sent(e, k, c, s, i)' => \/ s = 2 /\ Sent(e, k, c, s, i + 1)
                                                   \/ s # 2 /\ Sent(e, k, c, s, i)
                                                   \/ s = 1 /\ i = n /\ Sent(e, k, c, 2, 1)
                        /\ Sent(e, k, c, s, i) /\ s # 2 => Sent(e, k, c, s, i)' /\ (s = 1 => i < n)
                        /\ Sent(e, k, c, s, i) /\ s = 2 /\ i # 1 => Sent(e, k, c, s, i - 1)'
                        /\ Sent(e, k, c, s, i) /\ s = 2 /\ i = 1 => Sent(e, k, c, 1, n)'
    BY DEF Passes
  <2>2. s # 1 => (Sent(e, k, c, s, i)' <=>
                    IF s = 2 THEN i # 0 /\ Sent(e, k, c, 2, i + 1) ELSE Sent(e, k, c, s, i))
    BY <1>6, <1>7, <1>14 DEF Sent
  <2>3. s = 1 => (Sent(e, k, c, s, i)' <=> Sent(e, k, c, s, i) \/ (i = n /\ Sent(e, k, c, 2, 1)))
    BY <2>0, <1>4, <1>8, <1>14 DEF Sent
  <2>3a. Sent(e, k, c, 2, 1) => Sent(e, k, c, 1, n)'
    BY <2>0, <1>4, <1>8, <1>14 DEF Sent
  <2>4. i # 0 => (Sent(e, k, c, 2, i - 1)' <=> i - 1 # 0 /\ Sent(e, k, c, 2, i))
    <3>1. i # 0 => i - 1 \in Nat /\ (i - 1) + 1 = i
      OBVIOUS
    <3> QED
      BY <1>6, <1>14, <3>1 DEF Sent
  <2>5. n \in Nat /\ n # 0 /\ (Sent(e, k, c, s, i) /\ s = 1 => i < n)
    BY <2>0, <1>9, <1>10
  <2>6. CASE s = 1
    BY <1>9, <2>3, <2>5, <2>6
  <2>7. CASE s = 2
    BY <1>9, <2>2, <2>4, <2>7, <2>3a
  <2>8. CASE s = 3
    BY <1>9, <2>2, <2>8
  <2> QED
    BY <2>6, <2>7, <2>8
<1> QED
  BY <1>1, <1>11, <1>12, <1>13, <1>14 DEF frame

LEMMA ReceiveMoves ==
  ASSUME Typed, NEW d \in Device, Receive(d), NEW e \in Device, NEW k \in Key
  PROVE  LET frame == Head(down[d])
         IN  /\ k.peer # d => Stays(e, k)
             /\ k.peer = d => Pops(e, k, 1)
             /\ \A c \in Content : k.peer = d =>
                  (Sent(e, k, c, 1, 1) <=> Carries(frame, e, k, c))
<1> DEFINE frame == Head(down[d])
           key == Decode(frame)
<1>1. /\ frame \in Carried /\ key \in Key
      /\ down[d] # <<>> /\ down' = [down EXCEPT ![d] = Tail(@)]
      /\ pumped' = pumped
      /\ up' = up \/ Refuse(d, key)
  BY ReceiveEffect DEF OnClose
<1>2. 1 \in DOMAIN down[d] /\ frame = down[d][1]
  BY <1>1, Popped DEF Typed
<1>3. \A c \in Content : k.peer = d => (Sent(e, k, c, 1, 1) <=> Carries(frame, e, k, c))
  BY <1>2 DEF Sent, InDown
<1> HIDE DEF frame, key
<1>4. \A c \in Content, i \in Nat : InDown(e, k, c, i)' <=>
         IF k.peer = d THEN i # 0 /\ InDown(e, k, c, i + 1) ELSE InDown(e, k, c, i)
  BY <1>1, DownPops
<1>5. \A c \in Content, i \in Nat : InPump(e, k, c, i)' <=> InPump(e, k, c, i)
  BY <1>1 DEF InPump, Gives
<1>6. \A c \in Content, i \in Nat : InUp(e, k, c, i)' <=> InUp(e, k, c, i)
  <2>1. CASE up' = up
    BY <2>1 DEF InUp, Carries
  <2>2. CASE Refuse(d, key)
    <3> DEFINE back == Encode("close", key, 0, 0)
    <3>1. back \in Carried
      BY <1>1, TunnelsAssumption, EncodeType
    <3>2. up' = [up EXCEPT ![d] = Append(@, back)] /\ back.run = 0
      BY <2>2 DEF Refuse, Encode
    <3> HIDE DEF back
    <3>3. \A c \in Content, i \in Nat : InUp(e, k, c, i)' <=>
            InUp(e, k, c, i) \/ (e = d /\ i = Len(up[d]) + 1 /\ Carries(back, k.peer, k, c))
      BY <3>1, <3>2, UpGrows
    <3>4. \A c \in Content : ~Carries(back, k.peer, k, c)
      BY <3>2 DEF Carries, Content
    <3> QED
      BY <3>3, <3>4
  <2> QED
    BY <1>1, <2>1, <2>2
<1>7. \A c \in Content, s \in 1..3, i \in Nat : Sent(e, k, c, s, i) => i # 0
  BY SentPlace
<1>8. ASSUME k.peer # d PROVE Stays(e, k)
  BY <1>4, <1>5, <1>6, <1>8 DEF Stays, Sent
<1>9. ASSUME k.peer = d PROVE Pops(e, k, 1)
  <2>1. SUFFICES ASSUME NEW c \in Content, NEW s \in 1..3, NEW i \in Nat
                 PROVE  /\ i = 0 => ~Sent(e, k, c, s, i) /\ ~Sent(e, k, c, s, i)'
                        /\ Sent(e, k, c, s, i)' =>
                             IF s = 1 THEN Sent(e, k, c, s, i + 1) ELSE Sent(e, k, c, s, i)
                        /\ Sent(e, k, c, s, i) /\ s # 1 => Sent(e, k, c, s, i)'
                        /\ Sent(e, k, c, s, i) /\ s = 1 /\ i # 1 => Sent(e, k, c, s, i - 1)'
    BY DEF Pops
  <2>2. Sent(e, k, c, s, i)' <=> IF s = 1 THEN i # 0 /\ Sent(e, k, c, 1, i + 1) ELSE Sent(e, k, c, s, i)
    BY <1>4, <1>5, <1>6, <1>9 DEF Sent
  <2>3. i # 0 => (Sent(e, k, c, 1, i - 1)' <=> i - 1 # 0 /\ Sent(e, k, c, 1, i))
    <3>1. i # 0 => i - 1 \in Nat /\ (i - 1) + 1 = i
      OBVIOUS
    <3> QED
      BY <1>4, <1>9, <3>1 DEF Sent
  <2> QED
    BY <1>7, <2>2, <2>3
<1> QED
  BY <1>3, <1>8, <1>9 DEF frame

LEMMA DisconnectMoves ==
  ASSUME Typed, NEW d \in Device, Disconnect(d), NEW e \in Device, NEW k \in Key
  PROVE  \A c \in Content, s \in 1..3, i \in Nat :
           Sent(e, k, c, s, i)' <=>
             /\ Sent(e, k, c, s, i)
             /\ s = 1 => k.peer # d
             /\ s # 1 => e # d
<1>1. /\ up' = [up EXCEPT ![d] = <<>>] /\ down' = [down EXCEPT ![d] = <<>>]
      /\ pumped' = [pumped EXCEPT ![d] = <<>>]
  BY DEF Disconnect
<1>2. DOMAIN <<>> = {} /\ k.peer \in Device
  BY NoTable DEF Key
<1>3. \A f \in Device :
         /\ up'[f] = IF f = d THEN <<>> ELSE up[f]
         /\ down'[f] = IF f = d THEN <<>> ELSE down[f]
         /\ pumped'[f] = IF f = d THEN <<>> ELSE pumped[f]
  BY <1>1 DEF Typed
<1>4. \A c, i : InDown(e, k, c, i)' <=> k.peer # d /\ InDown(e, k, c, i)
  BY <1>2, <1>3 DEF InDown, Carries
<1>5. \A c, i : InUp(e, k, c, i)' <=> e # d /\ InUp(e, k, c, i)
  BY <1>2, <1>3 DEF InUp, Carries
<1>6. \A c, i : InPump(e, k, c, i)' <=> e # d /\ InPump(e, k, c, i)
  BY <1>2, <1>3 DEF InPump, Gives
<1> QED
  BY <1>4, <1>5, <1>6 DEF Sent

(* Steps that start no session and send nothing new.                       *)
Fewer ==
  \A e \in Device, k \in Key :
    /\ Held(e, k)' => Held(e, k) /\ tunnels'[e][k] = tunnels[e][k]
    /\ \A c \in Content, s \in 1..3, i \in Nat : Sent(e, k, c, s, i)' =>
         \E t \in 1..3, j \in Nat : Sent(e, k, c, t, j)

LEMMA FewerKeeps ==
  ASSUME NEW g, NEW v, Tidy(g, v), Fewer, NEW e \in Device, NEW k \in Key
  PROVE  /\ Matched(g, v, e, k)' /\ Opening(v, e, k)'
         /\ Known(e, k)' => Known(e, k)
         /\ \A kind : Sends(e, k, kind)' => Sends(e, k, kind)
         /\ Live(e, k)' => Live(e, k)
<1> DEFINE m == Mirror(e, k)
<1>1. m \in Key /\ k.peer \in Device
  BY MirrorIs
<1>2. \A kind : \A f \in Device, j \in Key : Sends(f, j, kind)' => Sends(f, j, kind)
  BY DEF Fewer, Sends
<1>3. Matched(g, v, e, k)'
  <2>1. Matched(g, v, e, k)
    BY DEF Tidy
  <2>2. Held(e, k)' => /\ tunnels'[e][k].run = g[Tunnel(e, k)]
                       /\ tunnels'[e][k].wrote = v[e][k]
    BY <2>1 DEF Matched, Fewer
  <2>3. ASSUME NEW c \in Content, NEW s \in 1..3, NEW i \in Nat, Sent(e, k, c, s, i)'
        PROVE  /\ c.run = g[Tunnel(e, k)]
               /\ IF c.kind = "open" THEN k.openedHere ELSE c.at = v[e][k]
    <3>1. PICK t \in 1..3, j \in Nat : Sent(e, k, c, t, j)
      BY <2>3 DEF Fewer
    <3> QED
      BY <2>1, <3>1 DEF Matched
  <2> QED
    BY <2>2, <2>3 DEF Matched
<1>4. Opening(v, e, k)'
  <2>1. SUFFICES ASSUME Sends(e, k, "open")'
                 PROVE  /\ v[e][k] = 0 /\ v[k.peer][m] = 0
                        /\ ~Held(k.peer, m)' /\ (Held(e, k)' => tunnels'[e][k].read = 0)
                        /\ ~Sends(e, k, "data")' /\ ~Sends(k.peer, m, "data")'
                        /\ ~Sends(k.peer, m, "close")'
    BY DEF Opening
  <2>2. /\ v[e][k] = 0 /\ v[k.peer][m] = 0
        /\ ~Held(k.peer, m) /\ (Held(e, k) => tunnels[e][k].read = 0)
        /\ ~Sends(e, k, "data") /\ ~Sends(k.peer, m, "data")
        /\ ~Sends(k.peer, m, "close")
    BY <1>2, <2>1 DEF Tidy, Opening
  <2> QED
    BY <1>1, <1>2, <2>2 DEF Fewer
<1>5. Known(e, k)' => Known(e, k)
  BY DEF Known, Fewer
<1>6. Live(e, k)' => Live(e, k)
  BY DEF Live, Fewer
<1> QED
  BY <1>2, <1>3, <1>4, <1>5, <1>6

LEMMA ReadsKept ==
  ASSUME NEW v, NEW e \in Device, NEW k \in Key, ReadsAll(v, e, k),
         Live(k.peer, Mirror(e, k))' =>
           /\ Live(k.peer, Mirror(e, k))
           /\ tunnels'[k.peer][Mirror(e, k)].read = tunnels[k.peer][Mirror(e, k)].read
           /\ Continues(e, k)' => Continues(e, k) /\ (Sends(e, k, "data")' <=> Sends(e, k, "data"))
  PROVE  ReadsAll(v, e, k)'
<1> DEFINE m == Mirror(e, k)
<1>1. SUFFICES ASSUME Live(k.peer, m)', Continues(e, k)'
               PROVE  tunnels'[k.peer][m].read =
                        IF Sends(e, k, "data")' THEN After(v[e][k]) ELSE v[e][k]
  BY DEF ReadsAll
<1>2. tunnels[k.peer][m].read = IF Sends(e, k, "data") THEN After(v[e][k]) ELSE v[e][k]
  BY <1>1 DEF ReadsAll
<1> QED
  BY <1>1, <1>2

LEMMA StaysContinues ==
  ASSUME NEW e, NEW k, Stays(e, k), Held(e, k)' => Held(e, k)
  PROVE  /\ Continues(e, k)' => Continues(e, k)
         /\ Sends(e, k, "data")' <=> Sends(e, k, "data")
<1>1. Continues(e, k)' => Continues(e, k)
  <2>1. \A c \in Content, s \in 1..2, i \in Nat : Sent(e, k, c, s, i)' <=> Sent(e, k, c, s, i)
    BY DEF Stays
  <2> QED
    BY <2>1 DEF Continues
<1> QED
  BY <1>1, StaysKeeps

(* No piece is the one taken out.                                          *)
LEMMA PopsData ==
  ASSUME NEW e, NEW k, NEW s0 \in 1..3, Pops(e, k, s0),
         \A c \in Content : c.kind = "data" => ~Sent(e, k, c, s0, 1)
  PROVE  Sends(e, k, "data")' <=> Sends(e, k, "data")
<1>1. Sends(e, k, "data")' => Sends(e, k, "data")
  BY PopsKeeps
<1>2. ASSUME Sends(e, k, "data") PROVE Sends(e, k, "data")'
  <2>1. PICK c \in Content, s \in 1..3, i \in Nat : c.kind = "data" /\ Sent(e, k, c, s, i)
    BY <1>2 DEF Sends
  <2>2. CASE s # s0
    BY <2>1, <2>2 DEF Pops, Sends
  <2>3. CASE s = s0
    <3>1. i # 1
      BY <2>1, <2>3
    <3>2. i # 0
      BY <2>1 DEF Pops
    <3>3. Sent(e, k, c, s, i - 1)' /\ i - 1 \in Nat
      BY <2>1, <2>3, <3>1, <3>2 DEF Pops
    <3> QED
      BY <2>1, <3>3 DEF Sends
  <2> QED
    BY <2>2, <2>3
<1> QED
  BY <1>1, <1>2

LEMMA PopsContinues ==
  ASSUME NEW e, NEW k, NEW s0 \in 1..3, Pops(e, k, s0), Held(e, k)' => Held(e, k)
  PROVE  Continues(e, k)' => Continues(e, k)
<1>1. \A c \in Content, s \in 1..2, i \in Nat : Sent(e, k, c, s, i)' =>
         \E j \in Nat : Sent(e, k, c, s, j)
  BY DEF Pops
<1> QED
  BY <1>1 DEF Continues

(* An opening or a piece that is taken out was the only one of its kind.   *)
LEMMA FirstGone ==
  ASSUME NEW e, NEW k, NEW s0 \in 1..3, Order(e, k), Pops(e, k, s0),
         NEW b \in Content, b.kind # "close", Sent(e, k, b, s0, 1)
  PROVE  ~Sends(e, k, b.kind)'
<1>1. SUFFICES ASSUME Sends(e, k, b.kind)' PROVE FALSE
  OBVIOUS
<1>2. PICK c \in Content, s \in 1..3, i \in Nat : c.kind = b.kind /\ Sent(e, k, c, s, i)'
  BY <1>1 DEF Sends
<1>3. CASE s = s0
  <2>1. Sent(e, k, c, s0, i + 1) /\ i # 0
    BY <1>2, <1>3 DEF Pops
  <2>2. i + 1 = 1
    BY <1>2, <2>1 DEF Order
  <2> QED
    BY <2>1, <2>2
<1>4. CASE s # s0
  <2>1. Sent(e, k, c, s, i)
    BY <1>2, <1>4 DEF Pops
  <2> QED
    BY <1>2, <1>4, <2>1 DEF Order
<1> QED
  BY <1>3, <1>4

(* Nothing but openings is before the first piece.                         *)
LEMMA FirstData ==
  ASSUME NEW e, NEW k, NEW s0 \in 1..3, Order(e, k),
         NEW b \in Content, b.kind = "data", Sent(e, k, b, s0, 1)
  PROVE  \A c \in Content, s \in 1..3, i \in Nat :
           Sent(e, k, c, s, i) /\ c.kind # "open" => s >= s0
<1>2. SUFFICES ASSUME NEW c \in Content, NEW s \in 1..3, NEW i \in Nat,
                      Sent(e, k, c, s, i), c.kind # "open"
               PROVE  s >= s0
  OBVIOUS
<1>3. c.kind = "data" \/ c.kind = "close"
  BY <1>2 DEF Content
<1>4. CASE c.kind = "data"
  BY <1>2, <1>4 DEF Order
<1>5. CASE c.kind = "close"
  <2>1. Before(s0, 1, s, i)
    BY <1>2, <1>5 DEF Order
  <2> QED
    BY <2>1 DEF Before
<1> QED
  BY <1>3, <1>4, <1>5

LEMMA OnPumpedTidy ==
  ASSUME Typed, NEW d \in Device, OnPumped(d), NEW g, NEW v, Tidy(g, v)
  PROVE  Fewer /\ Tidy(g, v)'
<1> DEFINE p == Head(pumped[d])
<1>0. pumped[d] # <<>>
  BY DEF OnPumped
<1>1. p \in Pump /\ p.key \in Key
  <2>1. p \in Pump
    BY <1>0, Popped DEF Typed
  <2> QED
    BY <2>1 DEF Pump
<1>2. \A e \in Device, k \in Key : Held(e, k)' => Held(e, k) /\ tunnels'[e][k] = tunnels[e][k]
  <2>1. tunnels' = tunnels \/ tunnels' = Without(d, p.key)
    BY DEF OnPumped
  <2>2. CASE tunnels' = tunnels
    BY <2>2 DEF Held
  <2>3. CASE tunnels' = Without(d, p.key)
    <3>1. tunnels \in [Device -> Tables]
      BY DEF Typed
    <3> QED
      BY <2>3, <3>1, WithoutType DEF Held
  <2> QED
    BY <2>1, <2>2, <2>3
<1>3. ASSUME NEW e \in Device, NEW k \in Key
      PROVE  /\ \A c \in Content, s \in 1..3, i \in Nat : Sent(e, k, c, s, i)' =>
                  \E t \in 1..3, j \in Nat : Sent(e, k, c, t, j)
             /\ Order(e, k)'
  <2>1. Order(e, k)
    BY DEF Tidy
  <2>2. CASE Stays(e, k)
    BY <2>1, <2>2, StaysKeeps
  <2>3. CASE Pops(e, k, 3)
    BY <2>1, <2>3, PopsKeeps
  <2>4. CASE \E n \in Nat : Passes(e, k, 3, n)
    BY <2>1, <2>4, PassesKeeps
  <2> QED
    BY <2>2, <2>3, <2>4, PumpedMoves
<1>4. Fewer
  BY <1>2, <1>3 DEF Fewer
<1>5. ASSUME NEW e \in Device, NEW k \in Key
      PROVE  ReadsAll(v, e, k)'
  <2> DEFINE m == Mirror(e, k)
  <2>1. k.peer \in Device /\ m \in Key
    BY MirrorIs
  <2>2. Live(k.peer, m)' => Live(k.peer, m)
                            /\ tunnels'[k.peer][m].read = tunnels[k.peer][m].read
    BY <1>2, <2>1 DEF Live
  <2>3. Held(e, k)' => Held(e, k)
    BY <1>2
  <2>4. Continues(e, k)' => Continues(e, k) /\ (Sends(e, k, "data")' <=> Sends(e, k, "data"))
    <3>1. CASE e # d
      BY <2>3, <3>1, PumpedMoves, StaysContinues
    <3>2. CASE e = d /\ p.key \in DOMAIN tunnels[d]
      <4>1. PICK n \in Nat : Passes(e, k, 3, n)
        BY <3>2, PumpedMoves
      <4>0. 3 \in 2..3
        OBVIOUS
      <4>2. \A kind : Sends(e, k, kind)' <=> Sends(e, k, kind)
        BY <4>0, <4>1, PassesKeeps
      <4>3. ASSUME Continues(e, k)' PROVE Continues(e, k)
        <5>1. CASE Held(e, k)'
          BY <2>3, <5>1 DEF Continues
        <5>2. CASE ~Held(e, k)'
          <6>1. PICK c \in Content, s \in 1..2, i \in Nat : c.kind # "open" /\ Sent(e, k, c, s, i)'
            BY <4>3, <5>2 DEF Continues
          <6>2. Sent(e, k, c, s, i) \/ Sent(e, k, c, 3, 1)
            BY <4>1, <6>1 DEF Passes
          <6>3. CASE Sent(e, k, c, s, i)
            BY <6>1, <6>3 DEF Continues
          <6>4. CASE Sent(e, k, c, 3, 1)
            <7>1. p.key = k
              BY <3>2, <6>4, PumpedMoves DEF Gives
            <7> QED
              BY <3>2, <7>1 DEF Held, Continues
          <6> QED
            BY <6>2, <6>3, <6>4
        <5> QED
          BY <5>1, <5>2
      <4> QED
        BY <4>2, <4>3
    <3>3. CASE e = d /\ p.key \notin DOMAIN tunnels[d]
      <4>1. Pops(e, k, 3)
        BY <3>3, PumpedMoves
      <4>2. Continues(e, k)' => Continues(e, k)
        BY <2>3, <4>1, PopsContinues
      <4>3. CASE \A c \in Content : c.kind = "data" => ~Sent(e, k, c, 3, 1)
        BY <4>1, <4>2, <4>3, PopsData
      <4>4. CASE \E c \in Content : c.kind = "data" /\ Sent(e, k, c, 3, 1)
        <5>1. PICK b \in Content : b.kind = "data" /\ Sent(e, k, b, 3, 1)
          BY <4>4
        <5>2. p.key = k
          BY <3>3, <5>1, PumpedMoves DEF Gives
        <5>3. ~Held(e, k)'
          BY <2>3, <3>3, <5>2 DEF Held
        <5>4. \A c \in Content, s \in 1..3, i \in Nat :
                Sent(e, k, c, s, i) /\ c.kind # "open" => s >= 3
          <6>1. Order(e, k)
            BY DEF Tidy
          <6> QED
            BY <4>1, <5>1, <6>1, FirstData
        <5>5. ~Continues(e, k)'
          <6>1. SUFFICES ASSUME NEW c \in Content, NEW s \in 1..2, NEW i \in Nat,
                                c.kind # "open", Sent(e, k, c, s, i)'
                         PROVE  FALSE
            BY <5>3 DEF Continues
          <6>2. Sent(e, k, c, s, i)
            BY <4>1, <6>1 DEF Pops
          <6> QED
            BY <5>4, <6>1, <6>2
        <5> QED
          BY <5>5
      <4> QED
        BY <4>3, <4>4
    <3> QED
      BY <3>1, <3>2, <3>3
  <2>5. ReadsAll(v, e, k)
    BY DEF Tidy
  <2> QED
    BY <2>2, <2>4, <2>5, ReadsKept
<1> QED
  BY <1>3, <1>4, <1>5, FewerKeeps DEF Tidy

LEMMA ForwardTidy ==
  ASSUME Typed, NEW d \in Device, Forward(d), NEW g, NEW v, Tidy(g, v)
  PROVE  Fewer /\ Tidy(g, v)'
<1> DEFINE frame == Head(up[d])
<1>1. tunnels' = tunnels
  BY DEF Forward
<1>2. ASSUME NEW e \in Device, NEW k \in Key
      PROVE  \/ Stays(e, k)
             \/ \E n \in Nat : Passes(e, k, 2, n)
             \/ /\ Pops(e, k, 2)
                /\ \/ link[k.peer] # "on"
                   \/ \A c \in Content : ~Sent(e, k, c, 2, 1)
  BY ForwardMoves
<1>3. ASSUME NEW e \in Device, NEW k \in Key
      PROVE  /\ \A c \in Content, s \in 1..3, i \in Nat : Sent(e, k, c, s, i)' =>
                  \E t \in 1..3, j \in Nat : Sent(e, k, c, t, j)
             /\ Order(e, k)'
  <2>1. Order(e, k)
    BY DEF Tidy
  <2>2. CASE Stays(e, k)
    BY <2>1, <2>2, StaysKeeps
  <2>3. CASE Pops(e, k, 2)
    BY <2>1, <2>3, PopsKeeps
  <2>4. CASE \E n \in Nat : Passes(e, k, 2, n)
    BY <2>1, <2>4, PassesKeeps
  <2> QED
    BY <1>2, <2>2, <2>3, <2>4
<1>4. Fewer
  BY <1>1, <1>3 DEF Fewer, Held
<1>5. ASSUME NEW e \in Device, NEW k \in Key
      PROVE  ReadsAll(v, e, k)'
  <2> DEFINE m == Mirror(e, k)
  <2>1. k.peer \in Device /\ m \in Key
    BY MirrorIs
  <2>2. /\ Live(k.peer, m)' => Live(k.peer, m)
        /\ tunnels'[k.peer][m].read = tunnels[k.peer][m].read
        /\ Held(e, k)' => Held(e, k)
    BY <1>1 DEF Live, Held
  <2>3. link[k.peer] # "on" => ~Live(k.peer, m)
    BY <2>1 DEF Typed, Live, Held
  <2>4. link[k.peer] = "on" =>
          (Continues(e, k)' => Continues(e, k) /\ (Sends(e, k, "data")' <=> Sends(e, k, "data")))
    <3>1. CASE Stays(e, k)
      BY <2>2, <3>1, StaysContinues
    <3>2. CASE \E n \in Nat : Passes(e, k, 2, n)
      <4>1. PICK n \in Nat : Passes(e, k, 2, n)
        BY <3>2
      <4>0. 2 \in 2..3
        OBVIOUS
      <4>2. \A kind : Sends(e, k, kind)' <=> Sends(e, k, kind)
        BY <4>0, <4>1, PassesKeeps
      <4>3. ASSUME NEW c \in Content, NEW s \in 1..2, NEW i \in Nat, Sent(e, k, c, s, i)'
            PROVE  \E t \in 1..2, j \in Nat : Sent(e, k, c, t, j)
        <5>1. \/ s = 2 /\ Sent(e, k, c, s, i + 1)
              \/ Sent(e, k, c, s, i)
              \/ Sent(e, k, c, 2, 1)
          BY <4>1, <4>3 DEF Passes
        <5> QED
          BY <5>1
      <4>4. Continues(e, k)' => Continues(e, k)
        BY <2>2, <4>3 DEF Continues
      <4> QED
        BY <4>2, <4>4
    <3>3. CASE Pops(e, k, 2) /\ \A c \in Content : ~Sent(e, k, c, 2, 1)
      BY <2>2, <3>3, PopsContinues, PopsData
    <3> QED
      BY <1>2, <3>1, <3>2, <3>3
  <2>5. ReadsAll(v, e, k)
    BY DEF Tidy
  <2> QED
    BY <2>2, <2>3, <2>4, <2>5, ReadsKept
<1> QED
  BY <1>3, <1>4, <1>5, FewerKeeps DEF Tidy

LEMMA DisconnectTidy ==
  ASSUME Typed, NEW d \in Device, Disconnect(d), NEW g, NEW v, Tidy(g, v)
  PROVE  Fewer /\ Tidy(g, v)'
<1>1. tunnels' = [tunnels EXCEPT ![d] = <<>>]
  BY DEF Disconnect
<1>2. \A e \in Device, k \in Key :
         /\ Held(e, k)' <=> e # d /\ Held(e, k)
         /\ e # d => tunnels'[e] = tunnels[e]
  BY <1>1, NoTable DEF Held, Typed
<1>3. \A e \in Device, k \in Key, c \in Content, s \in 1..3, i \in Nat :
         Sent(e, k, c, s, i)' <=>
           /\ Sent(e, k, c, s, i)
           /\ s = 1 => k.peer # d
           /\ s # 1 => e # d
  BY DisconnectMoves
<1>4. Fewer
  BY <1>2, <1>3 DEF Fewer
<1>5. ASSUME NEW e \in Device, NEW k \in Key
      PROVE  Order(e, k)' /\ ReadsAll(v, e, k)'
  <2> DEFINE m == Mirror(e, k)
  <2>1. k.peer \in Device /\ m \in Key /\ Order(e, k) /\ ReadsAll(v, e, k)
    BY MirrorIs DEF Tidy
  <2>2. Order(e, k)'
    BY <1>3, <2>1 DEF Order
  <2>3. CASE k.peer = d
    <3>1. ~Live(k.peer, m)'
      BY <1>2, <2>1, <2>3 DEF Live
    <3> QED
      BY <2>1, <2>2, <3>1, ReadsKept
  <2>4. CASE k.peer # d /\ e # d
    <3>1. Stays(e, k)
      BY <1>3, <2>4 DEF Stays
    <3>2. Live(k.peer, m)' => Live(k.peer, m)
                              /\ tunnels'[k.peer][m].read = tunnels[k.peer][m].read
      BY <1>2, <2>1, <2>4 DEF Live
    <3>3. Held(e, k)' => Held(e, k)
      BY <1>2
    <3> QED
      BY <2>1, <2>2, <3>1, <3>2, <3>3, StaysContinues, ReadsKept
  <2>5. CASE k.peer # d /\ e = d
    <3>1. Live(k.peer, m)' => Live(k.peer, m)
                              /\ tunnels'[k.peer][m].read = tunnels[k.peer][m].read
      BY <1>2, <2>1, <2>5 DEF Live
    <3>2. ASSUME Continues(e, k)'
          PROVE  Continues(e, k) /\ (Sends(e, k, "data")' <=> Sends(e, k, "data"))
      <4>1. ~Held(e, k)'
        BY <1>2, <2>5
      <4>2. PICK c \in Content, s \in 1..2, i \in Nat : c.kind # "open" /\ Sent(e, k, c, s, i)'
        BY <3>2, <4>1 DEF Continues
      <4>3. s = 1 /\ Sent(e, k, c, 1, i)
        BY <1>3, <2>5, <4>2
      <4>4. Continues(e, k)
        BY <4>2, <4>3 DEF Continues
      <4>5. ASSUME NEW b \in Content, NEW t \in 1..3, NEW j \in Nat,
                   b.kind = "data", Sent(e, k, b, t, j)
            PROVE  Sent(e, k, b, t, j)'
        <5>1. c.kind = "data" \/ c.kind = "close"
          BY <4>2 DEF Content
        <5>2. t = 1
          BY <2>1, <4>3, <4>5, <5>1 DEF Order, Before
        <5> QED
          BY <1>3, <2>5, <4>5, <5>2
      <4>6. Sends(e, k, "data") => Sends(e, k, "data")'
        BY <4>5 DEF Sends
      <4>7. Sends(e, k, "data")' => Sends(e, k, "data")
        BY <1>3 DEF Sends
      <4> QED
        BY <4>4, <4>6, <4>7
    <3> QED
      BY <2>1, <2>2, <3>1, <3>2, ReadsKept
  <2> QED
    BY <2>3, <2>4, <2>5
<1> QED
  BY <1>4, <1>5, FewerKeeps DEF Tidy


(* The end that sent a frame, by the key it is decoded to.                 *)
Sender(d, key, frame, e, k) ==
  /\ e \in Device /\ k \in Key
  /\ k.peer = d /\ e = key.peer /\ Mirror(e, k) = key /\ Mirror(d, key) = k
  /\ Tunnel(e, k) = Tunnel(d, key)
  /\ \A f \in Device, j \in Key, c \in Content :
       j.peer = d /\ Carries(frame, f, j, c) => f = e /\ j = k
  /\ frame.run # 0 => \E c \in Content : Carries(frame, e, k, c)

LEMMA SenderIs ==
  ASSUME NEW d \in Device, NEW frame \in Carried, NEW key \in Key,
         key.peer = frame.device, key.id = frame.id, key.openedHere <=> ~frame.opener
  PROVE  Sender(d, key, frame, key.peer, Mirror(d, key))
<1> DEFINE m == Mirror(d, key)
<1>1. /\ key.peer \in Device /\ m \in Key /\ m.peer = d /\ m.id = key.id
      /\ (m.openedHere <=> ~key.openedHere) /\ Mirror(key.peer, m) = key
      /\ Tunnel(key.peer, m) = Tunnel(d, key)
  BY MirrorIs
<1> HIDE DEF m
<1>2. ASSUME NEW f \in Device, NEW j \in Key, NEW c \in Content,
             j.peer = d, Carries(frame, f, j, c)
      PROVE  f = key.peer /\ j = m
  <2>1. f = key.peer /\ j.id = m.id /\ (j.openedHere <=> m.openedHere)
    BY <1>1, <1>2 DEF Carries
  <2> QED
    BY <1>1, <1>2, <2>1, KeyIs
<1>3. ASSUME frame.run # 0 PROVE \E c \in Content : Carries(frame, key.peer, m, c)
  <2> DEFINE c == [kind |-> frame.kind, run |-> frame.run, at |-> frame.at]
  <2>1. c \in Content
    BY <1>3, TunnelsAssumption DEF Content, Carried, Frame
  <2>2. Carries(frame, key.peer, m, c)
    BY <1>1 DEF Carries
  <2> QED
    BY <2>1, <2>2
<1> QED
  BY <1>1, <1>2, <1>3 DEF Sender, m

(* What arrives was sent by the end that the key names.                    *)
LEMMA Received ==
  ASSUME Typed, NEW d \in Device, Receive(d)
  PROVE  LET frame == Head(down[d])
             key   == Decode(frame)
         IN  /\ key \in Key
             /\ \E e, k : Sender(d, key, frame, e, k)
             /\ \A e \in Device, k \in Key, c \in Content :
                  k.peer = d => (Sent(e, k, c, 1, 1) <=> Carries(frame, e, k, c))
<1>1. PICK frame \in Carried : frame = Head(down[d]) /\ Decode(frame) \in Key
  BY ReceiveEffect
<1>2. PICK key \in Key : key = Decode(frame)
  BY <1>1
<1>3. key.peer = frame.device /\ key.id = frame.id /\ (key.openedHere <=> ~frame.opener)
  <2>1. PICK b \in BOOLEAN : b <=> ~frame.opener
    OBVIOUS
  <2>2. key = [peer |-> frame.device, id |-> frame.id, openedHere |-> b]
    BY <1>2, <2>1 DEF Decode, Carried, Frame
  <2> QED
    BY <2>1, <2>2
<1>4. \E e, k : Sender(d, key, frame, e, k)
  BY <1>3, SenderIs
<1>5. \A e \in Device, k \in Key, c \in Content :
         k.peer = d => (Sent(e, k, c, 1, 1) <=> Carries(frame, e, k, c))
  BY <1>1, ReceiveMoves
<1> QED
  BY <1>1, <1>2, <1>4, <1>5

(* What is taken out at d goes nowhere else.                               *)
LEMMA ReceiveSent ==
  ASSUME Typed, NEW d \in Device, Receive(d), NEW e \in Device, NEW k \in Key, Order(e, k)
  PROVE  /\ \A c \in Content, s \in 1..3, i \in Nat : Sent(e, k, c, s, i)' =>
              \E t \in 1..3, j \in Nat : Sent(e, k, c, t, j)
         /\ \A kind : Sends(e, k, kind)' => Sends(e, k, kind)
         /\ Order(e, k)'
<1>1. 1 \in 1..3
  OBVIOUS
<1>2. CASE Stays(e, k)
  BY <1>2, StaysKeeps
<1>3. CASE Pops(e, k, 1)
  BY <1>1, <1>3, PopsKeeps
<1> QED
  BY <1>2, <1>3, ReceiveMoves

LEMMA ReceiveContinues ==
  ASSUME Typed, NEW d \in Device, Receive(d), NEW e \in Device, NEW k \in Key,
         Held(e, k)' => Held(e, k),
         k.peer = d => \A c \in Content : c.kind = "data" => ~Sent(e, k, c, 1, 1)
  PROVE  Continues(e, k)' => Continues(e, k) /\ (Sends(e, k, "data")' <=> Sends(e, k, "data"))
<1>1. 1 \in 1..3
  OBVIOUS
<1>2. CASE k.peer # d
  BY <1>2, ReceiveMoves, StaysContinues
<1>3. CASE k.peer = d
  <2>1. Pops(e, k, 1)
    BY <1>3, ReceiveMoves
  <2> QED
    BY <1>1, <1>3, <2>1, PopsContinues, PopsData
<1> QED
  BY <1>2, <1>3

(* The session, if there is one, does not hear of it or ends.              *)
LEMMA UnheardTidy ==
  ASSUME Typed, NEW d \in Device, Receive(d), NEW g, NEW v, Tidy(g, v),
         NEW key, key = Decode(Head(down[d])),
         tunnels' = tunnels \/ tunnels' = Without(d, key),
         Head(down[d]).kind = "data" => ~Live(d, key)
  PROVE  Fewer /\ Tidy(g, v)'
<1>1. \A e \in Device, k \in Key : Held(e, k)' => Held(e, k) /\ tunnels'[e][k] = tunnels[e][k]
  <2>1. CASE tunnels' = tunnels
    BY <2>1 DEF Held
  <2>2. CASE tunnels' = Without(d, key)
    <3>1. tunnels \in [Device -> Tables]
      BY DEF Typed
    <3> QED
      BY <2>2, <3>1, WithoutType DEF Held
  <2> QED
    BY <2>1, <2>2
<1>2. ASSUME NEW e \in Device, NEW k \in Key
      PROVE  /\ \A c \in Content, s \in 1..3, i \in Nat : Sent(e, k, c, s, i)' =>
                  \E t \in 1..3, j \in Nat : Sent(e, k, c, t, j)
             /\ Order(e, k)'
  BY ReceiveSent DEF Tidy
<1>3. Fewer
  BY <1>1, <1>2 DEF Fewer
<1>4. ASSUME NEW e \in Device, NEW k \in Key
      PROVE  ReadsAll(v, e, k)'
  <2> DEFINE m == Mirror(e, k)
  <2>1. k.peer \in Device /\ m \in Key
    BY MirrorIs
  <2>2. Live(k.peer, m)' => Live(k.peer, m)
                            /\ tunnels'[k.peer][m].read = tunnels[k.peer][m].read
    BY <1>1, <2>1 DEF Live
  <2>3. Held(e, k)' => Held(e, k)
    BY <1>1
  <2>4. Live(k.peer, m) /\ k.peer = d =>
          \A c \in Content : c.kind = "data" => ~Sent(e, k, c, 1, 1)
    <3>1. SUFFICES ASSUME Live(k.peer, m), k.peer = d, NEW c \in Content, c.kind = "data",
                          Sent(e, k, c, 1, 1)
                   PROVE  FALSE
      OBVIOUS
    <3>2. Carries(Head(down[d]), e, k, c)
      BY <3>1, Received
    <3>3. PICK e0, k0 : Sender(d, key, Head(down[d]), e0, k0)
      BY Received
    <3>4. Mirror(e, k) = key
      BY <3>1, <3>2, <3>3 DEF Sender
    <3>5. Head(down[d]).kind = "data"
      BY <3>1, <3>2 DEF Carries
    <3> QED
      BY <3>1, <3>4, <3>5
  <2>5. Live(k.peer, m) =>
          (Continues(e, k)' => Continues(e, k) /\ (Sends(e, k, "data")' <=> Sends(e, k, "data")))
    BY <2>3, <2>4, ReceiveContinues
  <2>6. ReadsAll(v, e, k)
    BY DEF Tidy
  <2> QED
    BY <2>2, <2>5, <2>6, ReadsKept
<1> QED
  BY <1>2, <1>3, <1>4, FewerKeeps DEF Tidy

(* A close that reaches a session comes after all that was written.        *)
LEMMA CloseIsLast ==
  ASSUME Typed, NEW d \in Device, Receive(d), NEW g, NEW v, Tidy(g, v),
         v \in [Device -> [Key -> 0..1]],
         NEW key, key = Decode(Head(down[d])), OnClose(d, Head(down[d])), ~broken,
         Head(down[d]).kind = "close"
  PROVE  ~broken'
<1> DEFINE frame == Head(down[d])
<1>1. SUFFICES ASSUME Live(d, key), frame.run # 0
               PROVE  frame.run = tunnels[d][key].run /\ frame.at = tunnels[d][key].read
  BY DEF OnClose, Live, Held
<1>2. PICK e, k : Sender(d, key, frame, e, k)
  BY Received
<1>3. key \in Key
  BY Received
<1>4. e \in Device /\ k \in Key /\ k.peer = d /\ Mirror(e, k) = key /\ Tunnel(e, k) = Tunnel(d, key)
  BY <1>2 DEF Sender
<1>5. PICK c \in Content : Sent(e, k, c, 1, 1) /\ c.kind = "close"
                           /\ c.run = frame.run /\ c.at = frame.at
  <2>1. PICK c \in Content : Carries(frame, e, k, c)
    BY <1>1, <1>2 DEF Sender
  <2>2. Sent(e, k, c, 1, 1)
    BY <1>4, <2>1, Received
  <2> QED
    BY <2>1, <2>2 DEF Carries
<1>6. Matched(g, v, e, k) /\ Order(e, k) /\ ReadsAll(v, e, k) /\ Matched(g, v, d, key)
  BY <1>3, <1>4 DEF Tidy
<1>7. c.run = g[Tunnel(e, k)] /\ c.at = v[e][k]
  BY <1>5, <1>6 DEF Matched
<1>8. tunnels[d][key].run = g[Tunnel(e, k)]
  BY <1>1, <1>4, <1>6 DEF Matched, Live
<1>9. ~Sends(e, k, "data")
  <2>1. SUFFICES ASSUME NEW b \in Content, NEW s \in 1..3, NEW i \in Nat,
                        b.kind = "data", Sent(e, k, b, s, i)
                 PROVE  FALSE
    BY DEF Sends
  <2>2. Before(s, i, 1, 1)
    BY <1>5, <1>6, <2>1 DEF Order
  <2>3. i # 0
    BY <1>4, <2>1, SentPlace
  <2> QED
    BY <2>2, <2>3 DEF Before
<1>10. Continues(e, k)
  BY <1>5 DEF Continues
<1> QED
  BY <1>1, <1>4, <1>5, <1>6, <1>7, <1>8, <1>9, <1>10 DEF ReadsAll

(* The session reads the only piece that is on the way to it.              *)
LEMMA ReadTidy ==
  ASSUME Typed, NEW d \in Device, Receive(d), NEW g, NEW v, Tidy(g, v),
         v \in [Device -> [Key -> 0..1]], ~broken,
         NEW frame, frame = Head(down[d]), NEW key, key = Decode(Head(down[d])),
         frame.kind = "data", Live(d, key),
         tunnels' = [tunnels EXCEPT ![d] =
           [tunnels[d] EXCEPT ![key] = [tunnels[d][key] EXCEPT !.read = frame.at]]],
         broken' = (broken \/ frame.run # tunnels[d][key].run
                           \/ frame.at # After(tunnels[d][key].read))
  PROVE  /\ Tidy(g, v)' /\ ~broken'
         /\ \A e \in Device, k \in Key : Known(e, k)' => Known(e, k)
<1>1. PICK e0, k0 : Sender(d, key, frame, e0, k0)
  BY Received
<1>2. key \in Key /\ frame \in Carried /\ frame.run # 0
  <2>1. key \in Key /\ frame \in Carried
    BY ReceiveEffect
  <2> QED
    BY <2>1 DEF Carried
<1>3. /\ e0 \in Device /\ k0 \in Key /\ k0.peer = d /\ e0 = key.peer
      /\ Mirror(e0, k0) = key /\ Mirror(d, key) = k0 /\ Tunnel(e0, k0) = Tunnel(d, key)
  BY <1>1 DEF Sender
<1>4. PICK c0 \in Content : Sent(e0, k0, c0, 1, 1) /\ c0.kind = "data"
                            /\ c0.run = frame.run /\ c0.at = frame.at
  <2>1. PICK c \in Content : Carries(frame, e0, k0, c)
    BY <1>1, <1>2 DEF Sender
  <2>2. Sent(e0, k0, c, 1, 1)
    BY <1>3, <2>1, Received
  <2> QED
    BY <2>1, <2>2 DEF Carries
<1>5. \A e \in Device, k \in Key, c \in Content :
         k.peer = d /\ Sent(e, k, c, 1, 1) => e = e0 /\ k = k0
  BY <1>1, Received DEF Sender
<1>6. Held(d, key) /\ tunnels[d][key] \in Session
  BY TableIs DEF Live, Held, Typed
<1> DEFINE new == [tunnels[d][key] EXCEPT !.read = frame.at]
<1>7. new \in Session /\ new.run = tunnels[d][key].run /\ new.wrote = tunnels[d][key].wrote
      /\ new.ended = tunnels[d][key].ended /\ new.read = frame.at
  <2>1. frame.at \in 0..1
    BY <1>2 DEF Carried, Frame
  <2> QED
    BY <1>6, <2>1 DEF Session
<1>8. /\ \A e \in Device, k \in Key : Held(e, k)' <=> Held(e, k)
      /\ \A e \in Device, k \in Key : Held(e, k) =>
           tunnels'[e][k] = IF e = d /\ k = key THEN new ELSE tunnels[e][k]
  <2> HIDE DEF new
  <2>1. tunnels' = [tunnels EXCEPT ![d] = [tunnels[d] EXCEPT ![key] = new]]
    BY DEF new
  <2> QED
    BY <1>6, <1>7, <2>1, SessionStepType DEF Held, Typed
<1> HIDE DEF new
<1>9. \A e \in Device, k \in Key :
         /\ Matched(g, v, e, k) /\ Opening(v, e, k) /\ Order(e, k) /\ ReadsAll(v, e, k)
  BY DEF Tidy
<1>10. c0.run = g[Tunnel(e0, k0)] /\ c0.at = v[e0][k0] /\ v[e0][k0] \in 0..1
  BY <1>3, <1>4, <1>9 DEF Matched
<1>11. Sends(e0, k0, "data") /\ Continues(e0, k0)
  BY <1>4 DEF Sends, Continues
<1>12. tunnels[d][key].read = After(v[e0][k0])
  BY <1>3, <1>9, <1>11 DEF ReadsAll
<1>13. tunnels[d][key].run = g[Tunnel(e0, k0)]
  BY <1>2, <1>3, <1>6, <1>9 DEF Matched
<1>14. ~broken'
  BY <1>4, <1>10, <1>12, <1>13, AfterIs
<1>15. ASSUME NEW e \in Device, NEW k \in Key
       PROVE  /\ \A c \in Content, s \in 1..3, i \in Nat : Sent(e, k, c, s, i)' =>
                   \E t \in 1..3, j \in Nat : Sent(e, k, c, t, j)
              /\ \A kind : Sends(e, k, kind)' => Sends(e, k, kind)
              /\ Order(e, k)'
  BY <1>9, ReceiveSent
<1>16. ASSUME NEW e \in Device, NEW k \in Key
       PROVE  Matched(g, v, e, k)'
  <2>1. Matched(g, v, e, k)
    BY <1>9
  <2>2. Held(e, k)' => /\ tunnels'[e][k].run = g[Tunnel(e, k)]
                       /\ tunnels'[e][k].wrote = v[e][k]
    <3>1. Held(e, k)' => /\ tunnels'[e][k].run = tunnels[e][k].run
                         /\ tunnels'[e][k].wrote = tunnels[e][k].wrote
                         /\ Held(e, k)
      <4>1. CASE e = d /\ k = key
        BY <1>7, <1>8, <4>1
      <4>2. CASE ~(e = d /\ k = key)
        BY <1>8, <4>2
      <4> QED
        BY <4>1, <4>2
    <3> QED
      BY <2>1, <3>1 DEF Matched
  <2>3. ASSUME NEW c \in Content, NEW s \in 1..3, NEW i \in Nat, Sent(e, k, c, s, i)'
        PROVE  /\ c.run = g[Tunnel(e, k)]
               /\ IF c.kind = "open" THEN k.openedHere ELSE c.at = v[e][k]
    <3>1. PICK t \in 1..3, j \in Nat : Sent(e, k, c, t, j)
      BY <1>15, <2>3
    <3> QED
      BY <2>1, <3>1 DEF Matched
  <2> QED
    BY <2>2, <2>3 DEF Matched
<1>17. ASSUME NEW e \in Device, NEW k \in Key
       PROVE  Opening(v, e, k)'
  <2> DEFINE m == Mirror(e, k)
  <2>1. m \in Key /\ k.peer \in Device
    BY MirrorIs
  <2>2. SUFFICES ASSUME Sends(e, k, "open")'
                 PROVE  /\ v[e][k] = 0 /\ v[k.peer][m] = 0
                        /\ ~Held(k.peer, m)' /\ (Held(e, k)' => tunnels'[e][k].read = 0)
                        /\ ~Sends(e, k, "data")' /\ ~Sends(k.peer, m, "data")'
                        /\ ~Sends(k.peer, m, "close")'
    BY DEF Opening
  <2>3. /\ v[e][k] = 0 /\ v[k.peer][m] = 0
        /\ ~Held(k.peer, m) /\ (Held(e, k) => tunnels[e][k].read = 0)
        /\ ~Sends(e, k, "data") /\ ~Sends(k.peer, m, "data")
        /\ ~Sends(k.peer, m, "close")
    BY <1>9, <1>15, <2>2 DEF Opening
  <2>4. ~(e = d /\ k = key)
    BY <1>3, <1>11, <2>3
  <2> QED
    BY <1>8, <1>15, <2>1, <2>3, <2>4
<1>18. ASSUME NEW e \in Device, NEW k \in Key
       PROVE  ReadsAll(v, e, k)'
  <2> DEFINE m == Mirror(e, k)
  <2>1. m \in Key /\ k.peer \in Device /\ Mirror(k.peer, m) = k /\ m.peer = e
    BY MirrorIs
  <2>2. CASE k.peer = d /\ m = key
    <3>1. e = e0 /\ k = k0
      BY <1>3, <2>1, <2>2
    <3>2. Pops(e0, k0, 1) /\ Order(e0, k0)
      BY <1>3, <1>9, ReceiveMoves
    <3>3. ~Sends(e0, k0, "data")'
      <4>1. 1 \in 1..3 /\ c0.kind # "close"
        BY <1>4
      <4>2. ~Sends(e0, k0, c0.kind)'
        BY <1>4, <3>2, <4>1, FirstGone
      <4> QED
        BY <1>4, <4>2
    <3>4. tunnels'[d][key].read = v[e0][k0]
      BY <1>2, <1>4, <1>6, <1>7, <1>8, <1>10
    <3> QED
      BY <1>3, <3>1, <3>3, <3>4 DEF ReadsAll
  <2>3. CASE ~(k.peer = d /\ m = key)
    <3>1. Live(k.peer, m)' => Live(k.peer, m)
                              /\ tunnels'[k.peer][m].read = tunnels[k.peer][m].read
      BY <1>8, <2>1, <2>3 DEF Live
    <3>2. Held(e, k)' => Held(e, k)
      BY <1>8
    <3>3. k.peer = d => \A c \in Content : ~Sent(e, k, c, 1, 1)
      BY <1>3, <1>5, <2>3
    <3> QED
      BY <1>9, <3>1, <3>2, <3>3, ReceiveContinues, ReadsKept
  <2> QED
    BY <2>2, <2>3
<1>19. ASSUME NEW e \in Device, NEW k \in Key, Known(e, k)' PROVE Known(e, k)
  BY <1>8, <1>15, <1>19 DEF Known
<1> QED
  BY <1>14, <1>15, <1>16, <1>17, <1>18, <1>19 DEF Tidy

(* The opened tunnel is new to this end, and nothing was sent over it.     *)
LEMMA OpenedTidy ==
  ASSUME Typed, NEW d \in Device, Receive(d), NEW g, NEW v, Tidy(g, v),
         NEW frame, frame = Head(down[d]), NEW key, key = Decode(Head(down[d])),
         frame.kind = "open", Create(d, key, frame.run)
  PROVE  /\ Tidy(g, v)'
         /\ \A e \in Device, k \in Key : Known(e, k)' =>
              Known(e, k) \/ Known(k.peer, Mirror(e, k))
<1>1. PICK e0, k0 : Sender(d, key, frame, e0, k0)
  BY Received
<1>2. key \in Key /\ frame \in Carried /\ frame.run # 0 /\ frame.run \in 1..MaxOpens
  <2>1. key \in Key /\ frame \in Carried
    BY ReceiveEffect
  <2> QED
    BY <2>1, TunnelsAssumption DEF Carried, Frame
<1>3. /\ e0 \in Device /\ k0 \in Key /\ k0.peer = d /\ e0 = key.peer
      /\ Mirror(e0, k0) = key /\ Mirror(d, key) = k0 /\ Tunnel(e0, k0) = Tunnel(d, key)
  BY <1>1 DEF Sender
<1>4. key # k0
  BY <1>2, <1>3, MirrorIs
<1>5. PICK c0 \in Content : Sent(e0, k0, c0, 1, 1) /\ c0.kind = "open" /\ c0.run = frame.run
  <2>1. PICK c \in Content : Carries(frame, e0, k0, c)
    BY <1>1, <1>2 DEF Sender
  <2>2. Sent(e0, k0, c, 1, 1)
    BY <1>3, <2>1, Received
  <2> QED
    BY <2>1, <2>2 DEF Carries
<1>6. \A e \in Device, k \in Key, c \in Content :
         k.peer = d /\ Sent(e, k, c, 1, 1) => e = e0 /\ k = k0 /\ c.kind = "open"
  <2>1. \A e \in Device, k \in Key, c \in Content :
          k.peer = d /\ Sent(e, k, c, 1, 1) => Carries(frame, e, k, c)
    BY Received
  <2> QED
    BY <1>1, <2>1 DEF Sender, Carries
<1>7. \A e \in Device, k \in Key :
         Matched(g, v, e, k) /\ Opening(v, e, k) /\ Order(e, k) /\ ReadsAll(v, e, k)
  BY DEF Tidy
<1>8. c0.run = g[Tunnel(e0, k0)]
  BY <1>3, <1>5, <1>7 DEF Matched
<1>9. /\ v[e0][k0] = 0 /\ v[d][key] = 0
      /\ ~Held(d, key) /\ (Held(e0, k0) => tunnels[e0][k0].read = 0)
      /\ ~Sends(e0, k0, "data") /\ ~Sends(d, key, "data") /\ ~Sends(d, key, "close")
  <2>1. Sends(e0, k0, "open")
    BY <1>5 DEF Sends
  <2>2. Opening(v, e0, k0)
    BY <1>3, <1>7
  <2> QED
    BY <1>3, <2>1, <2>2 DEF Opening
<1>10. /\ \A e \in Device, k \in Key : Held(e, k)' <=> Held(e, k) \/ (e = d /\ k = key)
       /\ \A e \in Device, k \in Key : Held(e, k) => tunnels'[e][k] = tunnels[e][k]
       /\ tunnels'[d][key].run = frame.run /\ tunnels'[d][key].wrote = 0
       /\ tunnels'[d][key].read = 0
  <2>1. tunnels \in [Device -> Tables] /\ key \in Key /\ frame.run \in 1..MaxOpens
    BY <1>2 DEF Typed
  <2>2. /\ \A e \in Device : e # d => tunnels'[e] = tunnels[e]
        /\ \A k : k \in DOMAIN tunnels'[d] <=> k \in DOMAIN tunnels[d] \/ k = key
        /\ \A k \in DOMAIN tunnels[d] : k # key => tunnels'[d][k] = tunnels[d][k]
        /\ tunnels'[d][key] = [run |-> frame.run, ended |-> FALSE, wrote |-> 0, read |-> 0]
    BY <2>1, CreateType
  <2>3. \A e \in Device, k \in Key : Held(e, k)' <=> Held(e, k) \/ (e = d /\ k = key)
    BY <2>2 DEF Held
  <2>4. \A e \in Device, k \in Key : Held(e, k) => tunnels'[e][k] = tunnels[e][k]
    BY <1>9, <2>2 DEF Held
  <2>5. /\ tunnels'[d][key].run = frame.run /\ tunnels'[d][key].wrote = 0
        /\ tunnels'[d][key].read = 0
    BY <2>2
  <2> QED
    BY <2>3, <2>4, <2>5
<1>11. ASSUME NEW e \in Device, NEW k \in Key
       PROVE  /\ \A c \in Content, s \in 1..3, i \in Nat : Sent(e, k, c, s, i)' =>
                   \E t \in 1..3, j \in Nat : Sent(e, k, c, t, j)
              /\ \A kind : Sends(e, k, kind)' => Sends(e, k, kind)
              /\ Order(e, k)'
  BY <1>7, ReceiveSent
<1>12. ~Sends(e0, k0, "open")'
  <2>1. Pops(e0, k0, 1) /\ Order(e0, k0)
    BY <1>3, <1>7, ReceiveMoves
  <2>2. 1 \in 1..3 /\ c0.kind # "close"
    BY <1>5
  <2>3. ~Sends(e0, k0, c0.kind)'
    BY <1>5, <2>1, <2>2, FirstGone
  <2> QED
    BY <1>5, <2>3
<1>13. ASSUME NEW e \in Device, NEW k \in Key
       PROVE  Matched(g, v, e, k)'
  <2>1. Matched(g, v, e, k)
    BY <1>7
  <2>2. Held(e, k)' => /\ tunnels'[e][k].run = g[Tunnel(e, k)]
                       /\ tunnels'[e][k].wrote = v[e][k]
    <3>1. CASE Held(e, k)
      BY <1>10, <2>1, <3>1 DEF Matched
    <3>2. CASE e = d /\ k = key
      BY <1>3, <1>5, <1>8, <1>9, <1>10, <3>2
    <3> QED
      BY <1>10, <3>1, <3>2
  <2>3. ASSUME NEW c \in Content, NEW s \in 1..3, NEW i \in Nat, Sent(e, k, c, s, i)'
        PROVE  /\ c.run = g[Tunnel(e, k)]
               /\ IF c.kind = "open" THEN k.openedHere ELSE c.at = v[e][k]
    <3>1. PICK t \in 1..3, j \in Nat : Sent(e, k, c, t, j)
      BY <1>11, <2>3
    <3> QED
      BY <2>1, <3>1 DEF Matched
  <2> QED
    BY <2>2, <2>3 DEF Matched
<1>14. ASSUME NEW e \in Device, NEW k \in Key
       PROVE  Opening(v, e, k)'
  <2> DEFINE m == Mirror(e, k)
  <2>1. m \in Key /\ k.peer \in Device /\ Mirror(k.peer, m) = k /\ m.peer = e
    BY MirrorIs
  <2>2. SUFFICES ASSUME Sends(e, k, "open")'
                 PROVE  /\ v[e][k] = 0 /\ v[k.peer][m] = 0
                        /\ ~Held(k.peer, m)' /\ (Held(e, k)' => tunnels'[e][k].read = 0)
                        /\ ~Sends(e, k, "data")' /\ ~Sends(k.peer, m, "data")'
                        /\ ~Sends(k.peer, m, "close")'
    BY DEF Opening
  <2>3. /\ v[e][k] = 0 /\ v[k.peer][m] = 0
        /\ ~Held(k.peer, m) /\ (Held(e, k) => tunnels[e][k].read = 0)
        /\ ~Sends(e, k, "data") /\ ~Sends(k.peer, m, "data")
        /\ ~Sends(k.peer, m, "close")
    BY <1>7, <1>11, <2>2 DEF Opening
  <2>4. ~(k.peer = d /\ m = key)
    BY <1>3, <1>12, <2>1, <2>2
  <2>5. ~Held(k.peer, m)'
    BY <1>10, <2>1, <2>3, <2>4
  <2>6. Held(e, k)' => tunnels'[e][k].read = 0
    BY <1>10, <2>3
  <2> QED
    BY <1>11, <2>1, <2>3, <2>5, <2>6
<1>15. ASSUME NEW e \in Device, NEW k \in Key
       PROVE  ReadsAll(v, e, k)'
  <2> DEFINE m == Mirror(e, k)
  <2>1. m \in Key /\ k.peer \in Device /\ Mirror(k.peer, m) = k /\ m.peer = e
    BY MirrorIs
  <2>2. CASE k.peer = d /\ m = key
    <3>1. e = e0 /\ k = k0
      BY <1>3, <2>1, <2>2
    <3>2. ~Sends(e0, k0, "data")'
      BY <1>3, <1>9, <1>11
    <3> QED
      BY <1>3, <1>9, <1>10, <3>1, <3>2 DEF ReadsAll
  <2>3. CASE e = d /\ k = key
    <3>1. k.peer = e0 /\ m = k0
      BY <1>3, <2>3
    <3>2. ~Sends(d, key, "data")'
      BY <1>2, <1>9, <1>11
    <3>3. Held(e0, k0)' => tunnels'[e0][k0].read = 0
      BY <1>3, <1>9, <1>10
    <3> QED
      BY <1>9, <2>3, <3>1, <3>2, <3>3 DEF ReadsAll, Live
  <2>4. CASE ~(k.peer = d /\ m = key) /\ ~(e = d /\ k = key)
    <3>1. Live(k.peer, m)' => Live(k.peer, m)
                              /\ tunnels'[k.peer][m].read = tunnels[k.peer][m].read
      BY <1>10, <2>1, <2>4 DEF Live
    <3>2. Held(e, k)' => Held(e, k)
      BY <1>10, <2>4
    <3>3. k.peer = d => \A c \in Content : c.kind = "data" => ~Sent(e, k, c, 1, 1)
      BY <1>6
    <3> QED
      BY <1>7, <3>1, <3>2, <3>3, ReceiveContinues, ReadsKept
  <2> QED
    BY <2>2, <2>3, <2>4
<1>16. ASSUME NEW e \in Device, NEW k \in Key, Known(e, k)'
       PROVE  Known(e, k) \/ Known(k.peer, Mirror(e, k))
  <2>1. CASE e = d /\ k = key
    <3>1. Known(e0, k0)
      BY <1>5 DEF Known
    <3> QED
      BY <1>3, <2>1, <3>1
  <2>2. CASE ~(e = d /\ k = key)
    BY <1>10, <1>11, <1>16, <2>2 DEF Known
  <2> QED
    BY <2>1, <2>2
<1> QED
  BY <1>11, <1>13, <1>14, <1>15, <1>16 DEF Tidy

LEMMA ReceiveTidy ==
  ASSUME Typed, NEW d \in Device, Receive(d), NEW g, NEW v, Tidy(g, v),
         v \in [Device -> [Key -> 0..1]], ~broken
  PROVE  /\ Tidy(g, v)' /\ ~broken'
         /\ \A e \in Device, k \in Key : Known(e, k)' =>
              Known(e, k) \/ Known(k.peer, Mirror(e, k))
<1>1. PICK frame, key : frame = Head(down[d]) /\ key = Decode(Head(down[d]))
  OBVIOUS
<1>2. ASSUME Fewer PROVE \A e \in Device, k \in Key : Known(e, k)' => Known(e, k)
  BY <1>2, FewerKeeps
<1>3. CASE frame.kind = "open" /\ Create(d, key, frame.run) /\ UNCHANGED <<up, broken>>
  BY <1>1, <1>3, OpenedTidy
<1>4. CASE /\ frame.kind = "data" /\ (key \in DOMAIN tunnels[d] => tunnels[d][key].ended)
           /\ Refuse(d, key) \/ UNCHANGED <<up, tunnels, broken>>
  <2>1. tunnels' = tunnels \/ tunnels' = Without(d, key)
    BY <1>4 DEF Refuse
  <2>2. ~Live(d, key) /\ ~broken'
    BY <1>4 DEF Live, Held, Refuse
  <2>3. Fewer /\ Tidy(g, v)'
    BY <1>1, <2>1, <2>2, UnheardTidy
  <2> QED
    BY <1>2, <2>2, <2>3
<1>5. CASE /\ frame.kind = "data" /\ key \in DOMAIN tunnels[d] /\ ~tunnels[d][key].ended
           /\ tunnels' = [tunnels EXCEPT ![d] =
                [tunnels[d] EXCEPT ![key] = [tunnels[d][key] EXCEPT !.read = frame.at]]]
           /\ broken' = (broken \/ frame.run # tunnels[d][key].run
                                \/ frame.at # After(tunnels[d][key].read))
  <2>1. Live(d, key)
    BY <1>5 DEF Live, Held
  <2> QED
    BY <1>1, <1>5, <2>1, ReadTidy
<1>6. CASE frame.kind = "close" /\ OnClose(d, frame)
  <2>1. tunnels' = Without(d, key)
    BY <1>1, <1>6 DEF OnClose
  <2>2. Fewer /\ Tidy(g, v)'
    BY <1>1, <1>6, <2>1, UnheardTidy
  <2>3. ~broken'
    BY <1>1, <1>6, CloseIsLast
  <2> QED
    BY <1>2, <2>2, <2>3
<1> QED
  BY <1>1, <1>3, <1>4, <1>5, <1>6, ReceiveEffect

(* Nothing is on the way when a session writes.                            *)
LEMMA WriteTidy ==
  ASSUME Typed, NEW d \in Device, NEW key \in DOMAIN tunnels[d], Write(d, key),
         NEW g, NEW v \in [Device -> [Key -> 0..1]], Tidy(g, v)
  PROVE  /\ \E w \in [Device -> [Key -> 0..1]] : Tidy(g, w)'
         /\ \A e \in Device, k \in Key : Known(e, k)' => Known(e, k)
<1>1. key \in Key /\ tunnels[d][key] \in Session /\ Held(d, key)
  BY TableIs DEF Typed, Held
<1>2. PICK at : at = After(tunnels[d][key].wrote)
  OBVIOUS
<1>3. PICK run : run = tunnels[d][key].run
  OBVIOUS
<1>4. \A e \in Device, k \in Key :
         Matched(g, v, e, k) /\ Opening(v, e, k) /\ Order(e, k) /\ ReadsAll(v, e, k)
  BY DEF Tidy
<1>5. run = g[Tunnel(d, key)] /\ tunnels[d][key].wrote = v[d][key]
  BY <1>1, <1>3, <1>4 DEF Matched
<1>6. v[d][key] \in 0..1 /\ at \in 0..1 /\ at = After(v[d][key]) /\ After(at) = v[d][key]
  <2>1. v[d][key] \in 0..1 /\ at = After(v[d][key])
    BY <1>1, <1>2, <1>5
  <2> QED
    BY <2>1, AfterIs
<1> DEFINE new == [tunnels[d][key] EXCEPT !.wrote = at]
           piece == [key |-> key, run |-> run, at |-> at, end |-> FALSE]
<1>7. /\ tunnels' = [tunnels EXCEPT ![d] = [tunnels[d] EXCEPT ![key] = new]]
      /\ pumped' = [pumped EXCEPT ![d] = Append(@, piece)]
      /\ up' = up /\ down' = down
      /\ \A e \in Device : pumped[e] = <<>> /\ up[e] = <<>> /\ down[e] = <<>>
  BY <1>2, <1>3 DEF Write, Busy
<1>8. new \in Session /\ new.run = run /\ new.wrote = at
      /\ new.ended = tunnels[d][key].ended /\ new.read = tunnels[d][key].read
  BY <1>1, <1>3, <1>6 DEF Session
<1>9. piece \in Pump
  <2>1. run \in 1..MaxOpens
    BY <1>1, <1>3 DEF Session
  <2> QED
    BY <1>1, <1>6, <2>1 DEF Pump
<1>10. /\ \A e \in Device, k \in Key : Held(e, k)' <=> Held(e, k)
       /\ \A e \in Device, k \in Key : Held(e, k) =>
            tunnels'[e][k] = IF e = d /\ k = key THEN new ELSE tunnels[e][k]
  <2> HIDE DEF new
  <2> QED
    BY <1>7, <1>8, SessionStepType DEF Held, Typed
<1>11. \A e \in Device, k \in Key, c \in Content, s \in 1..3, i \in Nat : ~Sent(e, k, c, s, i)
  <2>1. SUFFICES ASSUME NEW e \in Device, NEW k \in Key, NEW c \in Content,
                        NEW s \in 1..3, NEW i \in Nat, Sent(e, k, c, s, i)
                 PROVE  FALSE
    OBVIOUS
  <2>2. DOMAIN pumped[e] = {} /\ DOMAIN up[e] = {} /\ DOMAIN down[k.peer] = {}
    BY <1>7, NoTable DEF Key
  <2> QED
    BY <2>1, <2>2 DEF Sent, InDown, InUp, InPump
<1>12. ASSUME NEW e \in Device, NEW k \in Key, NEW c \in Content, NEW s \in 1..3, NEW i \in Nat
       PROVE  Sent(e, k, c, s, i)' <=> s = 3 /\ i = 1 /\ e = d /\ Gives(piece, k, c)
  <2> HIDE DEF piece
  <2>0. pumped' = [pumped EXCEPT ![d] = Append(@, piece)]
    BY <1>7
  <2>1. InPump(e, k, c, i)' <=>
          InPump(e, k, c, i) \/ (e = d /\ i = Len(pumped[d]) + 1 /\ Gives(piece, k, c))
    BY <1>9, <2>0, PumpGrows
  <2>8. pumped[d] = <<>>
    BY <1>7
  <2>9. Len(pumped[d]) + 1 = 1
    BY <2>8
  <2>2. InPump(e, k, c, i)' <=> InPump(e, k, c, i) \/ (e = d /\ i = 1 /\ Gives(piece, k, c))
    BY <2>1, <2>9
  <2>3. InUp(e, k, c, i)' <=> InUp(e, k, c, i)
    BY <1>7 DEF InUp, Carries
  <2>4. InDown(e, k, c, i)' <=> InDown(e, k, c, i)
    BY <1>7 DEF InDown, Carries
  <2>5. ~Sent(e, k, c, 1, i) /\ ~Sent(e, k, c, 2, i) /\ ~Sent(e, k, c, 3, i)
    BY <1>11
  <2>6. ~InPump(e, k, c, i) /\ ~InUp(e, k, c, i) /\ ~InDown(e, k, c, i)
    BY <2>5 DEF Sent
  <2> QED
    BY <2>2, <2>3, <2>4, <2>6 DEF Sent
<1>13. \A k \in Key, c \in Content : Gives(piece, k, c) =>
          k = key /\ c.kind = "data" /\ c.run = run /\ c.at = at
  BY DEF Gives
<1>14. \E c \in Content : Gives(piece, key, c)
  <2> DEFINE c == [kind |-> "data", run |-> run, at |-> at]
  <2>1. run \in 1..MaxOpens
    BY <1>1, <1>3 DEF Session
  <2>2. c \in Content
    BY <1>6, <2>1 DEF Content
  <2>3. Gives(piece, key, c)
    BY DEF Gives
  <2> QED
    BY <2>2, <2>3
<1> HIDE DEF new, piece
<1>15. PICK w \in [Device -> [Key -> 0..1]] :
          \A e \in Device, k \in Key : w[e][k] = IF e = d /\ k = key THEN at ELSE v[e][k]
  <2> DEFINE w == [e \in Device |-> [k \in Key |-> IF e = d /\ k = key THEN at ELSE v[e][k]]]
  <2>1. w \in [Device -> [Key -> 0..1]]
    BY <1>6
  <2> QED
    BY <2>1
<1>16. ASSUME NEW e \in Device, NEW k \in Key
       PROVE  /\ ~Sends(e, k, "open")'
              /\ Sends(e, k, "data")' <=> e = d /\ k = key
              /\ Continues(e, k)' => Held(e, k)
              /\ ~Sends(e, k, "data")
  <2>1. ~Sends(e, k, "open")' /\ (Sends(e, k, "data")' => e = d /\ k = key)
    BY <1>12, <1>13 DEF Sends
  <2>2. e = d /\ k = key => Sends(e, k, "data")'
    <3>1. ASSUME e = d, k = key PROVE Sends(e, k, "data")'
      <4>1. PICK c \in Content : Gives(piece, key, c)
        BY <1>14
      <4>2. Sent(e, k, c, 3, 1)' /\ c.kind = "data"
        BY <1>1, <1>12, <1>13, <3>1, <4>1
      <4> QED
        BY <4>2 DEF Sends
    <3> QED
      BY <3>1
  <2>3. Continues(e, k)' => Held(e, k)
    BY <1>10, <1>12 DEF Continues
  <2>4. ~Sends(e, k, "data")
    BY <1>11 DEF Sends
  <2> QED
    BY <2>1, <2>2, <2>3, <2>4
<1>17. ASSUME NEW e \in Device, NEW k \in Key
       PROVE  Matched(g, w, e, k)' /\ Opening(w, e, k)' /\ Order(e, k)' /\ ReadsAll(w, e, k)'
  <2>1. Matched(g, w, e, k)'
    <3>1. Held(e, k)' => /\ tunnels'[e][k].run = g[Tunnel(e, k)]
                         /\ tunnels'[e][k].wrote = w[e][k]
      <4>1. Matched(g, v, e, k)
        BY <1>4
      <4> QED
        BY <1>3, <1>5, <1>8, <1>10, <1>15, <4>1 DEF Matched
    <3>2. ASSUME NEW c \in Content, NEW s \in 1..3, NEW i \in Nat, Sent(e, k, c, s, i)'
          PROVE  /\ c.run = g[Tunnel(e, k)]
                 /\ IF c.kind = "open" THEN k.openedHere ELSE c.at = w[e][k]
      BY <1>5, <1>12, <1>13, <1>15, <3>2
    <3> QED
      BY <3>1, <3>2 DEF Matched
  <2>2. Opening(w, e, k)'
    BY <1>16 DEF Opening
  <2>3. Order(e, k)'
    BY <1>12, <1>13 DEF Order
  <2>4. ReadsAll(w, e, k)'
    <3> DEFINE m == Mirror(e, k)
    <3>1. m \in Key /\ k.peer \in Device
      BY MirrorIs
    <3>2. SUFFICES ASSUME Live(k.peer, m)', Continues(e, k)'
                   PROVE  tunnels'[k.peer][m].read =
                            IF Sends(e, k, "data")' THEN After(w[e][k]) ELSE w[e][k]
      BY DEF ReadsAll
    <3>3. Live(k.peer, m) /\ tunnels'[k.peer][m].read = tunnels[k.peer][m].read
      BY <1>8, <1>10, <3>1, <3>2 DEF Live
    <3>4. Continues(e, k)
      BY <1>16, <3>2 DEF Continues
    <3>5. tunnels[k.peer][m].read = v[e][k]
      BY <1>4, <1>16, <3>3, <3>4 DEF ReadsAll
    <3> QED
      BY <1>6, <1>15, <1>16, <3>3, <3>5
  <2> QED
    BY <2>1, <2>2, <2>3, <2>4
<1>18. ASSUME NEW e \in Device, NEW k \in Key, Known(e, k)' PROVE Known(e, k)
  <2>1. Held(e, k)
    BY <1>1, <1>10, <1>12, <1>13, <1>18 DEF Known
  <2> QED
    BY <2>1 DEF Known
<1>19. Tidy(g, w)'
  BY <1>17 DEF Tidy
<1> QED
  BY <1>18, <1>19

LEMMA EndSessionTidy ==
  ASSUME Typed, NEW d \in Device, NEW key \in DOMAIN tunnels[d], EndSession(d, key),
         NEW g, NEW v \in [Device -> [Key -> 0..1]], Tidy(g, v)
  PROVE  /\ Tidy(g, v)'
         /\ \A e \in Device, k \in Key : Known(e, k)' => Known(e, k)
<1>1. key \in Key /\ tunnels[d][key] \in Session /\ Held(d, key)
  BY TableIs DEF Typed, Held
<1>2. PICK run, at : run = tunnels[d][key].run /\ at = tunnels[d][key].wrote
  OBVIOUS
<1>3. \A e \in Device, k \in Key :
         Matched(g, v, e, k) /\ Opening(v, e, k) /\ Order(e, k) /\ ReadsAll(v, e, k)
  BY DEF Tidy
<1>4. run = g[Tunnel(d, key)] /\ at = v[d][key]
  BY <1>1, <1>2, <1>3 DEF Matched
<1> DEFINE new == [tunnels[d][key] EXCEPT !.ended = TRUE]
           piece == [key |-> key, run |-> run, at |-> at, end |-> TRUE]
<1>5. /\ tunnels' = [tunnels EXCEPT ![d] = [tunnels[d] EXCEPT ![key] = new]]
      /\ pumped' = [pumped EXCEPT ![d] = Append(@, piece)]
      /\ up' = up /\ down' = down
  BY <1>2 DEF EndSession
<1>6. new \in Session /\ new.run = run /\ new.wrote = at
      /\ new.ended = TRUE /\ new.read = tunnels[d][key].read
  BY <1>1, <1>2 DEF Session
<1>7. piece \in Pump
  <2>1. run \in 1..MaxOpens /\ at \in 0..1
    BY <1>1, <1>2 DEF Session
  <2> QED
    BY <1>1, <2>1 DEF Pump
<1>8. /\ \A e \in Device, k \in Key : Held(e, k)' <=> Held(e, k)
      /\ \A e \in Device, k \in Key : Held(e, k) =>
           tunnels'[e][k] = IF e = d /\ k = key THEN new ELSE tunnels[e][k]
  <2> HIDE DEF new
  <2> QED
    BY <1>5, <1>6, SessionStepType DEF Held, Typed
<1>9. PICK n \in Nat : n = Len(pumped[d]) + 1
  BY DEF Typed
<1>10. ASSUME NEW e \in Device, NEW k \in Key, NEW c \in Content, NEW s \in 1..3, NEW i \in Nat
       PROVE  Sent(e, k, c, s, i)' <=>
                Sent(e, k, c, s, i) \/ (s = 3 /\ i = n /\ e = d /\ Gives(piece, k, c))
  <2> HIDE DEF piece
  <2>1. InPump(e, k, c, i)' <=> InPump(e, k, c, i) \/ (e = d /\ i = n /\ Gives(piece, k, c))
    BY <1>5, <1>7, <1>9, PumpGrows
  <2>2. InUp(e, k, c, i)' <=> InUp(e, k, c, i)
    BY <1>5 DEF InUp, Carries
  <2>3. InDown(e, k, c, i)' <=> InDown(e, k, c, i)
    BY <1>5 DEF InDown, Carries
  <2> QED
    BY <2>1, <2>2, <2>3 DEF Sent
<1>11. \A k \in Key, c \in Content : Gives(piece, k, c) =>
          k = key /\ c.kind = "close" /\ c.run = run /\ c.at = at
  BY DEF Gives
<1> HIDE DEF new, piece
<1>12. ASSUME NEW e \in Device, NEW k \in Key
       PROVE  /\ Sends(e, k, "open")' <=> Sends(e, k, "open")
              /\ Sends(e, k, "data")' <=> Sends(e, k, "data")
              /\ Sends(e, k, "close")' => Sends(e, k, "close") \/ (e = d /\ k = key)
              /\ Continues(e, k)' => Continues(e, k)
              /\ Known(e, k)' => Known(e, k)
  <2>1. \A c \in Content, s \in 1..3, i \in Nat : Sent(e, k, c, s, i)' =>
           Sent(e, k, c, s, i) \/ (s = 3 /\ e = d /\ k = key /\ c.kind = "close")
    BY <1>10, <1>11
  <2>2. \A c \in Content, s \in 1..3, i \in Nat : Sent(e, k, c, s, i) => Sent(e, k, c, s, i)'
    BY <1>10
  <2>3. Continues(e, k)' => Continues(e, k)
    BY <1>8, <2>1 DEF Continues
  <2>4. Known(e, k)' => Known(e, k)
    BY <1>1, <1>8, <2>1 DEF Known
  <2> QED
    BY <2>1, <2>2, <2>3, <2>4 DEF Sends
<1>13. ASSUME NEW e \in Device, NEW k \in Key
       PROVE  Matched(g, v, e, k)' /\ Opening(v, e, k)' /\ Order(e, k)' /\ ReadsAll(v, e, k)'
  <2> DEFINE m == Mirror(e, k)
  <2>0. m \in Key /\ k.peer \in Device
    BY MirrorIs
  <2>1. Matched(g, v, e, k)'
    <3>0. Matched(g, v, e, k)
      BY <1>3
    <3>1. Held(e, k)' => /\ tunnels'[e][k].run = g[Tunnel(e, k)]
                         /\ tunnels'[e][k].wrote = v[e][k]
      BY <1>4, <1>6, <1>8, <3>0 DEF Matched
    <3>2. ASSUME NEW c \in Content, NEW s \in 1..3, NEW i \in Nat, Sent(e, k, c, s, i)'
          PROVE  /\ c.run = g[Tunnel(e, k)]
                 /\ IF c.kind = "open" THEN k.openedHere ELSE c.at = v[e][k]
      BY <1>4, <1>10, <1>11, <3>0, <3>2 DEF Matched
    <3> QED
      BY <3>1, <3>2 DEF Matched
  <2>2. Opening(v, e, k)'
    <3>1. SUFFICES ASSUME Sends(e, k, "open")'
                   PROVE  /\ v[e][k] = 0 /\ v[k.peer][m] = 0
                          /\ ~Held(k.peer, m)' /\ (Held(e, k)' => tunnels'[e][k].read = 0)
                          /\ ~Sends(e, k, "data")' /\ ~Sends(k.peer, m, "data")'
                          /\ ~Sends(k.peer, m, "close")'
      BY DEF Opening
    <3>2. /\ v[e][k] = 0 /\ v[k.peer][m] = 0
          /\ ~Held(k.peer, m) /\ (Held(e, k) => tunnels[e][k].read = 0)
          /\ ~Sends(e, k, "data") /\ ~Sends(k.peer, m, "data")
          /\ ~Sends(k.peer, m, "close")
      BY <1>3, <1>12, <3>1 DEF Opening
    <3>3. ~(k.peer = d /\ m = key)
      BY <1>1, <3>2
    <3>4. Held(e, k)' => tunnels'[e][k].read = 0
      BY <1>6, <1>8, <3>2
    <3> QED
      BY <1>8, <1>12, <2>0, <3>2, <3>3, <3>4
  <2>3. Order(e, k)'
    <3>1. SUFFICES ASSUME NEW b \in Content, NEW c \in Content, NEW s \in 1..3, NEW t \in 1..3,
                          NEW i \in Nat, NEW j \in Nat,
                          Sent(e, k, b, s, i)', Sent(e, k, c, t, j)'
                   PROVE  /\ b.kind = c.kind /\ b.kind # "close" => s = t /\ i = j
                          /\ b.kind = "data" /\ c.kind = "close" => Before(s, i, t, j)
      BY DEF Order
    <3>2. b.kind # "close" => Sent(e, k, b, s, i)
      BY <1>10, <1>11, <3>1
    <3>3. CASE Sent(e, k, c, t, j)
      BY <1>3, <3>2, <3>3 DEF Order
    <3>4. CASE ~Sent(e, k, c, t, j)
      <4>1. t = 3 /\ j = n /\ e = d /\ c.kind = "close"
        BY <1>10, <1>11, <3>1, <3>4
      <4>2. b.kind # "close" => (s = 3 => i <= Len(pumped[d]))
        BY <3>2, <4>1, SentPlace
      <4>3. Len(pumped[d]) \in Nat
        BY DEF Typed
      <4> QED
        BY <1>9, <4>1, <4>2, <4>3 DEF Before
    <3> QED
      BY <3>3, <3>4
  <2>4. ReadsAll(v, e, k)'
    <3>1. Live(k.peer, m)' => Live(k.peer, m)
                              /\ tunnels'[k.peer][m].read = tunnels[k.peer][m].read
      BY <1>6, <1>8, <2>0 DEF Live
    <3> QED
      BY <1>3, <1>12, <3>1, ReadsKept
  <2> QED
    BY <2>1, <2>2, <2>3, <2>4
<1> QED
  BY <1>12, <1>13 DEF Tidy

(* The two ends of a tunnel.                                               *)
LEMMA TunnelEnds ==
  ASSUME NEW e \in Device, NEW k \in Key, NEW d \in Device, NEW key \in Key,
         Tunnel(e, k) = Tunnel(d, key)
  PROVE  (e = d /\ k = key) \/ (e = key.peer /\ k = Mirror(d, key))
<1> DEFINE m == Mirror(d, key)
<1>1. m \in Key /\ m.peer = d /\ m.id = key.id /\ (m.openedHere <=> ~key.openedHere)
  BY MirrorIs
<1> HIDE DEF m
<1>2. CASE k.openedHere /\ key.openedHere
  <2>1. e = d /\ k.peer = key.peer /\ k.id = key.id
    BY <1>2 DEF Tunnel
  <2> QED
    BY <1>2, <2>1, KeyIs
<1>3. CASE ~k.openedHere /\ ~key.openedHere
  <2>1. e = d /\ k.peer = key.peer /\ k.id = key.id
    BY <1>3 DEF Tunnel
  <2> QED
    BY <1>3, <2>1, KeyIs
<1>4. CASE k.openedHere /\ ~key.openedHere
  <2>1. e = key.peer /\ k.peer = d /\ k.id = key.id
    BY <1>4 DEF Tunnel
  <2> QED
    BY <1>1, <1>4, <2>1, KeyIs DEF m
<1>5. CASE ~k.openedHere /\ key.openedHere
  <2>1. e = key.peer /\ k.peer = d /\ k.id = key.id
    BY <1>5 DEF Tunnel
  <2> QED
    BY <1>1, <1>5, <2>1, KeyIs DEF m
<1> QED
  BY <1>2, <1>3, <1>4, <1>5

(* A number used for the first time: neither end was known.                *)
LEMMA OpenTidy ==
  ASSUME Typed, NEW d \in Device, NEW peer \in Device, Open(d, peer), ~reused', Numbered,
         NEW g \in [Device \X Device \X (1..MaxOpens) -> Nat],
         NEW v \in [Device -> [Key -> 0..1]], Tidy(g, v)
  PROVE  /\ \E h \in [Device \X Device \X (1..MaxOpens) -> Nat],
               w \in [Device -> [Key -> 0..1]] : Tidy(h, w)'
         /\ Numbered'
<1>1. PICK id, run : id = nextId[d] /\ run = opens + 1
  OBVIOUS
<1>2. id \in 1..MaxOpens /\ run \in 1..MaxOpens
  <2>1. opens \in 0..MaxOpens /\ opens < MaxOpens
    BY DEF Typed, Open
  <2>2. nextId[d] \in 1..MaxOpens + 1 /\ nextId[d] <= opens + 1
    BY DEF Typed
  <2>3. MaxOpens \in Nat
    BY TunnelsAssumption
  <2> QED
    BY <1>1, <2>1, <2>2, <2>3
<1>3. PICK key \in Key : key = [peer |-> peer, id |-> id, openedHere |-> TRUE]
  BY <1>2 DEF Key
<1>4. key.peer = peer /\ key.id = id /\ key.openedHere
  BY <1>3
<1>5. PICK mirror : mirror = Mirror(d, key)
  OBVIOUS
<1>6. /\ mirror \in Key /\ mirror.peer = d /\ mirror.id = id /\ mirror # key
      /\ Mirror(peer, mirror) = key /\ Mirror(d, key) = mirror
      /\ Opener(d, key) = d /\ Opener(peer, mirror) = d
      /\ Tunnel(peer, mirror) = Tunnel(d, key)
      /\ Tunnel(d, key) \in Device \X Device \X (1..MaxOpens)
  <2>1. Opener(d, key) = d
    BY <1>4 DEF Opener
  <2>2. /\ mirror \in Key /\ mirror.peer = d /\ mirror.id = key.id /\ mirror # key
        /\ Mirror(key.peer, mirror) = key
        /\ Opener(key.peer, mirror) = Opener(d, key)
        /\ Tunnel(key.peer, mirror) = Tunnel(d, key)
        /\ Tunnel(d, key) \in Device \X Device \X (1..MaxOpens)
    <3> DEFINE m == Mirror(d, key)
    <3>1. /\ m \in Key /\ m.peer = d /\ m.id = key.id /\ m # key
          /\ Mirror(key.peer, m) = key
          /\ Opener(key.peer, m) = Opener(d, key)
          /\ Tunnel(key.peer, m) = Tunnel(d, key)
          /\ Tunnel(d, key) \in Device \X Device \X (1..MaxOpens)
      BY MirrorIs
    <3> HIDE DEF m
    <3>2. mirror = m
      BY <1>5 DEF m
    <3> QED
      BY <3>1, <3>2
  <2> QED
    BY <1>4, <1>5, <2>1, <2>2
<1>7. PICK frame \in Carried : frame = Encode("open", key, run, 0)
  BY <1>2, <1>4, EncodeType
<1>8. frame.kind = "open" /\ frame.run = run /\ frame.at = 0 /\ frame.opener
      /\ frame.id = id /\ frame.device = peer
  BY <1>4, <1>7 DEF Encode
<1>9. /\ Create(d, key, run)
      /\ up' = [up EXCEPT ![d] = Append(@, frame)]
      /\ reused' = (reused \/ id \in usedIds[d])
      /\ usedIds' = [usedIds EXCEPT ![d] = @ \cup {id}]
      /\ down' = down /\ pumped' = pumped
  BY <1>1, <1>3, <1>7 DEF Open
<1>10. id \notin usedIds[d]
  BY <1>9
<1>11. ~Known(d, key) /\ ~Known(peer, mirror)
  BY <1>4, <1>6, <1>10 DEF Numbered
<1>12. ~Held(d, key) /\ ~Held(peer, mirror)
       /\ \A c \in Content, s \in 1..3, i \in Nat :
            ~Sent(d, key, c, s, i) /\ ~Sent(peer, mirror, c, s, i)
  BY <1>11 DEF Known
<1>13. /\ \A e \in Device, k \in Key : Held(e, k)' <=> Held(e, k) \/ (e = d /\ k = key)
       /\ \A e \in Device, k \in Key : Held(e, k) => tunnels'[e][k] = tunnels[e][k]
       /\ tunnels'[d][key].run = run /\ tunnels'[d][key].wrote = 0
       /\ tunnels'[d][key].read = 0
  <2>1. tunnels \in [Device -> Tables]
    BY DEF Typed
  <2>2. /\ \A e \in Device : e # d => tunnels'[e] = tunnels[e]
        /\ \A k : k \in DOMAIN tunnels'[d] <=> k \in DOMAIN tunnels[d] \/ k = key
        /\ \A k \in DOMAIN tunnels[d] : k # key => tunnels'[d][k] = tunnels[d][k]
        /\ tunnels'[d][key] = [run |-> run, ended |-> FALSE, wrote |-> 0, read |-> 0]
    BY <1>2, <1>9, <2>1, CreateType
  <2>3. \A e \in Device, k \in Key : Held(e, k)' <=> Held(e, k) \/ (e = d /\ k = key)
    BY <2>2 DEF Held
  <2>4. \A e \in Device, k \in Key : Held(e, k) => tunnels'[e][k] = tunnels[e][k]
    BY <1>12, <2>2 DEF Held
  <2>5. /\ tunnels'[d][key].run = run /\ tunnels'[d][key].wrote = 0
        /\ tunnels'[d][key].read = 0
    BY <2>2
  <2> QED
    BY <2>3, <2>4, <2>5
<1>14. PICK n \in Nat : n = Len(up[d]) + 1
  BY DEF Typed
<1>15. \A k \in Key, c \in Content : Carries(frame, k.peer, k, c) <=>
          k = key /\ c.kind = "open" /\ c.run = run /\ c.at = 0
  <2>1. SUFFICES ASSUME NEW k \in Key, NEW c \in Content
                 PROVE  Carries(frame, k.peer, k, c) <=>
                          k = key /\ c.kind = "open" /\ c.run = run /\ c.at = 0
    OBVIOUS
  <2>2. Carries(frame, k.peer, k, c) => k = key
    BY <1>4, <1>8, KeyIs DEF Carries
  <2> QED
    BY <1>4, <1>8, <2>2 DEF Carries
<1>16. ASSUME NEW e \in Device, NEW k \in Key, NEW c \in Content, NEW s \in 1..3, NEW i \in Nat
       PROVE  Sent(e, k, c, s, i)' <=>
                \/ Sent(e, k, c, s, i)
                \/ s = 2 /\ i = n /\ e = d /\ k = key /\ c.kind = "open" /\ c.run = run /\ c.at = 0
  <2>1. InUp(e, k, c, i)' <=> InUp(e, k, c, i) \/ (e = d /\ i = n /\ Carries(frame, k.peer, k, c))
    BY <1>9, <1>14, UpGrows
  <2>2. InPump(e, k, c, i)' <=> InPump(e, k, c, i)
    BY <1>9 DEF InPump, Gives
  <2>3. InDown(e, k, c, i)' <=> InDown(e, k, c, i)
    BY <1>9 DEF InDown, Carries
  <2> QED
    BY <1>15, <2>1, <2>2, <2>3 DEF Sent
<1>17. PICK h \in [Device \X Device \X (1..MaxOpens) -> Nat] :
          \A T \in Device \X Device \X (1..MaxOpens) :
            h[T] = IF T = Tunnel(d, key) THEN run ELSE g[T]
  <2> DEFINE h == [T \in Device \X Device \X (1..MaxOpens) |->
                     IF T = Tunnel(d, key) THEN run ELSE g[T]]
  <2>1. h \in [Device \X Device \X (1..MaxOpens) -> Nat]
    BY <1>2
  <2> QED
    BY <2>1
<1>18. PICK w \in [Device -> [Key -> 0..1]] :
          \A e \in Device, k \in Key :
            w[e][k] = IF (e = d /\ k = key) \/ (e = peer /\ k = mirror) THEN 0 ELSE v[e][k]
  <2> DEFINE w == [e \in Device |-> [k \in Key |->
                     IF (e = d /\ k = key) \/ (e = peer /\ k = mirror) THEN 0 ELSE v[e][k]]]
  <2>1. w \in [Device -> [Key -> 0..1]]
    OBVIOUS
  <2> QED
    BY <2>1
<1>19. \A e \in Device, k \in Key :
         Matched(g, v, e, k) /\ Opening(v, e, k) /\ Order(e, k) /\ ReadsAll(v, e, k)
  BY DEF Tidy
<1>20. /\ h[Tunnel(d, key)] = run /\ w[d][key] = 0 /\ w[peer][mirror] = 0
       /\ ~Held(peer, mirror)'
       /\ \A c \in Content, s \in 1..3, i \in Nat : ~Sent(peer, mirror, c, s, i)'
       /\ \A c \in Content, s \in 1..3, i \in Nat : Sent(d, key, c, s, i)' =>
            s = 2 /\ i = n /\ c.kind = "open" /\ c.run = run
  BY <1>6, <1>12, <1>13, <1>16, <1>17, <1>18
\* The opener's end.
<1>21. Matched(h, w, d, key)' /\ Opening(w, d, key)' /\ Order(d, key)' /\ ReadsAll(w, d, key)'
  <2>1. Matched(h, w, d, key)'
    BY <1>4, <1>13, <1>20 DEF Matched
  <2>2. Opening(w, d, key)'
    <3>1. ~Sends(d, key, "data")' /\ ~Sends(peer, mirror, "data")' /\ ~Sends(peer, mirror, "close")'
      BY <1>20 DEF Sends
    <3> QED
      BY <1>4, <1>6, <1>13, <1>20, <3>1 DEF Opening
  <2>3. Order(d, key)'
    BY <1>20 DEF Order
  <2>4. ReadsAll(w, d, key)'
    <3>1. ~Live(peer, mirror)'
      BY <1>20 DEF Live
    <3> QED
      BY <1>4, <1>6, <3>1 DEF ReadsAll
  <2> QED
    BY <2>1, <2>2, <2>3, <2>4
\* The other end: it has not heard of the tunnel.
<1>22. Matched(h, w, peer, mirror)' /\ Opening(w, peer, mirror)'
       /\ Order(peer, mirror)' /\ ReadsAll(w, peer, mirror)'
  <2>1. Matched(h, w, peer, mirror)'
    BY <1>6, <1>20 DEF Matched
  <2>2. Opening(w, peer, mirror)'
    <3>1. ~Sends(peer, mirror, "open")'
      BY <1>20 DEF Sends
    <3> QED
      BY <3>1 DEF Opening
  <2>3. Order(peer, mirror)'
    BY <1>6, <1>20 DEF Order
  <2>4. ReadsAll(w, peer, mirror)'
    <3>1. ~Continues(peer, mirror)'
      BY <1>20 DEF Continues
    <3> QED
      BY <3>1 DEF ReadsAll
  <2> QED
    BY <2>1, <2>2, <2>3, <2>4
\* Every other tunnel.
<1>23. ASSUME NEW e \in Device, NEW k \in Key,
              ~(e = d /\ k = key), ~(e = peer /\ k = mirror)
       PROVE  Matched(h, w, e, k)' /\ Opening(w, e, k)' /\ Order(e, k)' /\ ReadsAll(w, e, k)'
  <2> DEFINE m == Mirror(e, k)
  <2>1. /\ m \in Key /\ k.peer \in Device /\ Mirror(k.peer, m) = k /\ m.peer = e
        /\ Tunnel(e, k) \in Device \X Device \X (1..MaxOpens)
    BY MirrorIs
  <2>2. ~(k.peer = d /\ m = key) /\ ~(k.peer = peer /\ m = mirror)
    BY <1>4, <1>6, <1>23, <2>1
  <2>3. Tunnel(e, k) # Tunnel(d, key)
    BY <1>4, <1>6, <1>23, TunnelEnds
  <2>4. h[Tunnel(e, k)] = g[Tunnel(e, k)] /\ w[e][k] = v[e][k] /\ w[k.peer][m] = v[k.peer][m]
    BY <1>17, <1>18, <1>23, <2>1, <2>2, <2>3
  <2>5. /\ Held(e, k)' <=> Held(e, k)
        /\ Held(e, k) => tunnels'[e][k] = tunnels[e][k]
        /\ Held(k.peer, m)' <=> Held(k.peer, m)
        /\ Held(k.peer, m) => tunnels'[k.peer][m] = tunnels[k.peer][m]
    BY <1>13, <1>23, <2>1, <2>2
  <2>6. Stays(e, k) /\ Stays(k.peer, m)
    BY <1>16, <1>23, <2>1, <2>2 DEF Stays
  <2>7. /\ \A kind : Sends(e, k, kind)' <=> Sends(e, k, kind)
        /\ \A kind : Sends(k.peer, m, kind)' <=> Sends(k.peer, m, kind)
        /\ Order(e, k)'
    BY <1>19, <2>6, StaysKeeps
  <2>8. Matched(h, w, e, k)'
    <3>0. Matched(g, v, e, k)
      BY <1>19
    <3>1. Held(e, k)' => /\ tunnels'[e][k].run = h[Tunnel(e, k)]
                         /\ tunnels'[e][k].wrote = w[e][k]
      BY <2>4, <2>5, <3>0 DEF Matched
    <3>2. ASSUME NEW c \in Content, NEW s \in 1..3, NEW i \in Nat, Sent(e, k, c, s, i)'
          PROVE  /\ c.run = h[Tunnel(e, k)]
                 /\ IF c.kind = "open" THEN k.openedHere ELSE c.at = w[e][k]
      <4>1. Sent(e, k, c, s, i)
        BY <2>6, <3>2 DEF Stays
      <4> QED
        BY <2>4, <3>0, <4>1 DEF Matched
    <3> QED
      BY <3>1, <3>2 DEF Matched
  <2>9. Opening(w, e, k)'
    <3>1. Opening(v, e, k)
      BY <1>19
    <3>2. SUFFICES ASSUME Sends(e, k, "open")'
                   PROVE  /\ w[e][k] = 0 /\ w[k.peer][m] = 0
                          /\ ~Held(k.peer, m)' /\ (Held(e, k)' => tunnels'[e][k].read = 0)
                          /\ ~Sends(e, k, "data")' /\ ~Sends(k.peer, m, "data")'
                          /\ ~Sends(k.peer, m, "close")'
      BY DEF Opening
    <3>3. /\ v[e][k] = 0 /\ v[k.peer][m] = 0
          /\ ~Held(k.peer, m) /\ (Held(e, k) => tunnels[e][k].read = 0)
          /\ ~Sends(e, k, "data") /\ ~Sends(k.peer, m, "data")
          /\ ~Sends(k.peer, m, "close")
      BY <2>7, <3>1, <3>2 DEF Opening
    <3> QED
      BY <2>4, <2>5, <2>7, <3>3
  <2>10. ReadsAll(w, e, k)'
    <3>1. ReadsAll(v, e, k)'
      <4>1. Live(k.peer, m)' => Live(k.peer, m)
                                /\ tunnels'[k.peer][m].read = tunnels[k.peer][m].read
        BY <2>5 DEF Live
      <4> QED
        BY <1>19, <2>5, <2>6, <4>1, StaysContinues, ReadsKept
    <3> QED
      BY <2>4, <3>1 DEF ReadsAll
  <2> QED
    BY <2>7, <2>8, <2>9, <2>10
<1>24. Tidy(h, w)'
  <2>1. ASSUME NEW e \in Device, NEW k \in Key
        PROVE  Matched(h, w, e, k)' /\ Opening(w, e, k)' /\ Order(e, k)' /\ ReadsAll(w, e, k)'
    BY <1>21, <1>22, <1>23
  <2> QED
    BY <2>1 DEF Tidy
<1>25. Numbered'
  <2>1. SUFFICES ASSUME NEW e \in Device, NEW k \in Key, Known(e, k)'
                 PROVE  k.id \in usedIds'[Opener(e, k)]
    BY DEF Numbered
  <2>2. Opener(e, k) \in Device
    BY MirrorIs
  <2>3. \A f \in Device : usedIds[f] \subseteq usedIds'[f] /\ id \in usedIds'[d]
    BY <1>9 DEF Typed
  <2>4. CASE e = d /\ k = key
    BY <1>4, <1>6, <2>3, <2>4
  <2>5. CASE ~(e = d /\ k = key)
    <3>1. Known(e, k)
      BY <1>13, <1>16, <2>1, <2>5 DEF Known
    <3> QED
      BY <2>2, <2>3, <3>1 DEF Numbered
  <2> QED
    BY <2>4, <2>5
<1> QED
  BY <1>24, <1>25

LEMMA NumberedKept ==
  ASSUME Numbered, usedIds' = usedIds,
         \A e \in Device, k \in Key : Known(e, k)' => Known(e, k) \/ Known(k.peer, Mirror(e, k))
  PROVE  Numbered'
<1>1. SUFFICES ASSUME NEW e \in Device, NEW k \in Key, Known(e, k)'
               PROVE  k.id \in usedIds'[Opener(e, k)]
  BY DEF Numbered
<1>2. /\ k.peer \in Device /\ Mirror(e, k) \in Key /\ Mirror(e, k).id = k.id
      /\ Opener(k.peer, Mirror(e, k)) = Opener(e, k)
  BY MirrorIs
<1>3. k.id \in usedIds[Opener(e, k)]
  BY <1>1, <1>2 DEF Numbered
<1> QED
  BY <1>3

(* The relay notices, or the device connects to it again.                  *)
LEMMA IdleTidy ==
  ASSUME UNCHANGED <<up, down, tunnels, pumped>>, NEW g, NEW v, Tidy(g, v)
  PROVE  Fewer /\ Tidy(g, v)'
<1>1. \A e \in Device, k \in Key : /\ Held(e, k)' <=> Held(e, k)
                                   /\ Live(e, k)' <=> Live(e, k)
                                   /\ tunnels'[e][k] = tunnels[e][k]
  BY DEF Held, Live
<1>2. ASSUME NEW e \in Device, NEW k \in Key PROVE Stays(e, k)
  BY DEF Stays, Sent, InDown, InUp, InPump, Carries, Gives
<1>3. Fewer
  BY <1>1, <1>2, StaysKeeps DEF Fewer
<1>4. ASSUME NEW e \in Device, NEW k \in Key
      PROVE  Order(e, k)' /\ ReadsAll(v, e, k)'
  <2>1. Order(e, k) /\ ReadsAll(v, e, k) /\ k.peer \in Device /\ Mirror(e, k) \in Key
    BY MirrorIs DEF Tidy
  <2>2. Order(e, k)'
    BY <1>2, <2>1, StaysKeeps
  <2>3. Continues(e, k)' => Continues(e, k) /\ (Sends(e, k, "data")' <=> Sends(e, k, "data"))
    BY <1>1, <1>2, StaysContinues
  <2> QED
    BY <1>1, <2>1, <2>2, <2>3, ReadsKept
<1> QED
  BY <1>3, <1>4, FewerKeeps DEF Tidy

LEMMA StreamsInit == Init => Streams
<1>1. SUFFICES ASSUME Init PROVE Streams
  OBVIOUS
<1>2. \A d \in Device : /\ DOMAIN up[d] = {} /\ DOMAIN down[d] = {} /\ DOMAIN pumped[d] = {}
                        /\ DOMAIN tunnels[d] = {}
  BY <1>1, NoTable DEF Init
<1>3. \A e \in Device, k \in Key : k.peer \in Device
  BY DEF Key
<1>4. \A e \in Device, k \in Key, c \in Content, s \in 1..3, i \in Nat : ~Sent(e, k, c, s, i)
  BY <1>2, <1>3 DEF Sent, InDown, InUp, InPump
<1>5. \A e \in Device, k \in Key : ~Held(e, k)
  BY <1>2 DEF Held
<1>6. PICK g \in [Device \X Device \X (1..MaxOpens) -> Nat], v \in [Device -> [Key -> 0..1]] : TRUE
  <2> DEFINE h == [T \in Device \X Device \X (1..MaxOpens) |-> 0]
             w == [e \in Device |-> [k \in Key |-> 0]]
  <2>1. h \in [Device \X Device \X (1..MaxOpens) -> Nat] /\ w \in [Device -> [Key -> 0..1]]
    OBVIOUS
  <2> QED
    BY <2>1
<1>7. ASSUME NEW e \in Device, NEW k \in Key
      PROVE  Matched(g, v, e, k) /\ Opening(v, e, k) /\ Order(e, k) /\ ReadsAll(v, e, k)
  <2>1. Matched(g, v, e, k)
    BY <1>4, <1>5 DEF Matched
  <2>2. Opening(v, e, k)
    BY <1>4 DEF Opening, Sends
  <2>3. Order(e, k)
    BY <1>4 DEF Order
  <2>4. ReadsAll(v, e, k)
    <3>1. Mirror(e, k) \in Key /\ k.peer \in Device
      BY MirrorIs
    <3>2. ~Live(k.peer, Mirror(e, k))
      BY <1>5, <3>1 DEF Live
    <3> QED
      BY <3>2 DEF ReadsAll
  <2> QED
    BY <2>1, <2>2, <2>3, <2>4
<1>8. Tidy(g, v)
  BY <1>7 DEF Tidy
<1>9. Numbered
  BY <1>4, <1>5 DEF Numbered, Known
<1>10. ~broken
  BY <1>1 DEF Init
<1> QED
  BY <1>8, <1>9, <1>10 DEF Streams

LEMMA StreamsStep ==
  ASSUME Typed, Streams, [Next]_vars
  PROVE  Streams'
<1>1. SUFFICES ASSUME ~reused'
               PROVE  /\ Numbered' /\ ~broken'
                      /\ \E g \in [Device \X Device \X (1..MaxOpens) -> Nat],
                            v \in [Device -> [Key -> 0..1]] : Tidy(g, v)'
  BY DEF Streams
<1>2. ~reused
  <2>1. CASE UNCHANGED reused
    BY <1>1, <2>1
  <2>2. CASE \E d \in Device : \E peer \in Device : Open(d, peer)
    BY <1>1, <2>2 DEF Open
  <2> QED
    BY <2>1, <2>2 DEF Next, vars, Write, EndSession, OnPumped, Forward, Receive, Disconnect,
                      RelayNotices, Reconnect
<1>3. Numbered /\ ~broken
  BY <1>2 DEF Streams
<1>4. PICK g \in [Device \X Device \X (1..MaxOpens) -> Nat], v \in [Device -> [Key -> 0..1]] :
         Tidy(g, v)
  BY <1>2 DEF Streams
\* A step that sends nothing new keeps g and v.
<1>5. ASSUME Fewer, Tidy(g, v)', UNCHANGED <<usedIds, broken>>
      PROVE  /\ Numbered' /\ ~broken'
             /\ \E h \in [Device \X Device \X (1..MaxOpens) -> Nat],
                   w \in [Device -> [Key -> 0..1]] : Tidy(h, w)'
  <2>1. \A e \in Device, k \in Key : Known(e, k)' => Known(e, k)
    BY <1>4, <1>5, FewerKeeps
  <2>2. Numbered'
    BY <1>3, <1>5, <2>1, NumberedKept
  <2> QED
    BY <1>3, <1>4, <1>5, <2>2
<1>6. ASSUME NEW d \in Device, NEW peer \in Device, Open(d, peer)
      PROVE  /\ Numbered' /\ ~broken'
             /\ \E h \in [Device \X Device \X (1..MaxOpens) -> Nat],
                   w \in [Device -> [Key -> 0..1]] : Tidy(h, w)'
  <2>1. ~broken'
    BY <1>3, <1>6 DEF Open
  <2> QED
    BY <1>1, <1>3, <1>4, <1>6, <2>1, OpenTidy
<1>7. ASSUME NEW d \in Device, NEW key \in DOMAIN tunnels[d], Write(d, key) \/ EndSession(d, key)
      PROVE  /\ Numbered' /\ ~broken'
             /\ \E h \in [Device \X Device \X (1..MaxOpens) -> Nat],
                   w \in [Device -> [Key -> 0..1]] : Tidy(h, w)'
  <2>1. ~broken' /\ usedIds' = usedIds
    BY <1>3, <1>7 DEF Write, EndSession
  <2>2. CASE Write(d, key)
    <3>1. /\ \E w \in [Device -> [Key -> 0..1]] : Tidy(g, w)'
          /\ \A e \in Device, k \in Key : Known(e, k)' => Known(e, k)
      BY <1>4, <2>2, WriteTidy
    <3>2. Numbered'
      BY <1>3, <2>1, <3>1, NumberedKept
    <3> QED
      BY <1>4, <2>1, <3>1, <3>2
  <2>3. CASE EndSession(d, key)
    <3>1. /\ Tidy(g, v)'
          /\ \A e \in Device, k \in Key : Known(e, k)' => Known(e, k)
      BY <1>4, <2>3, EndSessionTidy
    <3>2. Numbered'
      BY <1>3, <2>1, <3>1, NumberedKept
    <3> QED
      BY <1>4, <2>1, <3>1, <3>2
  <2> QED
    BY <1>7, <2>2, <2>3
<1>8. ASSUME NEW d \in Device, OnPumped(d)
      PROVE  /\ Numbered' /\ ~broken'
             /\ \E h \in [Device \X Device \X (1..MaxOpens) -> Nat],
                   w \in [Device -> [Key -> 0..1]] : Tidy(h, w)'
  <2>1. UNCHANGED <<usedIds, broken>>
    BY <1>8 DEF OnPumped
  <2> QED
    BY <1>4, <1>5, <1>8, <2>1, OnPumpedTidy
<1>9. ASSUME NEW d \in Device, Forward(d)
      PROVE  /\ Numbered' /\ ~broken'
             /\ \E h \in [Device \X Device \X (1..MaxOpens) -> Nat],
                   w \in [Device -> [Key -> 0..1]] : Tidy(h, w)'
  <2>1. UNCHANGED <<usedIds, broken>>
    BY <1>9 DEF Forward
  <2> QED
    BY <1>4, <1>5, <1>9, <2>1, ForwardTidy
<1>10. ASSUME NEW d \in Device, Receive(d)
       PROVE  /\ Numbered' /\ ~broken'
              /\ \E h \in [Device \X Device \X (1..MaxOpens) -> Nat],
                    w \in [Device -> [Key -> 0..1]] : Tidy(h, w)'
  <2>1. usedIds' = usedIds
    BY <1>10 DEF Receive
  <2>2. /\ Tidy(g, v)' /\ ~broken'
        /\ \A e \in Device, k \in Key : Known(e, k)' =>
             Known(e, k) \/ Known(k.peer, Mirror(e, k))
    BY <1>3, <1>4, <1>10, ReceiveTidy
  <2>3. Numbered'
    BY <1>3, <2>1, <2>2, NumberedKept
  <2> QED
    BY <1>4, <2>2, <2>3
<1>11. ASSUME NEW d \in Device, Disconnect(d)
       PROVE  /\ Numbered' /\ ~broken'
              /\ \E h \in [Device \X Device \X (1..MaxOpens) -> Nat],
                    w \in [Device -> [Key -> 0..1]] : Tidy(h, w)'
  <2>1. UNCHANGED <<usedIds, broken>>
    BY <1>11 DEF Disconnect
  <2> QED
    BY <1>4, <1>5, <1>11, <2>1, DisconnectTidy
<1>12. ASSUME UNCHANGED <<up, down, tunnels, pumped, usedIds, broken>>
       PROVE  /\ Numbered' /\ ~broken'
              /\ \E h \in [Device \X Device \X (1..MaxOpens) -> Nat],
                    w \in [Device -> [Key -> 0..1]] : Tidy(h, w)'
  BY <1>4, <1>5, <1>12, IdleTidy
<1>13. CASE Next
  <2>1. ASSUME NEW d \in Device, RelayNotices(d) \/ Reconnect(d)
        PROVE  UNCHANGED <<up, down, tunnels, pumped, usedIds, broken>>
    BY <2>1 DEF RelayNotices, Reconnect
  <2> QED
    BY <1>6, <1>7, <1>8, <1>9, <1>10, <1>11, <1>12, <1>13, <2>1 DEF Next
<1>14. CASE UNCHANGED vars
  BY <1>12, <1>14 DEF vars
<1> QED
  BY <1>13, <1>14

LEMMA StreamsInvariant == Spec => []Streams
<1>1. Init => Streams
  BY StreamsInit
<1>2. Typed /\ Streams /\ [Next]_vars => Streams'
  BY StreamsStep
<1> QED
  BY <1>1, <1>2, TypedInvariant, PTL DEF Spec

(* As long as no device gives a tunnel's number a second time, a session   *)
(* reads what the session at the other end of its tunnel wrote, in order,  *)
(* without gaps, and all of it if that one ended: over every route that    *)
(* frames take, whatever connections are lost and tunnels refused.         *)
THEOREM StreamsStayIntact == Spec => []StreamsIntact
<1>1. Typed /\ Streams => StreamsIntact
  BY DEF Typed, Streams, StreamsIntact
<1> QED
  BY <1>1, TypedInvariant, StreamsInvariant, PTL
===============================================================================
