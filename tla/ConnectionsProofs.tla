-------------------------- MODULE ConnectionsProofs ---------------------------
(***************************************************************************)
(* Proofs about Connections, for any number of connections, tunnels and    *)
(* faults.                                                                 *)
(***************************************************************************)
EXTENDS Connections, TLAPS

LEMMA OtherDevice ==
  ASSUME NEW d \in Device
  PROVE  /\ Other(d) \in Device /\ Other(d) # d /\ Other(Other(d)) = d
         /\ \A e \in Device : e = d \/ e = Other(d)
<1>1. PICK higher : higher # Lower /\ Device = {Lower, higher}
  BY DevicesAssumption
<1>2. \A x \in Device : \E e \in Device : e # x
  BY <1>1
<1>3. \A x \in Device : Other(x) \in Device /\ Other(x) # x
  BY <1>2 DEF Other
<1> QED
  BY <1>1, <1>3

(* What the steps do, slot by slot and device by device.                   *)
Statuses == [Slot -> [Device -> {"no", "failed", "closed"}]]

LEMMA TellEffect ==
  ASSUME NEW status \in Statuses, NEW s \in Slot, NEW d \in Device,
         NEW how \in {"failed", "closed"}
  PROVE  /\ Tell(status, s, d, how) \in Statuses
         /\ \A t \in Slot, e \in Device :
              Tell(status, s, d, how)[t][e] =
                IF t = s /\ e = Other(d) /\ status[t][e] = "no" THEN how ELSE status[t][e]
<1>1. Other(d) \in Device
  BY OtherDevice
<1> QED
  BY <1>1 DEF Tell, Statuses

LEMMA OpenEffect ==
  ASSUME TypeOK, NEW d \in Device, NEW s \in Slot, Open(d, s)
  PROVE  /\ initiator' = [initiator EXCEPT ![s] = d]
         /\ end' \in [Slot -> [Device -> {"none", "setup", "reading", "ended"}]]
         /\ closed' \in Statuses
         /\ \A t \in Slot, e \in Device :
              /\ end'[t][e] = IF t = s THEN "setup" ELSE end[t][e]
              /\ closed'[t][e] = IF t = s THEN "no" ELSE closed[t][e]
         /\ IsFree(s) /\ UNCHANGED <<conns, formed, faults>>
BY DEF Open, TypeOK, Statuses

LEMMA RegisterEffect ==
  ASSUME TypeOK, NEW d \in Device, NEW s \in Slot, StartSession(s, d),
         Replaces(conns[d], s)
  PROVE  /\ end[s][d] = "setup" /\ conns[d] # s
         /\ conns' = [conns EXCEPT ![d] = s]
         /\ end' \in [Slot -> [Device -> {"none", "setup", "reading", "ended"}]]
         /\ closed' \in Statuses
         /\ \A t \in Slot, e \in Device :
              end'[t][e] = IF t = s /\ e = d THEN "reading" ELSE end[t][e]
         /\ \A t \in Slot, e \in Device :
              closed'[t][e] = IF t = conns[d] /\ e = Other(d) /\ closed[t][e] = "no"
                              THEN "closed" ELSE closed[t][e]
<1>1. end[s][d] = "setup" /\ conns[d] # s
  BY DevicesAssumption DEF StartSession, TypeOK
<1>2. closed \in Statuses /\ conns[d] \in Slot \cup {None} /\ None \notin Slot
  BY DevicesAssumption DEF TypeOK, Statuses
<1>3. /\ conns' = [conns EXCEPT ![d] = s]
      /\ end' = [end EXCEPT ![s][d] = "reading"]
      /\ closed' = IF conns[d] = None THEN closed ELSE Tell(closed, conns[d], d, "closed")
  BY DEF StartSession
<1>4. /\ end' \in [Slot -> [Device -> {"none", "setup", "reading", "ended"}]]
      /\ \A t \in Slot, e \in Device :
           end'[t][e] = IF t = s /\ e = d THEN "reading" ELSE end[t][e]
  BY <1>3 DEF TypeOK
<1>5. /\ closed' \in Statuses
      /\ \A t \in Slot, e \in Device :
           closed'[t][e] = IF t = conns[d] /\ e = Other(d) /\ closed[t][e] = "no"
                           THEN "closed" ELSE closed[t][e]
  <2>1. CASE conns[d] = None
    BY <1>2, <1>3, <2>1
  <2>2. CASE conns[d] # None
    <3>1. conns[d] \in Slot /\ closed' = Tell(closed, conns[d], d, "closed")
      BY <1>2, <1>3, <2>2
    <3>2. PICK existing \in Slot : existing = conns[d]
      BY <3>1
    <3>3. closed \in Statuses /\ closed' = Tell(closed, existing, d, "closed")
      BY <1>2, <3>1, <3>2
    <3> DEFINE told == Tell(closed, existing, d, "closed")
    <3>4. /\ told \in Statuses
          /\ \A t \in Slot, e \in Device :
               told[t][e] = IF t = existing /\ e = Other(d) /\ closed[t][e] = "no"
                            THEN "closed" ELSE closed[t][e]
      BY <1>2, TellEffect
    <3>5. closed' = told
      BY <3>3
    <3> HIDE DEF told
    <3> QED
      BY <3>2, <3>4, <3>5
  <2> QED
    BY <2>1, <2>2
<1>6. conns' = [conns EXCEPT ![d] = s]
  BY <1>3
<1> QED
  BY <1>1, <1>4, <1>5, <1>6

LEMMA DropEffect ==
  ASSUME TypeOK, NEW d \in Device, NEW s \in Slot, StartSession(s, d),
         ~Replaces(conns[d], s)
  PROVE  /\ end[s][d] = "setup" /\ conns[d] # s /\ conns[d] # None
         /\ conns' = conns
         /\ end' \in [Slot -> [Device -> {"none", "setup", "reading", "ended"}]]
         /\ closed' \in Statuses
         /\ \A t \in Slot, e \in Device :
              end'[t][e] = IF t = s /\ e = d THEN "none" ELSE end[t][e]
         /\ \A t \in Slot, e \in Device :
              closed'[t][e] = IF t = s /\ e = Other(d) /\ closed[t][e] = "no"
                              THEN "closed" ELSE closed[t][e]
<1>1. end[s][d] = "setup" /\ conns[d] # s /\ conns[d] # None
  BY DevicesAssumption DEF StartSession, TypeOK, Replaces
<1>2. /\ conns' = conns
      /\ end' = [end EXCEPT ![s][d] = "none"]
      /\ closed' = Tell(closed, s, d, "closed")
  BY DEF StartSession
<1>3. /\ end' \in [Slot -> [Device -> {"none", "setup", "reading", "ended"}]]
      /\ \A t \in Slot, e \in Device :
           end'[t][e] = IF t = s /\ e = d THEN "none" ELSE end[t][e]
  BY <1>2 DEF TypeOK
<1>4. closed \in Statuses
  BY DEF TypeOK, Statuses
<1> QED
  BY <1>1, <1>2, <1>3, <1>4, TellEffect

LEMMA SetupFailsEffect ==
  ASSUME TypeOK, NEW d \in Device, NEW s \in Slot, SetupFails(s, d)
  PROVE  /\ end[s][d] = "setup" /\ (faults' = 0 => closed[s][d] = "failed")
         /\ end' \in [Slot -> [Device -> {"none", "setup", "reading", "ended"}]]
         /\ closed' \in Statuses /\ conns' = conns
         /\ \A t \in Slot, e \in Device :
              /\ end'[t][e] = IF t = s /\ e = d THEN "none" ELSE end[t][e]
              /\ closed'[t][e] = IF t = s /\ e = Other(d) /\ closed[t][e] = "no"
                                 THEN "failed" ELSE closed[t][e]
<1>1. end[s][d] = "setup" /\ (faults' = 0 => closed[s][d] = "failed") /\ conns' = conns
  BY DEF SetupFails, TypeOK
<1>2. end' = [end EXCEPT ![s][d] = "none"] /\ closed' = Tell(closed, s, d, "failed")
  BY DEF SetupFails
<1>3. /\ end' \in [Slot -> [Device -> {"none", "setup", "reading", "ended"}]]
      /\ \A t \in Slot, e \in Device :
           end'[t][e] = IF t = s /\ e = d THEN "none" ELSE end[t][e]
  BY <1>2 DEF TypeOK
<1>4. closed \in Statuses
  BY DEF TypeOK, Statuses
<1> QED
  BY <1>1, <1>2, <1>3, <1>4, TellEffect

LEMMA ReadLoopEndsEffect ==
  ASSUME TypeOK, NEW d \in Device, NEW s \in Slot, ReadLoopEnds(s, d)
  PROVE  /\ end[s][d] = "reading" /\ closed[s][d] # "no"
         /\ end' \in [Slot -> [Device -> {"none", "setup", "reading", "ended"}]]
         /\ closed' \in Statuses /\ conns' = conns
         /\ \A t \in Slot, e \in Device :
              /\ end'[t][e] = IF t = s /\ e = d THEN "ended" ELSE end[t][e]
              /\ closed'[t][e] = IF t = s /\ e = Other(d) /\ closed[t][e] = "no"
                                 THEN "closed" ELSE closed[t][e]
<1>1. end[s][d] = "reading" /\ closed[s][d] # "no" /\ conns' = conns
  BY DEF ReadLoopEnds
<1>2. end' = [end EXCEPT ![s][d] = "ended"] /\ closed' = Tell(closed, s, d, "closed")
  BY DEF ReadLoopEnds
<1>3. /\ end' \in [Slot -> [Device -> {"none", "setup", "reading", "ended"}]]
      /\ \A t \in Slot, e \in Device :
           end'[t][e] = IF t = s /\ e = d THEN "ended" ELSE end[t][e]
  BY <1>2 DEF TypeOK
<1>4. closed \in Statuses
  BY DEF TypeOK, Statuses
<1> QED
  BY <1>1, <1>2, <1>3, <1>4, TellEffect

LEMMA UnregisterEffect ==
  ASSUME TypeOK, NEW d \in Device, NEW s \in Slot, Unregister(s, d)
  PROVE  /\ end[s][d] = "ended"
         /\ end' \in [Slot -> [Device -> {"none", "setup", "reading", "ended"}]]
         /\ closed' = closed
         /\ conns' = [conns EXCEPT ![d] = IF conns[d] = s THEN None ELSE conns[d]]
         /\ \A t \in Slot, e \in Device :
              end'[t][e] = IF t = s /\ e = d THEN "none" ELSE end[t][e]
BY DEF Unregister, Unregistered, TypeOK

LEMMA BreakEffect ==
  ASSUME TypeOK, NEW s \in Slot, Break(s)
  PROVE  /\ closed' \in Statuses
         /\ \A t \in Slot, e \in Device :
              closed'[t][e] # closed[t][e] => closed'[t][e] # "no"
         /\ UNCHANGED <<end, conns>>
<1>1. closed' = [closed EXCEPT ![s] = [d \in Device |->
        IF closed[s][d] # "no" THEN closed[s][d]
        ELSE IF end[s][d] = "setup" THEN "failed" ELSE "closed"]]
  BY DEF Break, TypeOK
<1>2. closed' \in Statuses
  BY <1>1 DEF TypeOK, Statuses
<1>3. \A t \in Slot, e \in Device :
        closed'[t][e] # closed[t][e] => closed'[t][e] # "no"
  BY <1>1 DEF TypeOK
<1> QED
  BY <1>2, <1>3 DEF Break

LEMMA RestartEffect ==
  ASSUME TypeOK, NEW d \in Device, Restart(d)
  PROVE  /\ end' \in [Slot -> [Device -> {"none", "setup", "reading", "ended"}]]
         /\ closed' \in Statuses
         /\ conns' = [conns EXCEPT ![d] = None]
         /\ \A t \in Slot :
              /\ end'[t][d] = "none"
              /\ end'[t][Other(d)] = end[t][Other(d)]
              /\ closed'[t][d] = closed[t][d]
              /\ end[t][d] # "none" => closed'[t][Other(d)] # "no"
              /\ end[t][d] = "none" => closed'[t][Other(d)] = closed[t][Other(d)]
<1>1. Other(d) \in Device /\ Other(d) # d
  BY OtherDevice
<1>2. end' = [s \in Slot |-> [end[s] EXCEPT ![d] = "none"]]
  BY DEF Restart
<1>3. closed' = [s \in Slot |-> [closed[s] EXCEPT ![Other(d)] =
        IF end[s][d] = "none" \/ closed[s][Other(d)] # "no" THEN closed[s][Other(d)]
        ELSE IF end[s][d] = "setup" THEN "failed" ELSE "closed"]]
  BY <1>1 DEF Restart, TypeOK
<1>4. /\ end' \in [Slot -> [Device -> {"none", "setup", "reading", "ended"}]]
      /\ \A t \in Slot : end'[t][d] = "none" /\ end'[t][Other(d)] = end[t][Other(d)]
  BY <1>1, <1>2 DEF TypeOK
<1>5. /\ closed' \in Statuses
      /\ \A t \in Slot :
           /\ closed'[t][d] = closed[t][d]
           /\ end[t][d] # "none" => closed'[t][Other(d)] # "no"
           /\ end[t][d] = "none" => closed'[t][Other(d)] = closed[t][Other(d)]
  BY <1>1, <1>3 DEF TypeOK, Statuses
<1> QED
  BY <1>4, <1>5 DEF Restart
-----------------------------------------------------------------------------
LEMMA InitType == Init => TypeOK
<1> SUFFICES ASSUME Init PROVE TypeOK
  OBVIOUS
<1>1. /\ initiator \in [Slot -> Device \cup {None}]
      /\ conns \in [Device -> Slot \cup {None}]
      /\ \A d \in Device : conns[d] = None
  BY DEF Init
<1>2. /\ end \in [Slot -> [Device -> {"none", "setup", "reading", "ended"}]]
      /\ closed \in [Slot -> [Device -> {"no", "failed", "closed"}]]
  BY DEF Init
<1> QED
  BY <1>1, <1>2 DEF Init, TypeOK

LEMMA NextType == TypeOK /\ [Next]_vars => TypeOK'
<1> SUFFICES ASSUME TypeOK, [Next]_vars PROVE TypeOK'
  OBVIOUS
<1> DEFINE ConnsTyped ==
             /\ end \in [Slot -> [Device -> {"none", "setup", "reading", "ended"}]]
             /\ closed \in Statuses
             /\ conns \in [Device -> Slot \cup {None}]
           RegisteredIsOpen ==
             \A d \in Device : conns[d] # None => end[conns[d]][d] \in {"reading", "ended"}
<1>1. ASSUME NEW d \in Device, Dial(d) PROVE TypeOK'
  <2>1. PICK s \in Slot : Open(d, s) /\ tunnelled' = tunnelled \ {s}
    BY <1>1 DEF Dial
  <2>2. \A e \in Device : conns[e] # None => conns[e] # s
    <3>1. IsFree(s)
      BY <2>1, OpenEffect
    <3> QED
      BY <3>1 DEF IsFree, TypeOK
  <2>3. ConnsTyped' /\ initiator' \in [Slot -> Device \cup {None}]
    BY <2>1, OpenEffect DEF TypeOK
  <2>4. RegisteredIsOpen'
    BY <2>1, <2>2, OpenEffect DEF TypeOK
  <2>5. /\ tunnelled' \subseteq Slot /\ dialing' \subseteq Device /\ tunnels' \in Nat
        /\ UNCHANGED <<formed, faults>>
    BY <1>1, <2>1 DEF Dial, Open, TypeOK
  <2> QED
    BY <2>3, <2>4, <2>5 DEF TypeOK, Statuses
<1>2. ASSUME NEW d \in Device, DialTunnel(d) PROVE TypeOK'
  <2>1. PICK s \in Slot : Open(d, s) /\ tunnelled' = tunnelled \cup {s}
    BY <1>2 DEF DialTunnel
  <2>2. \A e \in Device : conns[e] # None => conns[e] # s
    <3>1. IsFree(s)
      BY <2>1, OpenEffect
    <3> QED
      BY <3>1 DEF IsFree, TypeOK
  <2>3. ConnsTyped' /\ initiator' \in [Slot -> Device \cup {None}]
    BY <2>1, OpenEffect DEF TypeOK
  <2>4. RegisteredIsOpen'
    BY <2>1, <2>2, OpenEffect DEF TypeOK
  <2>5. /\ tunnelled' \subseteq Slot /\ dialing' \subseteq Device /\ tunnels' \in Nat
        /\ UNCHANGED <<formed, faults>>
    BY <1>2, <2>1 DEF DialTunnel, Open, TypeOK
  <2> QED
    BY <2>3, <2>4, <2>5 DEF TypeOK, Statuses
<1>3. ASSUME NEW s \in Slot, NEW d \in Device, StartSession(s, d) PROVE TypeOK'
  <2>1. /\ dialing' \subseteq Device /\ formed' \in BOOLEAN
        /\ UNCHANGED <<initiator, tunnelled, tunnels, faults>>
    BY <1>3 DEF StartSession, DialEnds, TypeOK
  <2>2. ConnsTyped'
    <3>1. CASE Replaces(conns[d], s)
      <4>1. /\ conns' = [conns EXCEPT ![d] = s] /\ closed' \in Statuses
            /\ end' \in [Slot -> [Device -> {"none", "setup", "reading", "ended"}]]
        BY <1>3, <3>1, RegisterEffect
      <4> QED
        BY <4>1 DEF TypeOK
    <3>2. CASE ~Replaces(conns[d], s)
      BY <1>3, <3>2, DropEffect DEF TypeOK
    <3> QED
      BY <3>1, <3>2
  <2>3. RegisteredIsOpen'
    <3>1. CASE Replaces(conns[d], s)
      <4>1. \A e \in Device : conns'[e] = IF e = d THEN s ELSE conns[e]
        BY <1>3, <3>1, RegisterEffect DEF TypeOK
      <4> QED
        BY <1>3, <3>1, <4>1, RegisterEffect DEF TypeOK
    <3>2. CASE ~Replaces(conns[d], s)
      BY <1>3, <3>2, DropEffect DEF TypeOK
    <3> QED
      BY <3>1, <3>2
  <2> QED
    BY <2>1, <2>2, <2>3 DEF TypeOK, Statuses
<1>4. ASSUME NEW s \in Slot, NEW d \in Device, SetupFails(s, d) PROVE TypeOK'
  <2>1. /\ dialing' \subseteq Device /\ faults' \in Nat
        /\ UNCHANGED <<initiator, tunnelled, formed, tunnels>>
    BY <1>4 DEF SetupFails, DialEnds, TypeOK
  <2>2. ConnsTyped'
    BY <1>4, SetupFailsEffect DEF TypeOK, Statuses
  <2>3. RegisteredIsOpen'
    BY <1>4, SetupFailsEffect DEF TypeOK
  <2> QED
    BY <2>1, <2>2, <2>3 DEF TypeOK, Statuses
<1>5. ASSUME NEW s \in Slot, NEW d \in Device, ReadLoopEnds(s, d) PROVE TypeOK'
  <2>1. UNCHANGED <<initiator, tunnelled, dialing, formed, tunnels, faults>>
    BY <1>5 DEF ReadLoopEnds
  <2>2. ConnsTyped'
    BY <1>5, ReadLoopEndsEffect DEF TypeOK, Statuses
  <2>3. RegisteredIsOpen'
    BY <1>5, ReadLoopEndsEffect DEF TypeOK
  <2> QED
    BY <2>1, <2>2, <2>3 DEF TypeOK, Statuses
<1>6. ASSUME NEW s \in Slot, NEW d \in Device, Unregister(s, d) PROVE TypeOK'
  <2>1. UNCHANGED <<initiator, tunnelled, dialing, formed, tunnels, faults>>
    BY <1>6 DEF Unregister
  <2>2. ConnsTyped'
    <3>1. /\ closed' = closed
          /\ conns' = [conns EXCEPT ![d] = IF conns[d] = s THEN None ELSE conns[d]]
          /\ end' \in [Slot -> [Device -> {"none", "setup", "reading", "ended"}]]
      BY <1>6, UnregisterEffect
    <3> QED
      BY <3>1 DEF TypeOK, Statuses
  <2>3. RegisteredIsOpen'
    <3>1. /\ \A e \in Device : conns'[e] = IF e = d /\ conns[d] = s THEN None ELSE conns[e]
          /\ \A t \in Slot, e \in Device :
               end'[t][e] = IF t = s /\ e = d THEN "none" ELSE end[t][e]
      BY <1>6, UnregisterEffect DEF TypeOK
    <3>2. \A e \in Device : conns'[e] # None => conns[e] = conns'[e] /\ (conns'[e] # s \/ e # d)
      BY <3>1
    <3> QED
      BY <3>1, <3>2 DEF TypeOK
  <2> QED
    BY <2>1, <2>2, <2>3 DEF TypeOK, Statuses
<1>7. ASSUME NEW s \in Slot, Break(s) PROVE TypeOK'
  <2>1. faults' \in Nat /\ UNCHANGED <<initiator, tunnelled, dialing, formed, tunnels>>
    BY <1>7 DEF Break, TypeOK
  <2>2. ConnsTyped' /\ RegisteredIsOpen'
    BY <1>7, BreakEffect DEF TypeOK
  <2> QED
    BY <2>1, <2>2 DEF TypeOK, Statuses
<1>8. ASSUME NEW d \in Device, Restart(d) PROVE TypeOK'
  <2>1. /\ faults' \in Nat /\ dialing' \subseteq Device
        /\ UNCHANGED <<initiator, tunnelled, formed, tunnels>>
    BY <1>8 DEF Restart, TypeOK
  <2>2. \A e \in Device : conns'[e] = IF e = d THEN None ELSE conns[e]
    BY <1>8, RestartEffect DEF TypeOK
  <2>3. RegisteredIsOpen'
    BY <1>8, <2>2, RestartEffect, OtherDevice DEF TypeOK
  <2>4. ConnsTyped'
    BY <1>8, RestartEffect DEF TypeOK
  <2> QED
    BY <2>1, <2>3, <2>4 DEF TypeOK, Statuses
<1>9. CASE UNCHANGED vars
  BY <1>9 DEF vars, TypeOK
<1> QED
  BY <1>1, <1>2, <1>3, <1>4, <1>5, <1>6, <1>7, <1>8, <1>9 DEF Next

(* Every variable keeps its type, and what is registered is a connection   *)
(* that is being read or is about to be unregistered.                      *)
THEOREM ConnectionsTyped == Spec => []TypeOK
<1> QED
  BY InitType, NextType, PTL DEF Spec
-----------------------------------------------------------------------------
(* OneConnection holds because nobody gives a connection up in silence: a  *)
(* device that has closed its end, or reads on with another connection in  *)
(* its place, has told the other end, unless that one is gone.             *)

GivenUp(s, d) ==
  end[s][d] \in {"none", "ended"} \/ (end[s][d] = "reading" /\ conns[d] # s)

Told(s, d) ==
  GivenUp(s, d) /\ end[s][Other(d)] # "none" => closed[s][Other(d)] # "no"

ToldInv == TypeOK /\ \A s \in Slot, d \in Device : Told(s, d)

LEMMA ToldStep == ToldInv /\ [Next]_vars => ToldInv'
<1> SUFFICES ASSUME ToldInv, [Next]_vars, NEW t \in Slot, NEW e \in Device
             PROVE  Told(t, e)'
  BY NextType DEF ToldInv
<1>0. TypeOK /\ Told(t, e) /\ Other(e) \in Device /\ Other(e) # e
  BY OtherDevice DEF ToldInv
<1>1. ASSUME NEW d \in Device, NEW s \in Slot, Open(d, s) PROVE Told(t, e)'
  <2>1. CASE t = s
    BY <1>0, <1>1, <2>1, OpenEffect DEF Told, GivenUp
  <2>2. CASE t # s
    BY <1>0, <1>1, <2>2, OpenEffect DEF Told, GivenUp
  <2> QED
    BY <2>1, <2>2
<1>2. ASSUME NEW s \in Slot, NEW d \in Device, StartSession(s, d) PROVE Told(t, e)'
  <2>1. CASE Replaces(conns[d], s)
    <3>1. \A f \in Device : conns'[f] = IF f = d THEN s ELSE conns[f]
      BY <1>0, <1>2, <2>1, RegisterEffect DEF TypeOK
    <3>2. CASE t = s /\ e = d
      BY <1>0, <1>2, <2>1, <3>1, <3>2, RegisterEffect DEF Told, GivenUp
    <3>3. CASE t = s /\ e # d
      <4>1. conns'[e] = conns[e] /\ end'[t][e] = end[t][e] /\ Other(e) = d
        BY <1>0, <1>2, <2>1, <3>1, <3>3, RegisterEffect, OtherDevice
      <4>2. end[t][d] # "none"
        BY <1>0, <1>2, <2>1, <3>3, RegisterEffect
      <4>3. closed[t][d] # "no" => closed'[t][d] # "no"
        BY <1>0, <1>2, <2>1, RegisterEffect
      <4> QED
        BY <1>0, <4>1, <4>2, <4>3 DEF Told, GivenUp
    <3>4. CASE t # s
      <4>1. \A f \in Device : end'[t][f] = end[t][f]
        BY <1>0, <1>2, <2>1, <3>4, RegisterEffect
      <4>2. closed[t][Other(e)] # "no" => closed'[t][Other(e)] # "no"
        BY <1>0, <1>2, <2>1, RegisterEffect
      <4>3. CASE GivenUp(t, e)
        BY <1>0, <4>1, <4>2, <4>3 DEF Told
      <4>4. CASE ~GivenUp(t, e) /\ GivenUp(t, e)'
        <5>1. e = d /\ conns[d] = t
          BY <3>1, <4>1, <4>4 DEF GivenUp
        <5>2. \/ closed'[t][Other(d)] = "closed"
              \/ closed'[t][Other(d)] = closed[t][Other(d)] /\ closed[t][Other(d)] # "no"
          BY <1>0, <1>2, <2>1, <5>1, RegisterEffect
        <5> QED
          BY <5>1, <5>2 DEF Told
      <4> QED
        BY <4>3, <4>4 DEF Told
    <3> QED
      BY <3>2, <3>3, <3>4
  <2>2. CASE ~Replaces(conns[d], s)
    <3>1. CASE t = s /\ e = d
      BY <1>0, <1>2, <2>2, <3>1, DropEffect DEF Told
    <3>2. CASE t # s \/ e # d
      BY <1>0, <1>2, <2>2, <3>2, DropEffect DEF Told, GivenUp
    <3> QED
      BY <3>1, <3>2
  <2> QED
    BY <2>1, <2>2
<1>3. ASSUME NEW s \in Slot, NEW d \in Device, SetupFails(s, d) PROVE Told(t, e)'
  <2>1. CASE t = s /\ e = d
    BY <1>0, <1>3, <2>1, SetupFailsEffect DEF Told
  <2>2. CASE t # s \/ e # d
    BY <1>0, <1>3, <2>2, SetupFailsEffect DEF Told, GivenUp
  <2> QED
    BY <2>1, <2>2
<1>4. ASSUME NEW s \in Slot, NEW d \in Device, ReadLoopEnds(s, d) PROVE Told(t, e)'
  <2>1. CASE t = s /\ e = d
    BY <1>0, <1>4, <2>1, ReadLoopEndsEffect DEF Told
  <2>2. CASE t # s \/ e # d
    BY <1>0, <1>4, <2>2, ReadLoopEndsEffect DEF Told, GivenUp
  <2> QED
    BY <2>1, <2>2
<1>5. ASSUME NEW s \in Slot, NEW d \in Device, Unregister(s, d) PROVE Told(t, e)'
  <2>1. \A f \in Device :
          conns'[f] = IF f = d /\ conns[d] = s THEN None ELSE conns[f]
    BY <1>0, <1>5, UnregisterEffect DEF TypeOK
  <2>2. CASE t = s /\ e = d
    BY <1>0, <1>5, <2>2, UnregisterEffect DEF Told, GivenUp
  <2>3. CASE t # s \/ e # d
    BY <1>0, <1>5, <2>1, <2>3, UnregisterEffect DEF Told, GivenUp
  <2> QED
    BY <2>2, <2>3
<1>6. ASSUME NEW s \in Slot, Break(s) PROVE Told(t, e)'
  BY <1>0, <1>6, BreakEffect DEF Told, GivenUp
<1>7. ASSUME NEW d \in Device, Restart(d) PROVE Told(t, e)'
  <2>1. CASE e = d
    BY <1>0, <1>7, <2>1, RestartEffect DEF Told, GivenUp
  <2>2. CASE e # d
    <3>1. Other(e) = d
      BY <2>2, OtherDevice
    <3> QED
      BY <1>0, <1>7, <3>1, RestartEffect DEF Told
  <2> QED
    BY <2>1, <2>2
<1>8. CASE UNCHANGED vars
  BY <1>0, <1>8 DEF vars, Told, GivenUp
<1> QED
  BY <1>1, <1>2, <1>3, <1>4, <1>5, <1>6, <1>7, <1>8 DEF Next, Dial, DialTunnel

(* Whatever breaks and whoever dials or tunnels, once nothing is under way *)
(* both devices have registered one and the same connection, or none, and  *)
(* neither reads another.                                                  *)
THEOREM AlwaysOneConnection == Spec => []OneConnection
<1>1. Init => ToldInv
  <2> SUFFICES ASSUME Init, NEW s \in Slot, NEW d \in Device
               PROVE  Told(s, d)
    BY InitType DEF ToldInv
  <2> QED
    BY OtherDevice DEF Init, Told
<1>2. ToldInv => OneConnection
  <2> SUFFICES ASSUME ToldInv, Settled 
                      PROVE  /\ \A d, e \in Device : conns[d] = conns[e]
                             /\ \A s \in Slot, d \in Device : end[s][d] = "reading" => conns[d] = s
    BY DEF OneConnection
  <2>1. ASSUME NEW s \in Slot, NEW d \in Device, end[s][d] = "reading"
        PROVE  conns[d] = s /\ conns[Other(d)] = s
    <3>1. Other(d) \in Device /\ Other(Other(d)) = d
      BY OtherDevice
    <3>2. closed[s][d] = "no"
      BY <2>1 DEF Settled
    <3>3. ~GivenUp(s, Other(d))
      BY <2>1, <3>1, <3>2 DEF ToldInv, Told
    <3>4. end[s][Other(d)] = "reading" /\ conns[Other(d)] = s
      BY <3>1, <3>3 DEF GivenUp, Settled
    <3>5. closed[s][Other(d)] = "no"
      BY <3>1, <3>4 DEF Settled
    <3>6. ~GivenUp(s, d)
      BY <3>1, <3>4, <3>5 DEF ToldInv, Told
    <3> QED
      BY <2>1, <3>4, <3>6 DEF GivenUp
  <2>2. ASSUME NEW d \in Device, conns[d] # None
        PROVE  conns[Other(d)] = conns[d]
    <3>1. conns[d] \in Slot /\ end[conns[d]][d] = "reading"
      BY <2>2 DEF ToldInv, TypeOK, Settled
    <3> QED
      BY <2>1, <3>1
  <2>3. \A d, e \in Device : conns[d] = conns[e]
    BY <2>2, OtherDevice
  <2> QED
    BY <2>1, <2>3
<1> QED
  BY <1>1, <1>2, ToldStep, PTL DEF Spec
-----------------------------------------------------------------------------
(* OneDialIsKept: while nothing breaks and nobody tunnels, one connection  *)
(* wins and is never given up.  It is the one the device with the lower ID *)
(* started or, while there is none, the only one the other device started: *)
(* a device does not dial while it has a dial under way or a connection.   *)

Live(s) ==
  /\ \A d \in Device :
       /\ end[s][d] \in {"setup", "reading"} /\ closed[s][d] = "no"
       /\ end[s][d] = "reading" => conns[d] = s
  /\ end[s][initiator[s]] = "setup" => initiator[s] \in dialing

Winner(s) ==
  /\ ~IsFree(s)
  /\ initiator[s] = Lower \/ \A t \in Slot : ~IsFree(t) => initiator[t] # Lower

OneWinner ==
  /\ tunnelled = {}
  /\ \A s \in Slot : ~IsFree(s) => initiator[s] \in Device
  /\ \A s \in Slot : Winner(s) => Live(s)
  /\ \A s, t \in Slot : Winner(s) /\ Winner(t) => s = t
  /\ formed => \E s \in Slot : ~IsFree(s)

DialInv == TypeOK /\ (tunnels = 0 /\ faults = 0 => OneWinner)

(* If there are connections, one of them is the winner.                    *)
LEMMA SomeWinner ==
  ASSUME NEW s \in Slot, ~IsFree(s)
  PROVE  \E w \in Slot : Winner(w)
BY DEF Winner

(* A connection that is not the winner was not started by the device with  *)
(* the lower ID, and the winner was.                                       *)
LEMMA LoserIsHigher ==
  ASSUME OneWinner, NEW w \in Slot, Winner(w), NEW s \in Slot, ~IsFree(s), s # w
  PROVE  initiator[w] = Lower /\ initiator[s] # Lower /\ initiator[s] \in Device
BY DEF OneWinner, Winner

(* A step that opens no connection and leaves the winner live.             *)
LEMMA WinnerStays ==
  ASSUME TypeOK, OneWinner, UNCHANGED <<initiator, tunnelled>>,
         \A t \in Slot : IsFree(t) => IsFree(t)',
         \A w \in Slot : Winner(w) => Live(w)',
         formed' => formed \/ \E s \in Slot : ~IsFree(s)
  PROVE  OneWinner'
<1>1. \A w \in Slot : Winner(w) => ~IsFree(w)'
  <2> SUFFICES ASSUME NEW w \in Slot, Live(w)' PROVE ~IsFree(w)'
    OBVIOUS
  <2>1. Lower \in Device /\ end'[w][Lower] # "none"
    BY DevicesAssumption DEF Live
  <2> QED
    BY <2>1 DEF IsFree
<1>2. ASSUME NEW t \in Slot, Winner(t)' PROVE Winner(t)
  <2>1. ~IsFree(t) /\ ~IsFree(t)'
    BY <1>2 DEF Winner
  <2>2. CASE initiator[t] = Lower
    BY <2>1, <2>2 DEF Winner
  <2>3. CASE initiator[t] # Lower
    <3>1. \A u \in Slot : ~IsFree(u)' => initiator[u] # Lower
      BY <1>2, <2>3 DEF Winner
    <3>2. ASSUME NEW u \in Slot, ~IsFree(u), initiator[u] = Lower PROVE FALSE
      <4>1. Winner(u)
        BY <3>2 DEF Winner
      <4> QED
        BY <1>1, <3>1, <3>2, <4>1
    <3> QED
      BY <2>1, <3>2 DEF Winner
  <2> QED
    BY <2>2, <2>3
<1>3. formed' => \E s \in Slot : ~IsFree(s)'
  BY <1>1, SomeWinner DEF OneWinner
<1>4. \A s \in Slot : ~IsFree(s)' => initiator'[s] \in Device
  BY DEF OneWinner
<1>5. \A s \in Slot : Winner(s)' => Live(s)'
  BY <1>2
<1>6. \A s, t \in Slot : Winner(s)' /\ Winner(t)' => s = t
  BY <1>2 DEF OneWinner
<1>7. tunnelled' = {}
  BY DEF OneWinner
<1> QED
  BY <1>3, <1>4, <1>5, <1>6, <1>7 DEF OneWinner

(* A winner that a step does not touch.                                    *)
LEMMA LiveFrame ==
  ASSUME OneWinner, NEW w \in Slot, Winner(w), UNCHANGED initiator,
         \A d \in Device : end'[w][d] = end[w][d] /\ closed'[w][d] = closed[w][d],
         \A d \in Device : end[w][d] = "reading" => conns'[d] = w,
         initiator[w] \in dialing => initiator[w] \in dialing'
  PROVE  Live(w)'
<1>1. Live(w) /\ initiator[w] \in Device
  BY DEF OneWinner, Winner
<1> QED
  BY <1>1 DEF Live

(* The end of a dial that did not win leaves the winner's dial alone.      *)
LEMMA DialEndsElsewhere ==
  ASSUME OneWinner, NEW w \in Slot, Winner(w), NEW s \in Slot, ~IsFree(s), s # w,
         NEW d \in Device, DialEnds(s, d)
  PROVE  initiator[w] \in dialing => initiator[w] \in dialing'
<1>1. initiator[w] # initiator[s]
  BY LoserIsHigher
<1> QED
  BY <1>1 DEF DialEnds

LEMMA DialStep == DialInv /\ [Next]_vars => DialInv'
<1> SUFFICES ASSUME DialInv, [Next]_vars, tunnels' = 0, faults' = 0
             PROVE  OneWinner'
  BY NextType DEF DialInv
<1>1. ASSUME NEW d \in Device, Dial(d) PROVE OneWinner'
  <2>1. TypeOK /\ OneWinner /\ conns[d] = None /\ d \notin dialing
    BY <1>1 DEF DialInv, Dial, Open
  <2>2. PICK s \in Slot : Open(d, s) /\ tunnelled' = tunnelled \ {s}
    BY <1>1 DEF Dial
  <2>3. /\ initiator' = [initiator EXCEPT ![s] = d]
        /\ IsFree(s) /\ UNCHANGED <<conns, formed>>
        /\ dialing' = dialing \cup {d}
    BY <1>1, <2>1, <2>2, OpenEffect DEF Dial
  <2>4. \A t \in Slot, e \in Device :
          /\ end'[t][e] = IF t = s THEN "setup" ELSE end[t][e]
          /\ closed'[t][e] = IF t = s THEN "no" ELSE closed[t][e]
    BY <2>1, <2>2, OpenEffect
  <2>5. \A t \in Slot : initiator'[t] = IF t = s THEN d ELSE initiator[t]
    BY <2>1, <2>3 DEF TypeOK
  <2>6. \A t \in Slot : IsFree(t)' <=> t # s /\ IsFree(t)
    BY <2>3, <2>4 DEF IsFree
  <2>7. ASSUME NEW w \in Slot, Winner(w) PROVE initiator[w] # d
    <3>1. Live(w) /\ initiator[w] \in Device
      BY <2>1, <2>7 DEF OneWinner, Winner
    <3>2. w # None
      BY DevicesAssumption
    <3>3. ASSUME initiator[w] = d PROVE end[w][d] = "reading" /\ conns[d] = w
      BY <2>1, <3>1, <3>3 DEF Live
    <3> QED
      BY <2>1, <3>2, <3>3
  <2>8. Live(s)'
    <3>1. \A e \in Device : end'[s][e] = "setup" /\ closed'[s][e] = "no"
      BY <2>4
    <3>2. initiator'[s] = d /\ d \in dialing'
      BY <2>3, <2>5
    <3> QED
      BY <3>1, <3>2 DEF Live
  <2>9. ASSUME NEW w \in Slot, Winner(w) PROVE Live(w)' /\ w # s
    <3>1. Live(w) /\ w # s
      BY <2>1, <2>3, <2>9 DEF OneWinner, Winner
    <3>2. \A e \in Device : end'[w][e] = end[w][e] /\ closed'[w][e] = closed[w][e]
      BY <2>4, <3>1
    <3>3. initiator'[w] = initiator[w] /\ initiator[w] \in Device
      BY <2>1, <2>5, <2>9, <3>1 DEF OneWinner, Winner
    <3>4. \A e \in Device :
            /\ end'[w][e] \in {"setup", "reading"} /\ closed'[w][e] = "no"
            /\ end'[w][e] = "reading" => conns'[e] = w
      BY <2>3, <3>1, <3>2 DEF Live
    <3>5. end'[w][initiator[w]] = "setup" => initiator[w] \in dialing'
      BY <2>3, <3>1, <3>2, <3>3 DEF Live
    <3> QED
      BY <3>1, <3>3, <3>4, <3>5 DEF Live
  <2>10. ASSUME NEW t \in Slot, Winner(t)', t # s PROVE Winner(t)
    <3>1. ~IsFree(t) /\ initiator'[t] = initiator[t]
      BY <2>5, <2>6, <2>10 DEF Winner
    <3>2. \A u \in Slot : ~IsFree(u) => ~IsFree(u)' /\ initiator'[u] = initiator[u]
      BY <2>3, <2>5, <2>6
    <3> QED
      BY <2>10, <3>1, <3>2 DEF Winner
  <2>11. ASSUME NEW w \in Slot, Winner(w), Winner(w)', Winner(s)' PROVE FALSE
    <3>0. w # s
      BY <2>9, <2>11
    <3>1. ~IsFree(w)' /\ initiator'[w] = initiator[w] /\ initiator'[s] = d /\ ~IsFree(s)'
      BY <2>5, <2>6, <2>11, <3>0 DEF Winner
    <3>2. initiator[w] # d
      BY <2>7, <2>11
    <3>3. d # Lower
      <4>1. SUFFICES ASSUME d = Lower PROVE initiator[w] = Lower
        BY <3>2
      <4> QED
        BY <2>11, <3>1, <4>1 DEF Winner
    <3>4. initiator[w] # Lower
      BY <2>11, <3>1, <3>3 DEF Winner
    <3>5. initiator[w] \in Device
      BY <2>1, <2>11 DEF OneWinner, Winner
    <3> QED
      BY <3>2, <3>3, <3>4, <3>5, DevicesAssumption
  <2>12. \A t, u \in Slot : Winner(t)' /\ Winner(u)' => t = u
    BY <2>1, <2>10, <2>11 DEF OneWinner
  <2>13. \A t \in Slot : Winner(t)' => Live(t)'
    BY <2>8, <2>9, <2>10
  <2>14. \A t \in Slot : ~IsFree(t)' => initiator'[t] \in Device
    BY <2>1, <2>5, <2>6 DEF OneWinner
  <2>15. tunnelled' = {} /\ ~IsFree(s)'
    BY <2>1, <2>2, <2>6 DEF OneWinner
  <2> QED
    BY <2>12, <2>13, <2>14, <2>15 DEF OneWinner
<1>2. ASSUME NEW d \in Device, DialTunnel(d) PROVE FALSE
  BY <1>2 DEF DialInv, DialTunnel, TypeOK
<1>3. ASSUME NEW s \in Slot, NEW d \in Device, StartSession(s, d) PROVE OneWinner'
  <2>1. TypeOK /\ OneWinner /\ UNCHANGED <<initiator, tunnelled>> /\ DialEnds(s, d)
    BY <1>3 DEF DialInv, StartSession
  <2>2. end[s][d] = "setup" /\ conns[d] # s /\ conns[d] \in Slot \cup {None}
    BY <1>3, <2>1, RegisterEffect, DropEffect DEF TypeOK
  <2>3. ~IsFree(s)
    BY <2>2 DEF IsFree
  <2>4. ASSUME conns[d] # None PROVE conns[d] \in Slot /\ ~IsFree(conns[d])
    BY <2>1, <2>2, <2>4 DEF TypeOK, IsFree
  <2>5. \A t \in Slot : IsFree(t) => IsFree(t)'
    <3>1. \A t \in Slot, e \in Device : t # s => end'[t][e] = end[t][e]
      BY <1>3, <2>1, RegisterEffect, DropEffect
    <3> QED
      BY <2>3, <3>1 DEF IsFree
  <2>6. ASSUME Winner(s) PROVE Replaces(conns[d], s)
    <3>1. CASE conns[d] = None
      BY <3>1 DEF Replaces
    <3>2. CASE conns[d] # None
      <4>1. initiator[s] = Lower /\ initiator[conns[d]] # Lower
        BY <2>1, <2>2, <2>4, <2>6, <3>2, LoserIsHigher
      <4> QED
        BY <4>1 DEF Replaces
    <3> QED
      BY <3>1, <3>2
  <2>7. ASSUME NEW w \in Slot, Winner(w), w # s PROVE Live(w)'
    <3>1. Live(w) /\ initiator[w] = Lower /\ initiator[s] # Lower
      BY <2>1, <2>3, <2>7, LoserIsHigher DEF OneWinner
    <3>2. initiator[w] \in dialing => initiator[w] \in dialing'
      BY <2>1, <2>3, <2>7, DialEndsElsewhere
    <3>3. CASE Replaces(conns[d], s)
      <4>1. conns[d] # w
        BY <3>1, <3>3, DevicesAssumption DEF Replaces
      <4>2. end[w][d] # "reading"
        BY <3>1, <4>1 DEF Live
      <4>3. /\ \A e \in Device : end'[w][e] = end[w][e] /\ closed'[w][e] = closed[w][e]
            /\ conns' = [conns EXCEPT ![d] = s]
        BY <1>3, <2>1, <2>7, <3>3, <4>1, RegisterEffect
      <4>4. \A e \in Device : end[w][e] = "reading" => conns'[e] = w
        BY <2>1, <3>1, <4>2, <4>3 DEF Live, TypeOK
      <4> QED
        BY <2>1, <2>7, <3>2, <4>3, <4>4, LiveFrame
    <3>4. CASE ~Replaces(conns[d], s)
      <4>1. /\ \A e \in Device : end'[w][e] = end[w][e] /\ closed'[w][e] = closed[w][e]
            /\ conns' = conns
        BY <1>3, <2>1, <2>7, <3>4, DropEffect
      <4>2. \A e \in Device : end[w][e] = "reading" => conns'[e] = w
        BY <3>1, <4>1 DEF Live
      <4> QED
        BY <2>1, <2>7, <3>2, <4>1, <4>2, LiveFrame
    <3> QED
      BY <3>3, <3>4
  <2>8. ASSUME Winner(s) PROVE Live(s)'
    <3>1. Live(s) /\ initiator[s] \in Device
      BY <2>1, <2>3, <2>8 DEF OneWinner
    <3>2. /\ \A e \in Device : end'[s][e] = IF e = d THEN "reading" ELSE end[s][e]
          /\ \A e \in Device : closed'[s][e] = closed[s][e]
          /\ conns' = [conns EXCEPT ![d] = s]
      BY <1>3, <2>1, <2>2, <2>6, <2>8, RegisterEffect
    <3>3. \A e \in Device : end'[s][e] = "reading" => conns'[e] = s
      BY <2>1, <3>1, <3>2 DEF Live, TypeOK
    <3>4. end'[s][initiator[s]] = "setup" => initiator[s] \in dialing'
      BY <2>1, <3>1, <3>2 DEF Live, DialEnds
    <3> QED
      BY <2>1, <3>1, <3>2, <3>3, <3>4 DEF Live
  <2>9. \A w \in Slot : Winner(w) => Live(w)'
    BY <2>7, <2>8
  <2> QED
    BY <2>1, <2>3, <2>5, <2>9, WinnerStays
<1>4. ASSUME NEW s \in Slot, NEW d \in Device, SetupFails(s, d) PROVE OneWinner'
  <2>1. /\ TypeOK /\ OneWinner /\ UNCHANGED <<initiator, tunnelled, conns, formed>>
        /\ DialEnds(s, d)
    BY <1>4 DEF DialInv, SetupFails, TypeOK
  <2>2. end[s][d] = "setup" /\ closed[s][d] = "failed"
    BY <1>4, <2>1, SetupFailsEffect
  <2>3. ~IsFree(s) /\ ~Winner(s)
    BY <2>1, <2>2 DEF IsFree, OneWinner, Live
  <2>4. \A t \in Slot, e \in Device :
          t # s => end'[t][e] = end[t][e] /\ closed'[t][e] = closed[t][e]
    BY <1>4, <2>1, SetupFailsEffect
  <2>5. \A t \in Slot : IsFree(t) => IsFree(t)'
    BY <2>3, <2>4 DEF IsFree
  <2>6. ASSUME NEW w \in Slot, Winner(w) PROVE Live(w)'
    <3>1. w # s /\ Live(w)
      BY <2>1, <2>3, <2>6 DEF OneWinner
    <3>2. initiator[w] \in dialing => initiator[w] \in dialing'
      BY <2>1, <2>3, <2>6, <3>1, DialEndsElsewhere
    <3>3. \A e \in Device : end[w][e] = "reading" => conns'[e] = w
      BY <2>1, <3>1 DEF Live
    <3> QED
      BY <2>1, <2>4, <2>6, <3>1, <3>2, <3>3, LiveFrame
  <2> QED
    BY <2>1, <2>5, <2>6, WinnerStays
<1>5. ASSUME NEW s \in Slot, NEW d \in Device, ReadLoopEnds(s, d) PROVE OneWinner'
  <2>1. TypeOK /\ OneWinner /\ UNCHANGED <<initiator, tunnelled, conns, formed, dialing>>
    BY <1>5 DEF DialInv, ReadLoopEnds
  <2>2. end[s][d] = "reading" /\ closed[s][d] # "no"
    BY <1>5, <2>1, ReadLoopEndsEffect
  <2>3. ~IsFree(s) /\ ~Winner(s)
    BY <2>1, <2>2 DEF IsFree, OneWinner, Live
  <2>4. \A t \in Slot, e \in Device :
          t # s => end'[t][e] = end[t][e] /\ closed'[t][e] = closed[t][e]
    BY <1>5, <2>1, ReadLoopEndsEffect
  <2>5. \A t \in Slot : IsFree(t) => IsFree(t)'
    BY <2>3, <2>4 DEF IsFree
  <2>6. ASSUME NEW w \in Slot, Winner(w) PROVE Live(w)'
    <3>1. w # s /\ Live(w)
      BY <2>1, <2>3, <2>6 DEF OneWinner
    <3>2. \A e \in Device : end[w][e] = "reading" => conns'[e] = w
      BY <2>1, <3>1 DEF Live
    <3> QED
      BY <2>1, <2>4, <2>6, <3>1, <3>2, LiveFrame
  <2> QED
    BY <2>1, <2>5, <2>6, WinnerStays
<1>6. ASSUME NEW s \in Slot, NEW d \in Device, Unregister(s, d) PROVE OneWinner'
  <2>1. TypeOK /\ OneWinner /\ UNCHANGED <<initiator, tunnelled, closed, formed, dialing>>
    BY <1>6 DEF DialInv, Unregister
  <2>2. /\ end[s][d] = "ended"
        /\ \A e \in Device : conns'[e] = IF e = d /\ conns[d] = s THEN None ELSE conns[e]
    BY <1>6, <2>1, UnregisterEffect DEF TypeOK
  <2>3. ~IsFree(s) /\ ~Winner(s)
    BY <2>1, <2>2 DEF IsFree, OneWinner, Live
  <2>4. \A t \in Slot, e \in Device : t # s => end'[t][e] = end[t][e]
    BY <1>6, <2>1, UnregisterEffect
  <2>5. \A t \in Slot : IsFree(t) => IsFree(t)'
    BY <2>3, <2>4 DEF IsFree
  <2>6. ASSUME NEW w \in Slot, Winner(w) PROVE Live(w)'
    <3>1. w # s /\ Live(w)
      BY <2>1, <2>3, <2>6 DEF OneWinner
    <3>2. \A e \in Device : end[w][e] = "reading" => conns'[e] = w
      BY <2>1, <2>2, <3>1 DEF Live
    <3> QED
      BY <2>1, <2>4, <2>6, <3>1, <3>2, LiveFrame
  <2> QED
    BY <2>1, <2>5, <2>6, WinnerStays
<1>7. ASSUME NEW s \in Slot, Break(s) PROVE FALSE
  BY <1>7 DEF DialInv, Break, TypeOK
<1>8. ASSUME NEW d \in Device, Restart(d) PROVE FALSE
  BY <1>8 DEF DialInv, Restart, TypeOK
<1>9. CASE UNCHANGED vars
  BY <1>9 DEF DialInv, OneWinner, Winner, Live, IsFree, vars
<1> QED
  BY <1>1, <1>2, <1>3, <1>4, <1>5, <1>6, <1>7, <1>8, <1>9 DEF Next

(* However the dials of two devices cross, they do not drop all of their   *)
(* connections: once a connection was formed and nothing is under way,     *)
(* both have one, as long as nothing broke and nobody opened a tunnel.     *)
THEOREM CrossingDialsKeepOne == Spec => []OneDialIsKept
<1>1. Init => DialInv
  <2> SUFFICES ASSUME Init PROVE OneWinner
    BY InitType DEF DialInv
  <2>1. \A s \in Slot : IsFree(s)
    BY DEF Init, IsFree
  <2> QED
    BY <2>1 DEF Init, OneWinner, Winner
<1>2. DialInv => OneDialIsKept
  <2> SUFFICES ASSUME DialInv, tunnels = 0, faults = 0, Settled, formed,
                      NEW d \in Device
               PROVE  conns[d] # None
    BY DEF OneDialIsKept
  <2>1. PICK w \in Slot : Winner(w)
    BY SomeWinner DEF DialInv, OneWinner
  <2>2. Live(w)
    BY <2>1 DEF DialInv, OneWinner
  <2>3. end[w][d] = "reading"
    BY <2>2 DEF Live, Settled
  <2>4. conns[d] = w
    BY <2>2, <2>3 DEF Live
  <2> QED
    BY <2>4, DevicesAssumption
<1> QED
  BY <1>1, <1>2, DialStep, PTL DEF Spec
=============================================================================
